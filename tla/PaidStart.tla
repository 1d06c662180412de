----------------------------- MODULE PaidStart -----------------------------
(***************************************************************************)
(* A paid request from the merchant's confirmation to the provider: the    *)
(* confirmation request with its hold of credits                           *)
(* (agent-session/execution-confirmation-service.ts), the submission row   *)
(* with its start lease and confirmation outbox                            *)
(* (execution-spine/postgres-creation-submission-store.ts), the start      *)
(* (submission-coordinator.ts), the workflow's confirmation gate           *)
(* (harness/paid-generation-confirmation.ts) and everyone who may end the  *)
(* attempt meanwhile.                                                      *)
(*                                                                         *)
(* One request of the merchant is a chain of attempts.  An attempt that    *)
(* expired, or whose price drifted after it was confirmed, is replaced by  *)
(* a successor with a task, a quote, a hold and a question of its own.     *)
(* One step is one transaction.                                            *)
(***************************************************************************)
EXTENDS Naturals

CONSTANTS
    Length,     \* bound: how many attempts the chain may have
    Starters,   \* executions of startPrepared and of recoverPendingStarts
    Cancels,    \* does the merchant cancel running Works?
    MaxFaults,  \* bound: failures, crashes and leases lost by a live holder
    None        \* nobody holds the lease

ASSUME StartAssumption ==
    /\ Length \in Nat \ {0}
    /\ Cancels \in BOOLEAN
    /\ MaxFaults \in Nat
    /\ None \notin Starters

VARIABLES
    attempts,   \* the rows of each attempt, see Row
    starter,    \* what each execution of a start does next, for which attempt
    faults      \* how many faults have happened

vars == <<attempts, starter, faults>>

Attempts == 1..Length

-----------------------------------------------------------------------------
(* State *)

\* Ages of an attempt: 0 when it is new, 1 past STALLED_WORK_TIMEOUT_MS, 2
\* past holdExpiresAt, which is also confirmationDispatch.expiresAt.
Row ==
    [request  : {"none", "pending", "decided", "expired"},
     decision : {"none", "confirmed", "rejected"},
     credits  : {"none", "held", "returned"},             \* of its USAGE rows
     usage    : {"none", "reserved", "settled", "refunded"},
     harness  : {"none", "reserved", "starting", "started", "failed"},
     lease    : Starters \cup {None},                     \* harness_lease_id
     live     : BOOLEAN,                                  \* the lease runs
     dispatch : {"none", "pending", "dispatched", "expired"},
     work     : {"none", "running", "completed", "failed"},
     workflow : {"none", "gate", "admitted", "executing", "settled",
                 "failing", "ended"},
     output   : BOOLEAN,                   \* the provider was paid to execute
     age      : 0..2]

Absent ==
    [request |-> "none", decision |-> "none", credits |-> "none",
     usage |-> "none", harness |-> "none", lease |-> None, live |-> FALSE,
     dispatch |-> "none", work |-> "none", workflow |-> "none",
     output |-> FALSE, age |-> 0]

\* What reserve and createRequest leave behind in one transaction.
Reserved ==
    [request |-> "pending", decision |-> "none", credits |-> "held",
     usage |-> "reserved", harness |-> "reserved", lease |-> None,
     live |-> FALSE, dispatch |-> "pending", work |-> "running",
     workflow |-> "none", output |-> FALSE, age |-> 0]

Idle == [pc |-> "idle", at |-> 1]

Init ==
    /\ attempts = [a \in Attempts |-> IF a = 1 THEN Reserved ELSE Absent]
    /\ starter = [s \in Starters |-> Idle]
    /\ faults = 0

Exists(a) == attempts[a].request # "none"

Superseded(a) == a + 1 \in Attempts /\ Exists(a + 1)

Confirmed(a) ==
    attempts[a].request = "decided" /\ attempts[a].decision = "confirmed"

Due(a) == attempts[a].age = 2

Set(a, row) == attempts' = [attempts EXCEPT ![a] = row]

Fault == faults < MaxFaults /\ faults' = faults + 1

-----------------------------------------------------------------------------
(* Giving the reservation back *)

\* failAndRefund with forceCreditRefund: a quote that is settled or refunded
\* stays as it is.
failAndRefund(row) ==
    [row EXCEPT !.usage = IF @ = "reserved" THEN "refunded" ELSE @]

\* The ledger's refund of the whole operation; a repeat posts nothing.
refundUsageOperation(row) ==
    [row EXCEPT !.credits = IF @ = "held" THEN "returned" ELSE @]

\* Usage first, then the ledger if the usage came out refunded.
Released(row) ==
    IF failAndRefund(row).usage = "refunded"
    THEN refundUsageOperation(failAndRefund(row))
    ELSE failAndRefund(row)

\* The hold of an unanswered request: the ledger only.  Usage, Work and
\* submission are left to others.
HoldExpired(row) == [refundUsageOperation(row) EXCEPT !.request = "expired"]

expireLockedConfirmationHold(row) ==
    [Released(row) EXCEPT !.harness = "failed", !.lease = None,
                          !.live = FALSE, !.dispatch = "expired"]

-----------------------------------------------------------------------------
(* The confirmation request *)

\* A late answer expires the hold instead, commits that, and throws.
decide(a, d) ==
    /\ attempts[a].request = "pending"
    /\ IF Due(a)
       THEN Set(a, HoldExpired(attempts[a]))
       ELSE LET row == [attempts[a] EXCEPT !.request = "decided",
                                           !.decision = d]
            IN  Set(a, IF d = "rejected" THEN refundUsageOperation(row)
                                         ELSE row)
    /\ UNCHANGED <<starter, faults>>

completeExpiry(a) ==
    /\ attempts[a].request = "pending"
    /\ Due(a)
    /\ Set(a, HoldExpired(attempts[a]))
    /\ UNCHANGED <<starter, faults>>

\* The merchant starts an attempt whose hold is gone: same plan, new attempt.
\* The old one keeps its usage and its Work.
createExpiredConfirmationSuccessor(a) ==
    /\ attempts[a].request = "expired"
    /\ a + 1 \in Attempts
    /\ ~Exists(a + 1)
    /\ attempts' = [attempts EXCEPT ![a].harness = "failed",
                                    ![a + 1] = Reserved]
    /\ UNCHANGED <<starter, faults>>

-----------------------------------------------------------------------------
(* The start *)

DispatchExpired(a) == attempts[a].dispatch = "pending" /\ Due(a)

Unclaimed(a) ==
    \/ attempts[a].harness = "reserved"
    \/ attempts[a].harness = "starting" /\ ~attempts[a].live

\* Started, leased and failed rows are reported as they are.
claimHarnessStart(s, a) ==
    /\ starter[s].pc = "idle"
    /\ \/ /\ DispatchExpired(a)
          /\ Set(a, expireLockedConfirmationHold(attempts[a]))
          /\ UNCHANGED starter
       \/ /\ ~DispatchExpired(a)
          /\ Unclaimed(a)
          /\ Set(a, [attempts[a] EXCEPT !.harness = "starting", !.lease = s,
                                        !.live = TRUE])
          /\ starter' = [starter EXCEPT ![s] = [pc |-> "claimed", at |-> a]]
    /\ UNCHANGED faults

\* What the merchant's command checks never changes once it holds.
startPrepared(s, a) == Confirmed(a) /\ claimHarnessStart(s, a)

\* Recovery repeats only starts that had crossed the dispatch.
recoverPendingStarts(s, a) ==
    /\ attempts[a].dispatch = "dispatched"
    /\ Unclaimed(a)
    /\ claimHarnessStart(s, a)

Holds(s, a) == attempts[a].harness = "starting" /\ attempts[a].lease = s

Go(s, step) == starter' = [starter EXCEPT ![s].pc = step]

Stop(s) == starter' = [starter EXCEPT ![s] = Idle]

\* May the holder cross the dispatch?  The time is not looked at again.
MayDispatch(s, a) == Holds(s, a) /\ attempts[a].dispatch # "expired"

markHarnessStartDispatched(s) ==
    LET a == starter[s].at IN
    /\ starter[s].pc = "claimed"
    /\ \/ /\ MayDispatch(s, a)
          /\ Set(a, [attempts[a] EXCEPT !.dispatch = "dispatched"])
          /\ Go(s, "dispatched")
       \/ /\ ~MayDispatch(s, a)
          /\ Go(s, "failed")
          /\ UNCHANGED attempts
    /\ UNCHANGED faults

\* Admission of the workflow under the attempt's id: a repeat finds it there.
harnessStart(s) ==
    LET a == starter[s].at IN
    /\ starter[s].pc = "dispatched"
    /\ Set(a, [attempts[a] EXCEPT
                 !.workflow = IF @ = "none" THEN "gate" ELSE @])
    /\ Go(s, "started")
    /\ UNCHANGED faults

\* classifyStartFailure: an error to retry, or a rejection for good.
harnessStartFails(s) ==
    /\ starter[s].pc = "dispatched"
    /\ Fault
    /\ \/ Go(s, "failed")
       \/ Go(s, "rejected")
    /\ UNCHANGED attempts

completeHarnessStart(s) ==
    LET a == starter[s].at IN
    /\ starter[s].pc = "started"
    /\ Set(a, IF Holds(s, a)
              THEN [attempts[a] EXCEPT !.harness = "started", !.lease = None,
                                       !.live = FALSE,
                                       !.dispatch = "dispatched"]
              ELSE attempts[a])
    /\ Stop(s)
    /\ UNCHANGED faults

\* Release and fail differ in the state they leave the row in.
LetGo(s, state) ==
    LET a == starter[s].at IN
    /\ Set(a, IF Holds(s, a)
              THEN [attempts[a] EXCEPT !.harness = state, !.lease = None,
                                       !.live = FALSE]
              ELSE attempts[a])
    /\ Stop(s)
    /\ UNCHANGED faults

releaseHarnessStart(s) == starter[s].pc = "failed" /\ LetGo(s, "reserved")

failHarnessStart(s) == starter[s].pc = "rejected" /\ LetGo(s, "failed")

starterCrashes(s) ==
    /\ starter[s].pc # "idle"
    /\ Fault
    /\ Stop(s)
    /\ UNCHANGED attempts

\* A lease that runs out under an execution still at work is a fault.
leaseExpires(a) ==
    /\ attempts[a].harness = "starting"
    /\ attempts[a].live
    /\ Set(a, [attempts[a] EXCEPT !.live = FALSE])
    /\ IF \E s \in Starters : Holds(s, a) /\ starter[s].pc # "idle"
       THEN Fault ELSE UNCHANGED faults
    /\ UNCHANGED starter

\* Mutant: what has been dispatched is swept too.
SweptAnyway(a) == attempts[a].harness \in {"reserved", "starting"} /\ Due(a)

\* Mutant: rows under a lease are left alone, also when it has run out.
ReservedOnly(a) == attempts[a].harness = "reserved" /\ DispatchExpired(a)

\* The sweep of the outbox.  The request's status is not looked at.
Undispatched(a) ==
    /\ attempts[a].harness \in {"reserved", "starting"}
    /\ DispatchExpired(a)

expireUndispatchedConfirmationHolds(a) ==
    /\ Undispatched(a)
    /\ Set(a, expireLockedConfirmationHold(attempts[a]))
    /\ UNCHANGED <<starter, faults>>

-----------------------------------------------------------------------------
(* The workflow *)

Run(a, step) == [attempts[a] EXCEPT !.workflow = step]

\* The gate reads the decision and the live facts outside any durable step,
\* so it reads them again whenever the workflow is recovered.
admitSnapshot(a) ==
    /\ attempts[a].workflow = "gate"
    /\ Set(a, Run(a, "admitted"))
    /\ UNCHANGED <<starter, faults>>

\* Mutant: the predecessor's usage is closed, its ledger posting forgotten.
RepricedUsageOnly(row) == [failAndRefund(row) EXCEPT !.harness = "failed"]

\* The part of the successor's transaction that closes the predecessor: the
\* ledger is refunded whatever the usage came out as.
Repriced(row) ==
    [refundUsageOperation(failAndRefund(row)) EXCEPT !.harness = "failed"]

MayReprice(a) == attempts[a].harness # "failed"

\* A stale gate ends its workflow as superseded, unless the process dies
\* after the transaction.
createRepricedPaidExecutionSuccessor(a) ==
    /\ attempts[a].workflow = "gate"
    /\ MayReprice(a)
    /\ a + 1 \in Attempts
    /\ ~Exists(a + 1)
    /\ \/ /\ attempts' = [attempts EXCEPT ![a] = Repriced(Run(a, "ended")),
                                          ![a + 1] = Reserved]
          /\ UNCHANGED faults
       \/ /\ attempts' = [attempts EXCEPT ![a] = Repriced(attempts[a]),
                                          ![a + 1] = Reserved]
          /\ Fault
    /\ UNCHANGED starter

\* A recovered gate that is stale again finds the successor.
successorExists(a) ==
    /\ attempts[a].workflow = "gate"
    /\ Superseded(a)
    /\ Set(a, Run(a, "ended"))
    /\ UNCHANGED <<starter, faults>>

\* Rights revoked, quote missing, successor unaffordable or not allowed, or
\* any later stage failing.
workflowFails(a) ==
    /\ attempts[a].workflow \in {"gate", "admitted", "executing"}
    /\ Set(a, Run(a, "failing"))
    /\ UNCHANGED <<starter, faults>>

\* Mutant: an admitted snapshot is taken for a reservation.
ExecuteAdmitted(a) == TRUE

\* The provider is called only for a reservation that is still there; a
\* finished execution is replayed.
MayExecute(a) == attempts[a].output \/ attempts[a].usage = "reserved"

claimMerchantExecution(a) ==
    /\ attempts[a].workflow = "admitted"
    /\ \/ /\ MayExecute(a)
          /\ Set(a, [Run(a, "executing") EXCEPT !.output = TRUE])
       \/ /\ ~MayExecute(a)
          /\ Set(a, Run(a, "failing"))
    /\ UNCHANGED <<starter, faults>>

\* The epilogue of a delivery; what it does in detail is WorkSettlement.
commit(a) ==
    /\ attempts[a].workflow = "executing"
    /\ Set(a, IF attempts[a].usage = "reserved"
              THEN [Run(a, "settled") EXCEPT !.usage = "settled",
                                             !.work = "completed"]
              ELSE Run(a, "settled"))
    /\ UNCHANGED <<starter, faults>>

\* The epilogue of a failure.
refund(a) ==
    /\ attempts[a].workflow = "failing"
    /\ Set(a, [Released(Run(a, "ended")) EXCEPT
                 !.work = IF @ = "running" THEN "failed" ELSE @])
    /\ UNCHANGED <<starter, faults>>

workflowEnds(a) ==
    /\ attempts[a].workflow = "settled"
    /\ Set(a, Run(a, "ended"))
    /\ UNCHANGED <<starter, faults>>

\* DBOS recovers the workflow from its beginning; completed steps are not
\* repeated, the gate is.
workflowCrashes(a) ==
    /\ attempts[a].workflow \in {"admitted", "executing", "settled", "failing"}
    /\ Fault
    /\ Set(a, Run(a, "gate"))
    /\ UNCHANGED starter

-----------------------------------------------------------------------------
(* Ending a running Work from outside *)

\* The workflow is cancelled after the commit, if anyone lives to do it.
terminateRunningWork(a) ==
    /\ attempts[a].work = "running"
    /\ \E step \in {attempts[a].workflow, "ended"} :
          /\ attempts[a].workflow = "none" => step = "none"
          /\ Set(a, [Released(Run(a, step)) EXCEPT !.work = "failed"])
    /\ UNCHANGED <<starter, faults>>

cancelRunning(a) == Cancels /\ terminateRunningWork(a)

\* listStalledWorks: fifteen minutes without a generation job, confirmed or
\* not.
StalledWork(a) ==
    /\ attempts[a].harness \in {"reserved", "starting", "started"}
    /\ attempts[a].age > 0

sweepStalledWork(a) == StalledWork(a) /\ terminateRunningWork(a)

timePasses(a) ==
    /\ Exists(a)
    /\ attempts[a].age < 2
    /\ Set(a, [attempts[a] EXCEPT !.age = @ + 1])
    /\ UNCHANGED <<starter, faults>>

-----------------------------------------------------------------------------
Start(s) ==
    \/ markHarnessStartDispatched(s)
    \/ harnessStart(s)
    \/ completeHarnessStart(s)
    \/ releaseHarnessStart(s)
    \/ failHarnessStart(s)

Workflow(a) ==
    \/ admitSnapshot(a)
    \/ createRepricedPaidExecutionSuccessor(a)
    \/ successorExists(a)
    \/ workflowFails(a)
    \/ claimMerchantExecution(a)
    \/ commit(a)
    \/ refund(a)
    \/ workflowEnds(a)

Next ==
    \/ \E a \in Attempts :
          \/ \E d \in {"confirmed", "rejected"} : decide(a, d)
          \/ completeExpiry(a)
          \/ createExpiredConfirmationSuccessor(a)
          \/ \E s \in Starters : startPrepared(s, a)
          \/ \E s \in Starters : recoverPendingStarts(s, a)
          \/ leaseExpires(a)
          \/ expireUndispatchedConfirmationHolds(a)
          \/ Workflow(a)
          \/ workflowCrashes(a)
          \/ cancelRunning(a)
          \/ sweepStalledWork(a)
          \/ timePasses(a)
    \/ \E s \in Starters : Start(s) \/ harnessStartFails(s) \/ starterCrashes(s)

Spec == Init /\ [][Next]_vars

\* Time passes and leases run out; the expiry job and the recovery timer run
\* every minute; executions go on, and DBOS recovers workflows.  Nothing is
\* assumed of the merchant, of faults or of the stalled-work sweeper.
Fairness ==
    /\ \A a \in Attempts :
          /\ WF_vars(timePasses(a))
          /\ WF_vars(leaseExpires(a))
          /\ WF_vars(completeExpiry(a))
          /\ WF_vars(expireUndispatchedConfirmationHolds(a))
          /\ WF_vars(\E s \in Starters : recoverPendingStarts(s, a))
          /\ WF_vars(Workflow(a))
    /\ \A s \in Starters : WF_vars(Start(s))

FairSpec == Spec /\ Fairness

-----------------------------------------------------------------------------
(* Properties *)

\* The rows and the executions keep their types.
TypeOK ==
    /\ attempts \in [Attempts -> Row]
    /\ starter \in
          [Starters -> [pc : {"idle", "claimed", "dispatched", "started",
                              "failed", "rejected"}, at : Attempts]]
    /\ faults \in 0..MaxFaults

\* However often a request expires or is repriced, the merchant has credits
\* in at most one of its attempts, delivered or not: every successor's
\* transaction finds the predecessor's hold returned or returns it.
OneLiveHold ==
    \A a, b \in Attempts :
        attempts[a].credits = "held" /\ attempts[b].credits = "held" => a = b

\* A hold that has expired, in the request or in the outbox, has no
\* workflow, and never gets one: an execution that claimed the start before
\* the expiry is stopped at the dispatch.
ExpiredNeverStarts ==
    \A a \in Attempts :
        attempts[a].request = "expired" \/ attempts[a].dispatch = "expired"
        => attempts[a].workflow = "none"

\* The provider is called for the first time only for the last attempt of
\* the chain, confirmed, with its credits held, although the claim looks at
\* the usage alone and expired attempts keep theirs reserved.
OutputIsPaid ==
    [][\A a \in Attempts :
          ~attempts[a].output /\ attempts'[a].output
          => /\ attempts[a].credits = "held"
             /\ Confirmed(a)
             /\ ~Superseded(a)]_vars

\* Credits held for an attempt that is not delivered.
Open(a) == attempts[a].credits = "held" /\ attempts[a].usage # "settled"

\* No hold stays open for ever: it is delivered or returned, unless admission
\* refuses the start for good, which leaves the row to nobody.
HoldEnds ==
    \A a \in Attempts :
        Open(a) ~> ~Open(a) \/ attempts[a].harness = "failed"

\* As long as the question may still be answered, the credits that the card
\* says are reserved are reserved.
PendingHoldIsKept ==
    \A a \in Attempts :
        attempts[a].request = "pending" => attempts[a].credits = "held"

\* An attempt is superseded for its price only before it has produced
\* anything that can be billed.
RepricedBeforeOutput ==
    [][\A a \in Attempts :
          attempts[a].workflow = "gate" /\ ~Superseded(a) /\ Superseded(a)'
          => ~attempts[a].output]_vars
=============================================================================
