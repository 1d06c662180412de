--------------------------- MODULE HeldReservation ---------------------------
(***************************************************************************)
(* A workflow that holds a credit reservation while it waits for the       *)
(* merchant's answer to one question.  Five parties race to end the wait:  *)
(* the merchant's own requests, the workflow's timer, the sweeper that     *)
(* gives an old reservation back, the reconciler that repeats resumes that *)
(* were recorded and not delivered, and the worker that settles ready      *)
(* Works.                                                                  *)
(*                                                                         *)
(* One step is one transaction or one message.  How a single-carrier Work  *)
(* is settled once its receipt is there is the subject of WorkSettlement;  *)
(* here a settlement is one step on the usage.                             *)
(***************************************************************************)
EXTENDS Naturals, Sequences, SequencesExt

CONSTANTS
  Merchants,    \* requests of the merchant: HarnessDecisionService.submit
  Sweepers,     \* executions of HarnessReservationSweeper
  Reconcilers,  \* executions of HarnessResumeReconciler
  Typed,        \* an execution_confirmation interaction, not a question card
  HoldTimeout,  \* the workflow waits with holdTimeoutSeconds
  MaxAttempts,  \* MAX_RESERVATION_SWEEP_ATTEMPTS
  MaxFaults     \* bound: failed transactions, dead processes, overtaken leases

Actors == Merchants \cup Sweepers \cup Reconcilers

ASSUME HeldAssumption ==
  /\ Merchants \cap Sweepers = {} /\ Merchants \cap Reconcilers = {}
  /\ Sweepers \cap Reconcilers = {}
  /\ Typed \in BOOLEAN /\ HoldTimeout \in BOOLEAN /\ (Typed => ~HoldTimeout)
  /\ MaxAttempts \in Nat \ {0} /\ MaxFaults \in Nat

\* resolution_source of a decision event.  Its idempotency key is the client's own, or
\* built from the question and the source; a second key for a resolved question is
\* refused like any stale answer, so one event per source is kept.
Sources == {"decision", "core_hold_expired", "late_answer"}

VARIABLES
  question,   \* pending_questions.status
  events,     \* decision_events by source: resume_status, resume_claim_id, lease
  sweep,      \* the reservation_sweeps row; ripe: it waited out its minute or back-off
  receipt,    \* who wrote the Work's carrier receipt
  usage,      \* status of the product usage
  mailbox,    \* messages sent to the workflow's decision topic
  workflow,   \* waiting, or how awaitDecision returned
  bounded,    \* the workflow waits with its timer
  successor,  \* the late-answer successor was started
  pc, mode,   \* what an execution does next, and the source it dispatches
  released,   \* reservationReleased as the execution read it
  faults

vars == <<question, events, sweep, receipt, usage, mailbox, workflow, bounded, successor, pc, mode,
          released, faults>>

NoEvent == [status |-> "none", owner |-> "none", expired |-> FALSE]
NoSweep == [status |-> "none", attempts |-> 0, ripe |-> FALSE]

Recorded(source) == events[source].status # "none"

Goto(a, phase) == pc' = [pc EXCEPT ![a] = phase]

Set(source, status, owner) ==
  events' = [events EXCEPT ![source] = [status |-> status, owner |-> owner, expired |-> FALSE]]

-----------------------------------------------------------------------------
(* The merchant answers *)

\* readDecisionTarget and the reconciler's claim derive it alike.
reservationReleased == sweep.status = "completed" \/ usage # "reserved"

\* submit reads the target, and the answer is late when the reservation is gone or
\* the core resolved the question itself.  (A late "ignore" is dropped and changes nothing.)
readTarget(m) ==
  LET late == ~Typed /\ (reservationReleased
                           \/ (question = "resolved" /\ Recorded("core_hold_expired"))) IN
  /\ pc[m] = "idle"
  /\ mode' = [mode EXCEPT ![m] = IF late THEN "late_answer" ELSE "decision"]
  /\ released' = [released EXCEPT ![m] = reservationReleased]
  /\ Goto(m, "submit")
  /\ UNCHANGED <<question, events, sweep, receipt, usage, mailbox, workflow, bounded, successor,
                 faults>>

\* Mutant: a late answer to a question somebody resolved is always taken.
LateAlways == TRUE

\* A late answer is taken for a question the core has resolved or the sweep closed.
acceptsLateAnswer == Recorded("core_hold_expired") \/ sweep.status = "completed"

\* Mutant: the pending row is read without its status.
AcceptsAny(source) == TRUE

Accepts(source) == question = "pending" \/ (source = "late_answer" /\ acceptsLateAnswer)

\* What happens after the billing-free part of a dispatch.
Dispatched(a) == IF a \in Sweepers THEN "complete" ELSE "idle"

\* submit of the decision store (and resolveInteraction for a typed request): replays
\* by idempotency key, else records the event and resolves the question, else the
\* answer is stale.  The sweeper takes a stale answer as consumed by somebody else.
submit(a) ==
  LET source == mode[a] IN
  /\ pc[a] = "submit"
  /\ IF Recorded(source)
     THEN /\ Goto(a, IF events[source].status = "sent" THEN Dispatched(a) ELSE "claim")
          /\ UNCHANGED <<events, question>>
     ELSE IF Accepts(source)
     THEN /\ Set(source, "pending", "none")
          /\ question' = "resolved"
          /\ Goto(a, "claim")
     ELSE /\ Goto(a, Dispatched(a))
          /\ UNCHANGED <<events, question>>
  /\ UNCHANGED <<sweep, receipt, usage, mailbox, workflow, bounded, successor, mode, released,
                 faults>>

-----------------------------------------------------------------------------
(* A recorded decision is delivered *)

\* Mutant: a lease that ran out is not taken over.
ClaimableOnce(event) == event.status = "pending"

Claimable(event) == event.status = "pending" \/ (event.status = "sending" /\ event.expired)

claimDecisionResume(a) ==
  /\ pc[a] = "claim"
  /\ IF Claimable(events[mode[a]])
     THEN Set(mode[a], "sending", a) /\ Goto(a, "send")
     ELSE UNCHANGED events /\ Goto(a, Dispatched(a))
  /\ UNCHANGED <<question, sweep, receipt, usage, mailbox, workflow, bounded, successor, mode,
                 released, faults>>

\* Mutant: the reconciler looks for late answers only.
LateOnly == {"late_answer"}

\* Sources the reconciler looks for; an expired hold is not among them.
Reconcilable == {"decision", "late_answer"}

claimPending(r, source) ==
  /\ pc[r] = "idle"
  /\ source \in Reconcilable
  /\ Claimable(events[source])
  /\ Set(source, "sending", r)
  /\ mode' = [mode EXCEPT ![r] = source]
  /\ released' = [released EXCEPT ![r] = reservationReleased]
  /\ Goto(r, "send")
  /\ UNCHANGED <<question, sweep, receipt, usage, mailbox, workflow, bounded, successor, faults>>

\* DBOS.send, once per idempotency key.
Sent(message) ==
  mailbox' = IF Contains(mailbox, message) THEN mailbox ELSE Append(mailbox, message)

\* Mutant: the old wait is not closed.
Started(a) == "mark"

\* With the reservation gone, the old workflow must be told.
AfterStart(a) == IF released[a] THEN "abandon" ELSE "mark"

\* resume, or startSuccessor for a late answer.
resume(a) ==
  /\ pc[a] = "send"
  /\ IF mode[a] = "late_answer"
     THEN /\ successor' = TRUE
          /\ Goto(a, AfterStart(a))
          /\ UNCHANGED mailbox
     ELSE /\ Sent(mode[a])
          /\ Goto(a, "mark")
          /\ UNCHANGED successor
  /\ UNCHANGED <<question, events, sweep, receipt, usage, workflow, bounded, mode, released, faults>>

abandonReleasedReservation(a) ==
  /\ pc[a] = "abandon"
  /\ Sent("reservation_released")
  /\ Goto(a, "mark")
  /\ UNCHANGED <<question, events, sweep, receipt, usage, workflow, bounded, successor, mode,
                 released, faults>>

Holds(a) == events[mode[a]].status = "sending" /\ events[mode[a]].owner = a

markDecisionResumed(a) ==
  /\ pc[a] = "mark"
  /\ IF Holds(a) THEN Set(mode[a], "sent", "none") /\ Goto(a, Dispatched(a))
                 ELSE UNCHANGED events /\ Goto(a, "release")
  /\ UNCHANGED <<question, sweep, receipt, usage, mailbox, workflow, bounded, successor, mode,
                 released, faults>>

\* Mutant: the sweeper swallows an error of expireHold.
Swallowed(a) == IF a \in Sweepers THEN "complete" ELSE "idle"

\* Its dispatch threw: a merchant is told so, the sweeper records it.
Undelivered(a) == IF a \in Sweepers THEN "completionFailed" ELSE "idle"

releaseDecisionResume(a) ==
  /\ pc[a] = "release"
  /\ IF Holds(a) THEN Set(mode[a], "pending", "none") ELSE UNCHANGED events
  /\ Goto(a, Undelivered(a))
  /\ UNCHANGED <<question, sweep, receipt, usage, mailbox, workflow, bounded, successor, mode,
                 released, faults>>

-----------------------------------------------------------------------------
(* The workflow *)

\* Mutant: a released reservation wakes the workflow like an answer.
WokenByAll(message) == IF message = "core_hold_expired" THEN "cancelled" ELSE "proceeds"

WokenBy(message) == IF message = "decision" THEN "proceeds" ELSE "cancelled"

\* recv returns the first message of the topic.
recv ==
  /\ workflow = "waiting" /\ mailbox # <<>>
  /\ workflow' = WokenBy(Head(mailbox))
  /\ UNCHANGED <<question, events, sweep, receipt, usage, mailbox, bounded, successor, pc, mode,
                 released, faults>>

\* The hold's timer: the workflow records the expiry itself and sends nothing.  If the
\* question was resolved by somebody else it waits for that answer without a timer.
submitCoreHoldExpired ==
  LET event == events["core_hold_expired"]
      stale == event.status = "none" /\ question = "resolved" IN
  /\ workflow = "waiting" /\ bounded /\ mailbox = <<>>
  /\ IF stale
     THEN bounded' = FALSE /\ UNCHANGED <<events, question, workflow>>
     ELSE /\ IF event.status = "none" \/ Claimable(event)
             THEN Set("core_hold_expired", "sent", "none") ELSE UNCHANGED events
          /\ question' = "resolved"
          /\ workflow' = "cancelled"
          /\ UNCHANGED bounded
  /\ UNCHANGED <<sweep, receipt, usage, mailbox, successor, pc, mode, released, faults>>

\* The workflow's billing epilogue; a receipt with another fingerprint refuses it.
settleWorkflow ==
  /\ workflow # "waiting" /\ receipt = "none"
  /\ receipt' = "workflow"
  /\ usage' = IF workflow = "proceeds" THEN "committed" ELSE "refunded"
  /\ UNCHANGED <<question, events, sweep, mailbox, workflow, bounded, successor, pc, mode, released,
                 faults>>

-----------------------------------------------------------------------------
(* The reservation sweeper *)

\* An unanswered hold whose reservation is still held, at first or after a back-off
\* (new_ready); a claim nobody finished for a minute, whatever became of the hold
\* (stale_ready).
SweepReady ==
  \/ /\ question = "pending" /\ usage = "reserved"
     /\ \/ sweep.status = "none"
        \/ sweep.status = "failed" /\ sweep.ripe /\ sweep.attempts < MaxAttempts
  \/ sweep.status = "processing" /\ sweep.ripe

\* attempts is only ever compared with its limit, where it is capped.
NextAttempt == IF sweep.attempts < MaxAttempts THEN sweep.attempts + 1 ELSE MaxAttempts

claimBatch(s) ==
  /\ pc[s] = "idle"
  /\ SweepReady
  /\ sweep' = [status |-> "processing", ripe |-> FALSE, attempts |-> NextAttempt]
  /\ mode' = [mode EXCEPT ![s] = "core_hold_expired"]
  /\ Goto(s, "record")
  /\ UNCHANGED <<question, events, receipt, usage, mailbox, workflow, bounded, successor, released,
                 faults>>

\* refund of the billing executor, first part.  The receipt's fingerprint covers the
\* claimed row with its attempts counter, so no later claim repeats it.
recordCarrierTerminal(s) ==
  /\ pc[s] = "record"
  /\ IF receipt = "none"
     THEN receipt' = "sweep" /\ Goto(s, "settle")
     ELSE UNCHANGED receipt /\ Goto(s, "refundFailed")
  /\ UNCHANGED <<question, events, sweep, usage, mailbox, workflow, bounded, successor, mode,
                 released, faults>>

\* refund, second part: settleReadyWork.  Then expireHold submits the expiry.
settleReadyWork(s) ==
  /\ pc[s] = "settle"
  /\ usage' = "refunded"
  /\ Goto(s, "submit")
  /\ UNCHANGED <<question, events, sweep, receipt, mailbox, workflow, bounded, successor, mode,
                 released, faults>>

\* markCompleted asks for a row that is still processing or already completed.
markCompleted(s) ==
  /\ pc[s] = "complete"
  /\ IF sweep.status \in {"processing", "completed"}
     THEN sweep' = [sweep EXCEPT !.status = "completed"] /\ Goto(s, "idle")
     ELSE UNCHANGED sweep /\ Goto(s, "completionFailed")
  /\ UNCHANGED <<question, events, receipt, usage, mailbox, workflow, bounded, successor, mode,
                 released, faults>>

\* markFailed: only a refund that left the reservation as it was opens the row again;
\* after anything else the row stays claimed and its minute starts again.
markFailed(s) ==
  LET untouched == pc[s] = "refundFailed" /\ usage = "reserved" IN
  /\ pc[s] \in {"refundFailed", "completionFailed"}
  /\ sweep' = IF sweep.status # "processing" THEN sweep
              ELSE [sweep EXCEPT !.ripe = FALSE,
                                 !.status = IF ~untouched THEN "processing"
                                            ELSE IF sweep.attempts < MaxAttempts THEN "failed"
                                            ELSE "dead_letter"]
  /\ Goto(s, "idle")
  /\ UNCHANGED <<question, events, receipt, usage, mailbox, workflow, bounded, successor, mode,
                 released, faults>>

\* HarnessCarrierSettlementWorker finishes a Work whose receipt made it ready.
settleQueuedWork ==
  /\ receipt = "sweep" /\ usage = "reserved"
  /\ usage' = "refunded"
  /\ UNCHANGED <<question, events, sweep, receipt, mailbox, workflow, bounded, successor, pc, mode,
                 released, faults>>

-----------------------------------------------------------------------------
(* Time and failures *)

\* Something runs out although its holder is alive and slow: that counts as a fault.
Overtakes(slow) == slow => faults < MaxFaults

Count(slow) == faults' = IF slow THEN faults + 1 ELSE faults

\* resume_lease_expires_at passes.
leaseExpires(source) ==
  LET slow == \E a \in Actors : /\ events[source].owner = a /\ mode[a] = source
                                /\ pc[a] \in {"send", "abandon", "mark", "release"} IN
  /\ events[source].status = "sending" /\ ~events[source].expired
  /\ Overtakes(slow) /\ Count(slow)
  /\ events' = [events EXCEPT ![source].expired = TRUE]
  /\ UNCHANGED <<question, sweep, receipt, usage, mailbox, workflow, bounded, successor, pc, mode,
                 released>>

\* A minute passes since the claim, or next_attempt_at comes.
sweepRipens ==
  LET slow == \E s \in Sweepers : pc[s] # "idle" IN
  /\ sweep.status \in {"processing", "failed"} /\ ~sweep.ripe
  /\ Overtakes(slow) /\ Count(slow)
  /\ sweep' = [sweep EXCEPT !.ripe = TRUE]
  /\ UNCHANGED <<question, events, receipt, usage, mailbox, workflow, bounded, successor, pc, mode,
                 released>>

\* Where the error of a failed transaction or send is caught.
Caught(a) ==
  CASE pc[a] \in {"send", "abandon", "mark"} -> "release"
    [] pc[a] \in {"record", "settle"} -> "refundFailed"
    [] pc[a] \in {"refundFailed", "completionFailed"} -> "idle"
    [] OTHER -> Undelivered(a)

transactionFails(a) ==
  /\ faults < MaxFaults /\ pc[a] # "idle"
  /\ faults' = faults + 1
  /\ Goto(a, Caught(a))
  /\ UNCHANGED <<question, events, sweep, receipt, usage, mailbox, workflow, bounded, successor,
                 mode, released>>

\* The process of a request or a worker dies.  The workflow itself is durable.
crash(a) ==
  /\ faults < MaxFaults /\ pc[a] # "idle"
  /\ faults' = faults + 1
  /\ Goto(a, "idle")
  /\ UNCHANGED <<question, events, sweep, receipt, usage, mailbox, workflow, bounded, successor,
                 mode, released>>

-----------------------------------------------------------------------------
Init ==
  /\ question = "pending"
  /\ events = [source \in Sources |-> NoEvent]
  /\ sweep = NoSweep
  /\ receipt = "none" /\ usage = "reserved"
  /\ mailbox = <<>> /\ workflow = "waiting" /\ bounded = HoldTimeout
  /\ successor = FALSE
  /\ pc = [a \in Actors |-> "idle"]
  /\ mode = [a \in Actors |-> "decision"]
  /\ released = [a \in Actors |-> FALSE]
  /\ faults = 0

\* Delivery of a recorded decision, shared by all three.
Dispatch(a) ==
  submit(a) \/ claimDecisionResume(a) \/ resume(a) \/ abandonReleasedReservation(a)
    \/ markDecisionResumed(a) \/ releaseDecisionResume(a)

Sweep(s) == recordCarrierTerminal(s) \/ settleReadyWork(s) \/ markCompleted(s) \/ markFailed(s)

Workflow == recv \/ submitCoreHoldExpired \/ settleWorkflow

Next ==
  \/ \E m \in Merchants : readTarget(m)
  \/ \E a \in Actors : Dispatch(a) \/ transactionFails(a) \/ crash(a)
  \/ \E r \in Reconcilers, source \in Sources : claimPending(r, source)
  \/ \E s \in Sweepers : claimBatch(s) \/ Sweep(s)
  \/ Workflow
  \/ settleQueuedWork
  \/ \E source \in Sources : leaseExpires(source)
  \/ sweepRipens

\* A request that arrived is served; the compensation timer runs the reconciler, the
\* sweeper and the settlement worker every second; DBOS recovers the workflow and its
\* timer; leases and back-offs run out.
Fairness ==
  /\ \A a \in Actors : WF_vars(Dispatch(a))
  /\ \A s \in Sweepers : WF_vars(claimBatch(s)) /\ WF_vars(Sweep(s))
  /\ \A r \in Reconcilers, source \in Sources : SF_vars(claimPending(r, source))
  /\ WF_vars(recv) /\ WF_vars(submitCoreHoldExpired) /\ WF_vars(settleWorkflow)
  /\ WF_vars(settleQueuedWork)
  /\ \A source \in Sources : WF_vars(leaseExpires(source))
  /\ WF_vars(sweepRipens)

Spec == Init /\ [][Next]_vars
FairSpec == Spec /\ Fairness

-----------------------------------------------------------------------------
(* Properties *)

EventStatus == {"none", "pending", "sending", "sent"}

EventRecord == [status : EventStatus, owner : Actors \cup {"none"}, expired : BOOLEAN]

Phases == {"idle", "submit", "claim", "send", "abandon", "mark", "release", "record", "settle",
           "complete", "refundFailed", "completionFailed"}

\* Type invariant of the question, its events, the sweep and the executions.
TypeOK ==
  /\ question \in {"pending", "resolved"}
  /\ events \in [Sources -> EventRecord]
  /\ sweep \in [status : {"none", "processing", "failed", "completed", "dead_letter"},
                attempts : 0..MaxAttempts, ripe : BOOLEAN]
  /\ receipt \in {"none", "sweep", "workflow"}
  /\ usage \in {"reserved", "committed", "refunded"}
  /\ mailbox \in Seq({"decision", "core_hold_expired", "reservation_released"})
  /\ workflow \in {"waiting", "proceeds", "cancelled"}
  /\ bounded \in BOOLEAN /\ successor \in BOOLEAN
  /\ pc \in [Actors -> Phases]
  /\ mode \in [Actors -> Sources]
  /\ released \in [Actors -> BOOLEAN]
  /\ faults \in 0..MaxFaults

\* The question is resolved once: the merchant's answer and the expiry of the hold
\* exclude each other, however the requests, the timer and the sweeper interleave.
OneResolution == ~(Recorded("decision") /\ Recorded("core_hold_expired"))

\* "decision is persisted before the workflow is resumed": the workflow ends its wait
\* only the way a recorded event says.
OutcomeIsRecorded ==
  /\ workflow = "proceeds" => Recorded("decision")
  /\ workflow = "cancelled" => Recorded("core_hold_expired") \/ Recorded("late_answer")

\* A sweep is completed only when the reservation is given back and nobody can still
\* answer the question: readers of 'completed' take it for both.
SweptIsOver == sweep.status = "completed" => usage # "reserved" /\ question = "resolved"

\* One answer makes one Work: the waiting workflow goes on or a successor takes over,
\* never both.
OneWork == ~(workflow = "proceeds" /\ successor)

\* "Harness workflow cannot resume after its reservation was released": no answer is
\* sent to the workflow once the usage has left 'reserved'.
ReleasedNeverResumes ==
  [][usage = "refunded" => (Contains(mailbox', "decision") => Contains(mailbox, "decision"))]_vars

\* A recorded answer ends the wait although requests die between recording and sending.
AnswerReachesWorkflow == Recorded("decision") ~> workflow # "waiting"

\* A recorded late answer starts its successor and closes the old wait.
LateAnswerIsHonoured == Recorded("late_answer") ~> successor /\ workflow # "waiting"

\* A bounded hold ends: the timer or somebody's answer wakes the workflow.
HoldEnds == <>(workflow # "waiting")

\* "expired hold is fed back to the exact suspended workflow": once the sweeper gave
\* the reservation back, the workflow stops waiting for it.
SweptHoldEnds == usage = "refunded" ~> workflow # "waiting"
=============================================================================
