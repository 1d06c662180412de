------------------------ MODULE HeldReservationProofs ------------------------
(***************************************************************************)
(* Theorems about HeldReservation, for any number of requests, sweepers    *)
(* and reconcilers, any number of faults, with and without a timer.        *)
(***************************************************************************)
EXTENDS HeldReservation, TLAPS

\* An execution that has a recorded event to deliver.
Delivering == {"claim", "send", "abandon", "mark", "release"}

\* The event a message of the decision topic stands for.
SourceOf(message) == IF message = "reservation_released" THEN "late_answer" ELSE message

\* A question nobody resolved has no event.
PendingIsUnrecorded == question = "pending" => \A source \in Sources : ~Recorded(source)

\* Nothing is delivered before it is recorded.
DeliveryIsRecorded ==
  \A a \in Actors : /\ pc[a] \in Delivering => Recorded(mode[a])
                    /\ pc[a] = "abandon" => mode[a] = "late_answer"

MailIsRecorded == \A i \in 1..Len(mailbox) : Recorded(SourceOf(mailbox[i]))

\* A sweeper that is past its refund has given the reservation back; one that is about
\* to complete has seen the question resolved.
SweepIsBacked ==
  \A s \in Sweepers : /\ pc[s] \in Delivering \cup {"submit", "complete"} => usage # "reserved"
                      /\ pc[s] = "complete" => question = "resolved"

IInv ==
  /\ TypeOK
  /\ PendingIsUnrecorded /\ DeliveryIsRecorded /\ MailIsRecorded /\ SweepIsBacked
  /\ OneResolution /\ OutcomeIsRecorded /\ SweptIsOver

-----------------------------------------------------------------------------
\* The executions are of one kind each.
LEMMA KindsAreDisjoint ==
  /\ \A m \in Merchants : m \notin Sweepers /\ m \notin Reconcilers
  /\ \A r \in Reconcilers : r \notin Sweepers
BY HeldAssumption

\* Init establishes every part of the invariant.
LEMMA InitInv == Init => IInv
<1> SUFFICES ASSUME Init PROVE IInv
  OBVIOUS
<1> USE HeldAssumption DEF Init, NoEvent, NoSweep, Recorded, Sources
<1>1. TypeOK
  <2>1. NoEvent \in EventRecord /\ "idle" \in Phases
    BY DEF EventRecord, EventStatus, Phases
  <2>2. bounded \in BOOLEAN
        /\ mailbox \in Seq({"decision", "core_hold_expired", "reservation_released"})
    OBVIOUS
  <2>3. /\ sweep \in [status : {"none", "processing", "failed", "completed", "dead_letter"},
                     attempts : 0..MaxAttempts, ripe : BOOLEAN]
        /\ faults \in 0..MaxFaults
    OBVIOUS
  <2>4. /\ events \in [Sources -> EventRecord] /\ pc \in [Actors -> Phases]
        /\ mode \in [Actors -> Sources] /\ released \in [Actors -> BOOLEAN]
    BY <2>1
  <2> QED
    BY <2>2, <2>3, <2>4 DEF TypeOK
<1>2. PendingIsUnrecorded /\ DeliveryIsRecorded /\ MailIsRecorded /\ SweepIsBacked
  BY DEF PendingIsUnrecorded, DeliveryIsRecorded, MailIsRecorded, SweepIsBacked, Delivering, Actors
<1>3. OneResolution /\ OutcomeIsRecorded /\ SweptIsOver
  BY DEF OneResolution, OutcomeIsRecorded, SweptIsOver
<1> QED
  BY <1>1, <1>2, <1>3 DEF IInv

-----------------------------------------------------------------------------
(* Every step keeps the types. *)

\* An execution that moves on is at a known step.
LEMMA GotoTypes ==
  ASSUME TypeOK, NEW a \in Actors, NEW phase \in Phases, Goto(a, phase)
  PROVE  pc' \in [Actors -> Phases]
BY DEF TypeOK, Goto

\* Writing an event keeps the type of the events.
LEMMA SetTypes ==
  ASSUME TypeOK, NEW source \in Sources, NEW status \in EventStatus,
         NEW owner \in Actors \cup {"none"}, Set(source, status, owner)
  PROVE  events' \in [Sources -> EventRecord]
<1>1. [status |-> status, owner |-> owner, expired |-> FALSE] \in EventRecord
  BY DEF EventRecord
<1> QED
  BY <1>1 DEF TypeOK, Set

\* Sending a message keeps the type of the mailbox.
LEMMA SentTypes ==
  ASSUME TypeOK, NEW message \in {"decision", "core_hold_expired", "reservation_released"},
         Sent(message)
  PROVE  mailbox' \in Seq({"decision", "core_hold_expired", "reservation_released"})
BY DEF TypeOK, Sent

\* Every step keeps the types.
LEMMA TypeStep == TypeOK /\ [Next]_vars => TypeOK'
<1> SUFFICES ASSUME TypeOK, [Next]_vars PROVE TypeOK'
  OBVIOUS
<1>0. \A a \in Actors : mode[a] \in Sources /\ a \in Actors \cup {"none"}
  BY DEF TypeOK
<1>p. /\ {"idle", "submit", "claim", "send", "abandon", "mark", "release", "record", "settle",
          "complete", "refundFailed", "completionFailed"} \subseteq Phases
      /\ \A a \in Actors : /\ Dispatched(a) \in Phases /\ Undelivered(a) \in Phases
                           /\ AfterStart(a) \in Phases /\ Caught(a) \in Phases
  BY DEF Phases, Dispatched, Undelivered, AfterStart, Caught
<1>s. {"none", "pending", "sending", "sent"} \subseteq EventStatus
  BY DEF EventStatus
<1>1. ASSUME NEW m \in Merchants, readTarget(m) PROVE TypeOK'
  <2>1. m \in Actors
    BY DEF Actors
  <2>2. mode' \in [Actors -> Sources] /\ released' \in [Actors -> BOOLEAN]
    BY <1>1, <2>1 DEF readTarget, TypeOK, Sources, reservationReleased
  <2>3. pc' \in [Actors -> Phases]
    BY <1>1, <1>p, <2>1, GotoTypes DEF readTarget
  <2> QED
    BY <1>1, <2>2, <2>3 DEF readTarget, TypeOK
<1>2. ASSUME NEW a \in Actors, submit(a) PROVE TypeOK'
  <2>1. pc' \in [Actors -> Phases]
    BY <1>2, <1>p, GotoTypes DEF submit
  <2>2. events' \in [Sources -> EventRecord]
    BY <1>2, <1>0, <1>s, SetTypes DEF submit, TypeOK
  <2> QED
    BY <1>2, <2>1, <2>2 DEF submit, TypeOK
<1>3. ASSUME NEW a \in Actors, claimDecisionResume(a) PROVE TypeOK'
  <2>1. pc' \in [Actors -> Phases]
    BY <1>3, <1>p, GotoTypes DEF claimDecisionResume
  <2>2. events' \in [Sources -> EventRecord]
    BY <1>3, <1>0, <1>s, SetTypes DEF claimDecisionResume, TypeOK
  <2> QED
    BY <1>3, <2>1, <2>2 DEF claimDecisionResume, TypeOK
<1>4. ASSUME NEW a \in Actors, resume(a) PROVE TypeOK'
  <2>1. pc' \in [Actors -> Phases]
    BY <1>4, <1>p, GotoTypes DEF resume
  <2>2. mailbox' \in Seq({"decision", "core_hold_expired", "reservation_released"})
    <3>1. CASE mode[a] = "late_answer"
      BY <1>4, <3>1 DEF resume, TypeOK
    <3>2. CASE mode[a] # "late_answer"
      BY <1>0, <1>4, <3>2, SentTypes DEF resume, Sources
    <3> QED
      BY <3>1, <3>2
  <2>3. successor' \in BOOLEAN
    BY <1>4 DEF resume, TypeOK
  <2> QED
    BY <1>4, <2>1, <2>2, <2>3 DEF resume, TypeOK
<1>5. ASSUME NEW a \in Actors, abandonReleasedReservation(a) PROVE TypeOK'
  <2>1. pc' \in [Actors -> Phases]
    BY <1>5, <1>p, GotoTypes DEF abandonReleasedReservation
  <2>2. mailbox' \in Seq({"decision", "core_hold_expired", "reservation_released"})
    BY <1>5, SentTypes DEF abandonReleasedReservation
  <2> QED
    BY <1>5, <2>1, <2>2 DEF abandonReleasedReservation, TypeOK
<1>6. ASSUME NEW a \in Actors, markDecisionResumed(a) PROVE TypeOK'
  <2>1. pc' \in [Actors -> Phases]
    BY <1>6, <1>p, GotoTypes DEF markDecisionResumed
  <2>2. events' \in [Sources -> EventRecord]
    BY <1>6, <1>0, <1>s, SetTypes DEF markDecisionResumed, TypeOK
  <2> QED
    BY <1>6, <2>1, <2>2 DEF markDecisionResumed, TypeOK
<1>7. ASSUME NEW a \in Actors, releaseDecisionResume(a) PROVE TypeOK'
  <2>1. pc' \in [Actors -> Phases]
    BY <1>7, <1>p, GotoTypes DEF releaseDecisionResume
  <2>2. events' \in [Sources -> EventRecord]
    BY <1>7, <1>0, <1>s, SetTypes DEF releaseDecisionResume, TypeOK
  <2> QED
    BY <1>7, <2>1, <2>2 DEF releaseDecisionResume, TypeOK
<1>8. ASSUME NEW a \in Actors, transactionFails(a) PROVE TypeOK'
  <2>1. pc' \in [Actors -> Phases]
    BY <1>8, <1>p, GotoTypes DEF transactionFails
  <2> QED
    BY <1>8, <2>1, HeldAssumption DEF transactionFails, TypeOK
<1>9. ASSUME NEW a \in Actors, crash(a) PROVE TypeOK'
  <2>1. pc' \in [Actors -> Phases]
    BY <1>9, <1>p, GotoTypes DEF crash
  <2> QED
    BY <1>9, <2>1, HeldAssumption DEF crash, TypeOK
<1>10. ASSUME NEW r \in Reconcilers, NEW source \in Sources, claimPending(r, source) PROVE TypeOK'
  <2>1. r \in Actors
    BY DEF Actors
  <2>2. mode' \in [Actors -> Sources] /\ released' \in [Actors -> BOOLEAN]
    BY <1>10, <2>1 DEF claimPending, TypeOK, reservationReleased
  <2>3. pc' \in [Actors -> Phases]
    BY <1>10, <1>p, <2>1, GotoTypes DEF claimPending
  <2>4. events' \in [Sources -> EventRecord]
    BY <1>10, <1>s, <2>1, SetTypes DEF claimPending
  <2> QED
    BY <1>10, <2>2, <2>3, <2>4 DEF claimPending, TypeOK
<1>11. ASSUME NEW s \in Sweepers, claimBatch(s) PROVE TypeOK'
  <2>1. s \in Actors
    BY DEF Actors
  <2>2. mode' \in [Actors -> Sources]
    BY <1>11, <2>1 DEF claimBatch, TypeOK, Sources
  <2>3. pc' \in [Actors -> Phases]
    BY <1>11, <1>p, <2>1, GotoTypes DEF claimBatch
  <2>4. NextAttempt \in 0..MaxAttempts
    BY HeldAssumption DEF NextAttempt, TypeOK
  <2> QED
    BY <1>11, <2>2, <2>3, <2>4 DEF claimBatch, TypeOK
<1>12. ASSUME NEW s \in Sweepers, Sweep(s) PROVE TypeOK'
  <2>1. s \in Actors
    BY DEF Actors
  <2>2. pc' \in [Actors -> Phases]
    BY <1>12, <1>p, <2>1, GotoTypes DEF Sweep, recordCarrierTerminal, settleReadyWork, markCompleted,
       markFailed
  <2>3. CASE recordCarrierTerminal(s)
    BY <2>2, <2>3 DEF recordCarrierTerminal, TypeOK
  <2>4. CASE settleReadyWork(s)
    BY <2>2, <2>4 DEF settleReadyWork, TypeOK
  <2>5. CASE markCompleted(s)
    BY <2>2, <2>5 DEF markCompleted, TypeOK
  <2>6. CASE markFailed(s)
    BY <2>2, <2>6 DEF markFailed, TypeOK
  <2> QED
    BY <1>12, <2>3, <2>4, <2>5, <2>6 DEF Sweep
<1>13. CASE Workflow
  <2>1. CASE recv
    BY <2>1 DEF recv, WokenBy, TypeOK
  <2>2. CASE submitCoreHoldExpired
    <3>1. events' \in [Sources -> EventRecord]
      BY <2>2, <1>s, SetTypes DEF submitCoreHoldExpired, TypeOK, Sources
    <3> QED
      BY <2>2, <3>1 DEF submitCoreHoldExpired, TypeOK
  <2>3. CASE settleWorkflow
    BY <2>3 DEF settleWorkflow, TypeOK
  <2> QED
    BY <1>13, <2>1, <2>2, <2>3 DEF Workflow
<1>14. CASE settleQueuedWork
  BY <1>14 DEF settleQueuedWork, TypeOK
<1>15. ASSUME NEW source \in Sources, leaseExpires(source) PROVE TypeOK'
  <2>1. events' \in [Sources -> EventRecord]
    BY <1>15 DEF leaseExpires, TypeOK, EventRecord
  <2>2. faults' \in 0..MaxFaults
    BY <1>15, HeldAssumption DEF leaseExpires, TypeOK, Overtakes, Count
  <2> QED
    BY <1>15, <2>1, <2>2 DEF leaseExpires, TypeOK
<1>16. CASE sweepRipens
  <2>1. faults' \in 0..MaxFaults
    BY <1>16, HeldAssumption DEF sweepRipens, TypeOK, Overtakes, Count
  <2>2. sweep' \in [status : {"none", "processing", "failed", "completed", "dead_letter"},
                   attempts : 0..MaxAttempts, ripe : BOOLEAN]
    BY <1>16 DEF sweepRipens, TypeOK
  <2> QED
    BY <1>16, <2>1, <2>2 DEF sweepRipens, TypeOK
<1>17. CASE UNCHANGED vars
  BY <1>17 DEF vars, TypeOK
<1> QED
  BY <1>1, <1>2, <1>3, <1>4, <1>5, <1>6, <1>7, <1>8, <1>9, <1>10, <1>11, <1>12, <1>13, <1>14, <1>15,
     <1>16, <1>17 DEF Next, Dispatch

-----------------------------------------------------------------------------
(* What never goes back. *)

\* Writing an event records it, forgets none, and leaves the others alone.
LEMMA SetRecords ==
  ASSUME TypeOK, NEW source \in Sources, NEW status \in {"pending", "sending", "sent"}, NEW owner,
         Set(source, status, owner)
  PROVE  /\ \A other \in Sources : events[other].status # "none" => events'[other].status # "none"
         /\ \A other \in Sources \ {source} : events'[other].status = events[other].status
         /\ events'[source].status # "none"
BY DEF TypeOK, Set

\* Recorded events stay recorded, a resolved question stays resolved, and a reservation
\* that was settled is not reserved again.
LEMMA NothingGoesBack ==
  ASSUME TypeOK, [Next]_vars
  PROVE  /\ \A source \in Sources : events[source].status # "none" => events'[source].status # "none"
         /\ question = "resolved" => question' = "resolved"
         /\ usage # "reserved" => usage' # "reserved"
<1> DEFINE Kept == /\ \A source \in Sources : events[source].status # "none" => events'[source].status # "none"
                   /\ question = "resolved" => question' = "resolved"
                   /\ usage # "reserved" => usage' # "reserved"
<1> SUFFICES Kept
  OBVIOUS
<1> USE DEF Recorded
<1>0. \A a \in Actors : mode[a] \in Sources
  BY DEF TypeOK
<1>1. ASSUME NEW m \in Merchants, readTarget(m) PROVE Kept
  BY <1>1 DEF readTarget
<1>2. ASSUME NEW a \in Actors, submit(a) PROVE Kept
  BY <1>0, <1>2, SetRecords DEF submit
<1>3. ASSUME NEW a \in Actors, claimDecisionResume(a) PROVE Kept
  BY <1>0, <1>3, SetRecords DEF claimDecisionResume
<1>4. ASSUME NEW a \in Actors, resume(a) PROVE Kept
  BY <1>4 DEF resume
<1>5. ASSUME NEW a \in Actors, abandonReleasedReservation(a) PROVE Kept
  BY <1>5 DEF abandonReleasedReservation
<1>6. ASSUME NEW a \in Actors, markDecisionResumed(a) PROVE Kept
  BY <1>0, <1>6, SetRecords DEF markDecisionResumed
<1>7. ASSUME NEW a \in Actors, releaseDecisionResume(a) PROVE Kept
  BY <1>0, <1>7, SetRecords DEF releaseDecisionResume
<1>8. ASSUME NEW a \in Actors, transactionFails(a) \/ crash(a) PROVE Kept
  BY <1>8 DEF transactionFails, crash
<1>9. ASSUME NEW r \in Reconcilers, NEW source \in Sources, claimPending(r, source) PROVE Kept
  BY <1>9, SetRecords DEF claimPending
<1>10. ASSUME NEW s \in Sweepers, claimBatch(s) \/ Sweep(s) PROVE Kept
  BY <1>10 DEF claimBatch, Sweep, recordCarrierTerminal, settleReadyWork, markCompleted,
     markFailed
<1>11. CASE recv \/ settleWorkflow \/ settleQueuedWork \/ sweepRipens
  BY <1>11 DEF recv, settleWorkflow, settleQueuedWork, sweepRipens
<1>12. CASE submitCoreHoldExpired
  BY <1>12, SetRecords DEF submitCoreHoldExpired, Sources
<1>13. ASSUME NEW source \in Sources, leaseExpires(source) PROVE Kept
  BY <1>13 DEF leaseExpires, Recorded, TypeOK
<1>14. CASE UNCHANGED vars
  BY <1>14 DEF vars
<1> QED
  BY <1>1, <1>2, <1>3, <1>4, <1>5, <1>6, <1>7, <1>8, <1>9, <1>10, <1>11, <1>12, <1>13, <1>14
     DEF Next, Dispatch, Workflow

-----------------------------------------------------------------------------
(* How events come to be. *)

\* A step records at most one event that was not there, and only for a pending question
\* unless it is a late answer; the question is resolved then.
LEMMA NewEvent ==
  ASSUME TypeOK, DeliveryIsRecorded, [Next]_vars
  PROVE  \E new \in Sources :
           /\ \A other \in Sources \ {new} :
                events'[other].status # "none" => events[other].status # "none"
           /\ events'[new].status # "none" /\ events[new].status = "none" =>
                question' = "resolved" /\ (question = "pending" \/ new = "late_answer")
<1> DEFINE Fresh(new) ==
             /\ \A other \in Sources \ {new} :
                  events'[other].status # "none" => events[other].status # "none"
             /\ events'[new].status # "none" /\ events[new].status = "none" =>
                  question' = "resolved" /\ (question = "pending" \/ new = "late_answer")
<1> SUFFICES \E new \in Sources : Fresh(new)
  OBVIOUS
<1>0. \A a \in Actors : mode[a] \in Sources
  BY DEF TypeOK
<1>u. ASSUME UNCHANGED events PROVE \E new \in Sources : Fresh(new)
  BY <1>u DEF Sources
<1>1. ASSUME NEW m \in Merchants, readTarget(m) PROVE \E new \in Sources : Fresh(new)
  BY <1>1, <1>u DEF readTarget
<1>2. ASSUME NEW a \in Actors, submit(a) PROVE \E new \in Sources : Fresh(new)
  <2>1. Fresh(mode[a])
    BY <1>0, <1>2, SetRecords DEF submit, Accepts, TypeOK
  <2> QED
    BY <1>0, <2>1
<1>3. ASSUME NEW a \in Actors,
             claimDecisionResume(a) \/ markDecisionResumed(a) \/ releaseDecisionResume(a)
      PROVE  \E new \in Sources : Fresh(new)
  <2>1. events[mode[a]].status # "none"
    BY <1>3 DEF DeliveryIsRecorded, Delivering, Recorded, claimDecisionResume, markDecisionResumed,
       releaseDecisionResume
  <2>2. Fresh(mode[a])
    BY <1>0, <1>3, <2>1, SetRecords DEF claimDecisionResume, markDecisionResumed, releaseDecisionResume
  <2> QED
    BY <1>0, <2>2
<1>4. ASSUME NEW a \in Actors, resume(a) \/ abandonReleasedReservation(a) PROVE \E new \in Sources : Fresh(new)
  BY <1>4, <1>u DEF resume, abandonReleasedReservation
<1>5. ASSUME NEW a \in Actors, transactionFails(a) \/ crash(a) PROVE \E new \in Sources : Fresh(new)
  BY <1>5, <1>u DEF transactionFails, crash
<1>6. ASSUME NEW r \in Reconcilers, NEW source \in Sources, claimPending(r, source)
      PROVE  \E new \in Sources : Fresh(new)
  <2>1. Fresh(source)
    BY <1>6, SetRecords DEF claimPending, Claimable
  <2> QED
    BY <2>1
<1>7. ASSUME NEW s \in Sweepers, claimBatch(s) \/ Sweep(s) PROVE \E new \in Sources : Fresh(new)
  BY <1>7, <1>u DEF claimBatch, Sweep, recordCarrierTerminal, settleReadyWork, markCompleted, markFailed
<1>8. CASE recv \/ settleWorkflow \/ settleQueuedWork \/ sweepRipens
  BY <1>8, <1>u DEF recv, settleWorkflow, settleQueuedWork, sweepRipens
<1>9. CASE submitCoreHoldExpired
  <2>1. Fresh("core_hold_expired")
    BY <1>9, SetRecords DEF submitCoreHoldExpired, Sources, TypeOK, Claimable
  <2> QED
    BY <2>1 DEF Sources
<1>10. ASSUME NEW source \in Sources, leaseExpires(source) PROVE \E new \in Sources : Fresh(new)
  <2>1. Fresh(source)
    BY <1>10 DEF leaseExpires, TypeOK
  <2> QED
    BY <2>1
<1>11. CASE UNCHANGED vars
  BY <1>11, <1>u DEF vars
<1> QED
  BY <1>1, <1>2, <1>3, <1>4, <1>5, <1>6, <1>7, <1>8, <1>9, <1>10, <1>11 DEF Next, Dispatch, Workflow

\* Every step keeps a pending question without events, and one resolution at most.
LEMMA ResolutionStep ==
  ASSUME IInv, [Next]_vars
  PROVE  PendingIsUnrecorded' /\ OneResolution'
<1>1. PICK new \in Sources :
        /\ \A other \in Sources \ {new} :
             events'[other].status # "none" => events[other].status # "none"
        /\ events'[new].status # "none" /\ events[new].status = "none" =>
             question' = "resolved" /\ (question = "pending" \/ new = "late_answer")
  BY NewEvent DEF IInv
<1>2. question' = "pending" => question = "pending"
  BY NothingGoesBack DEF IInv, TypeOK
<1>3. PendingIsUnrecorded'
  BY <1>1, <1>2 DEF IInv, PendingIsUnrecorded, Recorded
<1>4. OneResolution'
  BY <1>1 DEF IInv, OneResolution, PendingIsUnrecorded, Recorded, Sources
<1> QED
  BY <1>3, <1>4

-----------------------------------------------------------------------------
(* Nothing is sent, received or completed before its event is recorded. *)

\* Phases change for one execution at a time.
LEMMA GotoOne ==
  ASSUME TypeOK, NEW a \in Actors, NEW phase, Goto(a, phase)
  PROVE  pc'[a] = phase /\ \A b \in Actors \ {a} : pc'[b] = pc[b]
BY DEF TypeOK, Goto

\* A step that moves one execution keeps DeliveryIsRecorded if the execution itself
\* does.
LEMMA DeliveryOfOne ==
  ASSUME TypeOK, DeliveryIsRecorded, [Next]_vars, NEW a \in Actors,
         \A b \in Actors \ {a} : pc'[b] = pc[b] /\ mode'[b] = mode[b],
         pc'[a] \in Delivering => events'[mode'[a]].status # "none",
         pc'[a] = "abandon" => mode'[a] = "late_answer"
  PROVE  DeliveryIsRecorded'
<1>1. \A b \in Actors : mode[b] \in Sources
  BY DEF TypeOK
<1> QED
  BY <1>1, NothingGoesBack DEF DeliveryIsRecorded, Recorded

\* Every step keeps it that only recorded events are delivered.
LEMMA DeliveryStep ==
  ASSUME IInv, [Next]_vars
  PROVE  DeliveryIsRecorded'
<1> USE DEF IInv
<1>0. \A a \in Actors : mode[a] \in Sources
  BY DEF TypeOK
<1>u. ASSUME UNCHANGED <<pc, mode>> PROVE DeliveryIsRecorded'
  BY <1>0, <1>u, NothingGoesBack DEF DeliveryIsRecorded, Recorded
<1>m. ASSUME NEW a \in Actors, NEW phase, Goto(a, phase), UNCHANGED mode,
             phase \in Delivering => events'[mode[a]].status # "none",
             phase = "abandon" => mode[a] = "late_answer"
      PROVE  DeliveryIsRecorded'
  BY <1>m, GotoOne, DeliveryOfOne
<1>k. \A a \in Actors : pc[a] \in Delivering => events'[mode[a]].status # "none"
  BY <1>0, NothingGoesBack DEF DeliveryIsRecorded, Recorded
<1>d. \A a \in Actors : Dispatched(a) \notin Delivering /\ Undelivered(a) \notin Delivering
  BY DEF Dispatched, Undelivered, Delivering
<1>a. "abandon" \in Delivering /\ "claim" # "abandon"
  BY DEF Delivering
<1>1. ASSUME NEW m \in Merchants, readTarget(m) PROVE DeliveryIsRecorded'
  <2>1. m \in Actors
    BY DEF Actors
  <2>2. pc'[m] = "submit" /\ \A b \in Actors \ {m} : pc'[b] = pc[b] /\ mode'[b] = mode[b]
    BY <1>1, <2>1, GotoOne DEF readTarget, TypeOK
  <2> QED
    BY <2>1, <2>2, DeliveryOfOne DEF Delivering
<1>2. ASSUME NEW a \in Actors, submit(a) PROVE DeliveryIsRecorded'
  <2>1. CASE events[mode[a]].status # "none"
    BY <1>0, <1>2, <1>m, <1>d, <1>a, <2>1, NothingGoesBack DEF submit, Recorded
  <2>2. CASE events[mode[a]].status = "none" /\ Accepts(mode[a])
    BY <1>0, <1>2, <1>m, <2>2, SetRecords DEF submit, Recorded
  <2>3. CASE events[mode[a]].status = "none" /\ ~Accepts(mode[a])
    BY <1>2, <1>m, <1>d, <1>a, <2>3 DEF submit, Recorded
  <2> QED
    BY <2>1, <2>2, <2>3
<1>3. ASSUME NEW a \in Actors, claimDecisionResume(a) PROVE DeliveryIsRecorded'
  BY <1>3, <1>m, <1>d, <1>a, <1>k DEF claimDecisionResume, Delivering
<1>4. ASSUME NEW a \in Actors, resume(a) PROVE DeliveryIsRecorded'
  BY <1>4, <1>m, <1>k DEF resume, AfterStart, Delivering
<1>5. ASSUME NEW a \in Actors, abandonReleasedReservation(a) PROVE DeliveryIsRecorded'
  BY <1>5, <1>m, <1>k DEF abandonReleasedReservation, Delivering
<1>6. ASSUME NEW a \in Actors, markDecisionResumed(a) PROVE DeliveryIsRecorded'
  BY <1>6, <1>m, <1>d, <1>a, <1>k DEF markDecisionResumed, Delivering
<1>7. ASSUME NEW a \in Actors, releaseDecisionResume(a) PROVE DeliveryIsRecorded'
  BY <1>7, <1>m, <1>d, <1>a DEF releaseDecisionResume
<1>8. ASSUME NEW a \in Actors, transactionFails(a) PROVE DeliveryIsRecorded'
  <2>1. Caught(a) \in Delivering => Caught(a) = "release" /\ pc[a] \in Delivering
    BY DEF Caught, Undelivered, Delivering
  <2> QED
    BY <1>8, <1>m, <1>a, <1>k, <2>1 DEF transactionFails
<1>9. ASSUME NEW a \in Actors, crash(a) PROVE DeliveryIsRecorded'
  BY <1>9, <1>m DEF crash, Delivering
<1>10. ASSUME NEW r \in Reconcilers, NEW source \in Sources, claimPending(r, source)
       PROVE  DeliveryIsRecorded'
  <2>1. r \in Actors
    BY DEF Actors
  <2>2. pc'[r] = "send" /\ mode'[r] = source
        /\ \A b \in Actors \ {r} : pc'[b] = pc[b] /\ mode'[b] = mode[b]
    BY <1>10, <2>1, GotoOne DEF claimPending, TypeOK
  <2>3. events'[source].status # "none"
    BY <1>10, SetRecords DEF claimPending
  <2> QED
    BY <2>1, <2>2, <2>3, DeliveryOfOne
<1>11. ASSUME NEW s \in Sweepers, claimBatch(s) PROVE DeliveryIsRecorded'
  <2>1. s \in Actors
    BY DEF Actors
  <2>2. pc'[s] = "record" /\ \A b \in Actors \ {s} : pc'[b] = pc[b] /\ mode'[b] = mode[b]
    BY <1>11, <2>1, GotoOne DEF claimBatch, TypeOK
  <2> QED
    BY <2>1, <2>2, DeliveryOfOne DEF Delivering
<1>12. ASSUME NEW s \in Sweepers, Sweep(s) PROVE DeliveryIsRecorded'
  <2>1. s \in Actors
    BY DEF Actors
  <2> QED
    BY <1>12, <1>m, <2>1 DEF Sweep, recordCarrierTerminal, settleReadyWork, markCompleted, markFailed,
       Delivering
<1>13. CASE Workflow \/ settleQueuedWork \/ sweepRipens \/ UNCHANGED vars
  BY <1>13, <1>u DEF Workflow, recv, submitCoreHoldExpired, settleWorkflow, settleQueuedWork,
     sweepRipens, vars
<1>14. ASSUME NEW source \in Sources, leaseExpires(source) PROVE DeliveryIsRecorded'
  BY <1>14, <1>u DEF leaseExpires
<1> QED
  BY <1>1, <1>2, <1>3, <1>4, <1>5, <1>6, <1>7, <1>8, <1>9, <1>10, <1>11, <1>12, <1>13, <1>14
     DEF Next, Dispatch

\* Sending a message whose event is recorded keeps the mailbox recorded.
LEMMA SentIsRecorded ==
  ASSUME IInv, [Next]_vars, NEW message, Sent(message),
         SourceOf(message) \in Sources, events[SourceOf(message)].status # "none"
  PROVE  MailIsRecorded'
<1>1. \A i \in 1..Len(mailbox) : SourceOf(mailbox[i]) \in Sources
  BY DEF IInv, TypeOK, SourceOf, Sources
<1>2. mailbox' = mailbox \/ mailbox' = Append(mailbox, message)
  BY DEF Sent
<1>3. \A i \in 1..Len(mailbox') :
        \/ i \in 1..Len(mailbox) /\ mailbox'[i] = mailbox[i]
        \/ mailbox'[i] = message
  BY <1>2 DEF IInv, TypeOK
<1>4. \A i \in 1..Len(mailbox') : events[SourceOf(mailbox'[i])].status # "none"
                                  /\ SourceOf(mailbox'[i]) \in Sources
  BY <1>1, <1>3 DEF IInv, MailIsRecorded, Recorded
<1>5. \A i \in 1..Len(mailbox') : events'[SourceOf(mailbox'[i])].status # "none"
  BY <1>4, NothingGoesBack DEF IInv
<1> QED
  BY <1>5 DEF MailIsRecorded, Recorded, SourceOf

\* Every step keeps it that only recorded events lie in the mailbox.
LEMMA MailStep ==
  ASSUME IInv, [Next]_vars
  PROVE  MailIsRecorded'
<1> USE DEF IInv
<1>u. ASSUME UNCHANGED mailbox PROVE MailIsRecorded'
  <2>1. \A i \in 1..Len(mailbox) : SourceOf(mailbox[i]) \in Sources
    BY DEF TypeOK, SourceOf, Sources
  <2> QED
    BY <1>u, <2>1, NothingGoesBack DEF MailIsRecorded, Recorded, SourceOf
<1>1. ASSUME NEW m \in Merchants, readTarget(m) PROVE MailIsRecorded'
  BY <1>1, <1>u DEF readTarget
<1>2. ASSUME NEW a \in Actors, resume(a) PROVE MailIsRecorded'
  <2>1. events[mode[a]].status # "none" /\ mode[a] \in Sources
    BY <1>2 DEF resume, DeliveryIsRecorded, Delivering, Recorded, TypeOK
  <2>2. CASE mode[a] = "late_answer"
    BY <1>2, <1>u, <2>2 DEF resume
  <2>3. CASE mode[a] # "late_answer"
    <3>1. SourceOf(mode[a]) = mode[a] /\ Sent(mode[a])
      BY <1>2, <2>1, <2>3 DEF resume, SourceOf, Sources
    <3> QED
      BY <2>1, <3>1, SentIsRecorded
  <2> QED
    BY <2>2, <2>3
<1>3. ASSUME NEW a \in Actors, abandonReleasedReservation(a) PROVE MailIsRecorded'
  <2>1. events["late_answer"].status # "none"
    BY <1>3 DEF abandonReleasedReservation, DeliveryIsRecorded, Delivering, Recorded
  <2>2. SourceOf("reservation_released") = "late_answer" /\ "late_answer" \in Sources
    BY DEF SourceOf, Sources
  <2> QED
    BY <1>3, <2>1, <2>2, SentIsRecorded DEF abandonReleasedReservation
<1>4. ASSUME NEW a \in Actors, \/ submit(a) \/ claimDecisionResume(a) \/ markDecisionResumed(a)
                               \/ releaseDecisionResume(a) \/ transactionFails(a) \/ crash(a)
      PROVE  MailIsRecorded'
  BY <1>4, <1>u DEF submit, claimDecisionResume, markDecisionResumed, releaseDecisionResume,
     transactionFails, crash
<1>5. ASSUME NEW r \in Reconcilers, NEW source \in Sources, claimPending(r, source)
      PROVE  MailIsRecorded'
  BY <1>5, <1>u DEF claimPending
<1>6. ASSUME NEW s \in Sweepers, claimBatch(s) \/ Sweep(s) PROVE MailIsRecorded'
  BY <1>6, <1>u DEF claimBatch, Sweep, recordCarrierTerminal, settleReadyWork, markCompleted, markFailed
<1>7. CASE Workflow \/ settleQueuedWork \/ sweepRipens \/ UNCHANGED vars
  BY <1>7, <1>u DEF Workflow, recv, submitCoreHoldExpired, settleWorkflow, settleQueuedWork,
     sweepRipens, vars
<1>8. ASSUME NEW source \in Sources, leaseExpires(source) PROVE MailIsRecorded'
  BY <1>8, <1>u DEF leaseExpires
<1> QED
  BY <1>1, <1>2, <1>3, <1>4, <1>5, <1>6, <1>7, <1>8 DEF Next, Dispatch

\* The workflow is woken by a recorded message or by the expiry it records itself.
LEMMA OutcomeStep ==
  ASSUME IInv, [Next]_vars
  PROVE  OutcomeIsRecorded'
<1> USE DEF IInv
<1>u. ASSUME UNCHANGED workflow PROVE OutcomeIsRecorded'
  BY <1>u, NothingGoesBack DEF OutcomeIsRecorded, Recorded, Sources
<1>1. CASE recv
  <2>1. mailbox[1] \in {"decision", "core_hold_expired", "reservation_released"} /\ 1 \in 1..Len(mailbox)
    BY <1>1 DEF recv, TypeOK
  <2>2. events[SourceOf(mailbox[1])].status # "none"
    BY <2>1 DEF MailIsRecorded, Recorded
  <2>3. workflow' = WokenBy(mailbox[1]) /\ events' = events
    BY <1>1 DEF recv
  <2> QED
    BY <2>1, <2>2, <2>3 DEF WokenBy, SourceOf, OutcomeIsRecorded, Recorded
<1>2. CASE submitCoreHoldExpired
  <2>1. CASE UNCHANGED workflow
    BY <2>1, <1>u
  <2>2. CASE workflow' = "cancelled"
    <3>1. events'["core_hold_expired"].status # "none"
      BY <1>2, <2>2, SetRecords DEF submitCoreHoldExpired, Sources, TypeOK
    <3> QED
      BY <2>2, <3>1 DEF OutcomeIsRecorded, Recorded
  <2> QED
    BY <1>2, <2>1, <2>2 DEF submitCoreHoldExpired
<1>3. ASSUME NEW a \in Actors, Dispatch(a) \/ transactionFails(a) \/ crash(a) PROVE OutcomeIsRecorded'
  BY <1>3, <1>u DEF Dispatch, submit, claimDecisionResume, markDecisionResumed, releaseDecisionResume,
     transactionFails, crash, resume, abandonReleasedReservation
<1>4. ASSUME NEW m \in Merchants, readTarget(m) PROVE OutcomeIsRecorded'
  BY <1>4, <1>u DEF readTarget
<1>5. ASSUME NEW r \in Reconcilers, NEW source \in Sources, claimPending(r, source)
      PROVE  OutcomeIsRecorded'
  BY <1>5, <1>u DEF claimPending
<1>6. ASSUME NEW s \in Sweepers, claimBatch(s) \/ Sweep(s) PROVE OutcomeIsRecorded'
  BY <1>6, <1>u DEF claimBatch, Sweep, recordCarrierTerminal, settleReadyWork, markCompleted, markFailed
<1>7. CASE settleWorkflow \/ settleQueuedWork \/ sweepRipens \/ UNCHANGED vars
  BY <1>7, <1>u DEF settleWorkflow, settleQueuedWork, sweepRipens, vars
<1>8. ASSUME NEW source \in Sources, leaseExpires(source) PROVE OutcomeIsRecorded'
  BY <1>8, <1>u DEF leaseExpires
<1> QED
  BY <1>1, <1>2, <1>3, <1>4, <1>5, <1>6, <1>7, <1>8 DEF Next, Workflow

-----------------------------------------------------------------------------
(* A completed sweep is over. *)

\* Every step keeps what a sweeper knows by the step it has come to.
LEMMA SweepBackedStep ==
  ASSUME IInv, [Next]_vars
  PROVE  SweepIsBacked'
<1> USE DEF IInv
<1> DEFINE Refunding == Delivering \cup {"submit", "complete"}
<1>0. \A s \in Sweepers : s \in Actors
  BY DEF Actors
<1>u. ASSUME \A s \in Sweepers : pc'[s] = pc[s] PROVE SweepIsBacked'
  BY <1>u, NothingGoesBack DEF SweepIsBacked
<1>m. ASSUME NEW a \in Actors, NEW phase, Goto(a, phase),
             a \in Sweepers => /\ phase \in Refunding => usage' # "reserved"
                               /\ phase = "complete" => question' = "resolved"
      PROVE  SweepIsBacked'
  <2>1. pc'[a] = phase /\ \A b \in Actors \ {a} : pc'[b] = pc[b]
    BY <1>m, GotoOne
  <2>2. ASSUME NEW s \in Sweepers
        PROVE  /\ pc'[s] \in Refunding => usage' # "reserved"
               /\ pc'[s] = "complete" => question' = "resolved"
    <3>1. CASE s = a
      BY <1>m, <2>1, <3>1
    <3>2. CASE s # a
      BY <1>0, <2>1, <3>2, NothingGoesBack DEF SweepIsBacked
    <3> QED
      BY <3>1, <3>2
  <2> QED
    BY <2>2 DEF SweepIsBacked
<1>k. \A s \in Sweepers : pc[s] \in Refunding => usage' # "reserved"
  BY NothingGoesBack DEF SweepIsBacked
<1>r. \A s \in Sweepers : pc[s] \in Delivering => question' = "resolved"
  BY <1>0, NothingGoesBack DEF DeliveryIsRecorded, PendingIsUnrecorded, TypeOK
<1>1. ASSUME NEW m \in Merchants, readTarget(m) PROVE SweepIsBacked'
  BY <1>1, <1>0, KindsAreDisjoint, GotoOne, <1>u DEF readTarget, Actors
<1>2. ASSUME NEW a \in Actors, submit(a) PROVE SweepIsBacked'
  <2>1. pc[a] = "submit" /\ \E phase : Goto(a, phase) /\ (phase = "complete" => question' = "resolved")
    <3>1. mode[a] \in Sources
      BY DEF TypeOK
    <3>2. question = "pending" => ~Recorded(mode[a])
      BY <3>1 DEF PendingIsUnrecorded
    <3> QED
      BY <1>2, <3>2 DEF submit, Accepts, TypeOK
  <2> QED
    BY <1>m, <1>k, <2>1
<1>3. ASSUME NEW a \in Actors, \/ claimDecisionResume(a) \/ markDecisionResumed(a) \/ resume(a)
                               \/ abandonReleasedReservation(a) \/ releaseDecisionResume(a)
      PROVE  SweepIsBacked'
  <2>1. pc[a] \in Delivering /\ \E phase : Goto(a, phase)
    BY <1>3 DEF claimDecisionResume, markDecisionResumed, resume, abandonReleasedReservation,
       releaseDecisionResume, Delivering
  <2> QED
    BY <1>m, <1>k, <1>r, <2>1
<1>4. ASSUME NEW a \in Actors, transactionFails(a) PROVE SweepIsBacked'
  <2>1. Caught(a) \in Refunding => Caught(a) = "release" /\ pc[a] \in Delivering
    BY DEF Caught, Undelivered, Delivering
  <2> QED
    BY <1>4, <1>m, <1>k, <2>1 DEF transactionFails
<1>5. ASSUME NEW a \in Actors, crash(a) PROVE SweepIsBacked'
  BY <1>5, <1>m DEF crash, Delivering
<1>6. ASSUME NEW r \in Reconcilers, NEW source \in Sources, claimPending(r, source)
      PROVE  SweepIsBacked'
  BY <1>6, <1>0, KindsAreDisjoint, GotoOne, <1>u DEF claimPending, Actors
<1>7. ASSUME NEW s \in Sweepers, claimBatch(s) \/ Sweep(s) PROVE SweepIsBacked'
  BY <1>0, <1>7, <1>m DEF claimBatch, Sweep, recordCarrierTerminal, settleReadyWork, markCompleted,
     markFailed, Delivering
<1>8. CASE Workflow \/ settleQueuedWork \/ sweepRipens \/ UNCHANGED vars
  BY <1>8, <1>u DEF Workflow, recv, submitCoreHoldExpired, settleWorkflow, settleQueuedWork,
     sweepRipens, vars
<1>9. ASSUME NEW source \in Sources, leaseExpires(source) PROVE SweepIsBacked'
  BY <1>9, <1>u DEF leaseExpires
<1> QED
  BY <1>1, <1>2, <1>3, <1>4, <1>5, <1>6, <1>7, <1>8, <1>9 DEF Next, Dispatch

\* Every step keeps it that a completed sweep is over.
LEMMA SweptStep ==
  ASSUME IInv, [Next]_vars
  PROVE  SweptIsOver'
<1> USE DEF IInv
<1>u. ASSUME sweep'.status = "completed" => sweep.status = "completed" PROVE SweptIsOver'
  BY <1>u, NothingGoesBack DEF SweptIsOver
<1>1. ASSUME NEW s \in Sweepers, markCompleted(s) PROVE SweptIsOver'
  <2>1. usage # "reserved" /\ question = "resolved"
    BY <1>1 DEF markCompleted, SweepIsBacked
  <2> QED
    BY <2>1, NothingGoesBack DEF SweptIsOver
<1>2. ASSUME NEW s \in Sweepers, markFailed(s) PROVE SweptIsOver'
  BY <1>2, <1>u DEF markFailed, TypeOK
<1>3. ASSUME NEW s \in Sweepers, claimBatch(s) \/ recordCarrierTerminal(s) \/ settleReadyWork(s)
      PROVE  SweptIsOver'
  BY <1>3, <1>u DEF claimBatch, recordCarrierTerminal, settleReadyWork
<1>4. ASSUME NEW a \in Actors, Dispatch(a) \/ transactionFails(a) \/ crash(a) PROVE SweptIsOver'
  BY <1>4, <1>u DEF Dispatch, submit, claimDecisionResume, markDecisionResumed, releaseDecisionResume,
     transactionFails, crash, resume, abandonReleasedReservation
<1>5. ASSUME NEW m \in Merchants, readTarget(m) PROVE SweptIsOver'
  BY <1>5, <1>u DEF readTarget
<1>6. ASSUME NEW r \in Reconcilers, NEW source \in Sources, claimPending(r, source) PROVE SweptIsOver'
  BY <1>6, <1>u DEF claimPending
<1>7. CASE Workflow \/ settleQueuedWork \/ UNCHANGED vars
  BY <1>7, <1>u DEF Workflow, recv, submitCoreHoldExpired, settleWorkflow, settleQueuedWork, vars
<1>8. CASE sweepRipens
  <2>1. sweep' = [sweep EXCEPT !.ripe = TRUE]
    BY <1>8 DEF sweepRipens
  <2>2. sweep'.status = sweep.status
    BY <2>1 DEF TypeOK
  <2> QED
    BY <2>2, <1>u
<1>9. ASSUME NEW source \in Sources, leaseExpires(source) PROVE SweptIsOver'
  BY <1>9, <1>u DEF leaseExpires
<1> QED
  BY <1>1, <1>2, <1>3, <1>4, <1>5, <1>6, <1>7, <1>8, <1>9 DEF Next, Sweep

-----------------------------------------------------------------------------
\* Every step keeps the invariant.
LEMMA StepInv == IInv /\ [Next]_vars => IInv'
BY TypeStep, ResolutionStep, DeliveryStep, MailStep, OutcomeStep, SweepBackedStep, SweptStep DEF IInv

\* The inductive invariant holds for ever.
THEOREM HeldInvariant == Spec => []IInv
BY InitInv, StepInv, PTL DEF Spec

\* Types of the store, the mailbox and the executions.
THEOREM TypeCorrect == Spec => []TypeOK
<1>1. IInv => TypeOK
  BY DEF IInv
<1> QED
  BY <1>1, HeldInvariant, PTL

\* The row lock of pending_questions in submit is enough: an answer and an expiry are
\* never both recorded, whoever races.
THEOREM ResolvedOnce == Spec => []OneResolution
<1>1. IInv => OneResolution
  BY DEF IInv
<1> QED
  BY <1>1, HeldInvariant, PTL

\* awaitDecision returns only what decision_events holds, through crashes and takeovers.
THEOREM WakesAsRecorded == Spec => []OutcomeIsRecorded
<1>1. IInv => OutcomeIsRecorded
  BY DEF IInv
<1> QED
  BY <1>1, HeldInvariant, PTL

\* A sweep is marked completed only after the reservation went back and the question was
\* closed, however many sweepers work on the row.
THEOREM CompletedSweepIsOver == Spec => []SweptIsOver
<1>1. IInv => SweptIsOver
  BY DEF IInv
<1> QED
  BY <1>1, HeldInvariant, PTL
-----------------------------------------------------------------------------
(* Before the sweeper takes the hold, an answer is late only because the hold expired. *)

\* Nobody but the workflow has settled anything.
OnlyWorkflowSettles ==
  /\ receipt # "sweep"
  /\ \A s \in Sweepers : pc[s] = "idle"
  /\ usage # "reserved" => workflow # "waiting"

\* A late answer is submitted to a resolved question, and taken only for an expired one.
LateAfterExpiry ==
  /\ \A a \in Actors : pc[a] = "submit" /\ mode[a] = "late_answer" => question = "resolved"
  /\ Recorded("late_answer") => Recorded("core_hold_expired")
  /\ successor => Recorded("late_answer")

Unswept == sweep.status = "none" => OnlyWorkflowSettles /\ LateAfterExpiry

\* A row that was claimed is never unclaimed again.
LEMMA UnclaimedBefore ==
  ASSUME TypeOK, Unswept, [Next]_vars, sweep'.status = "none"
  PROVE  /\ sweep.status = "none" /\ OnlyWorkflowSettles /\ LateAfterExpiry
         /\ \A s \in Sweepers : ~claimBatch(s) /\ ~Sweep(s)
<1>1. \A s \in Sweepers : ~claimBatch(s)
  BY DEF claimBatch
<1>2. \A s \in Sweepers : Sweep(s) => sweep.status = "none"
  BY DEF Sweep, recordCarrierTerminal, settleReadyWork, markCompleted, markFailed, TypeOK
<1>3. sweepRipens => sweep.status = "none"
  BY DEF sweepRipens, TypeOK
<1>4. sweep.status = "none"
  BY <1>1, <1>2, <1>3 DEF Next, Dispatch, Workflow, readTarget, submit, claimDecisionResume, resume,
     abandonReleasedReservation, markDecisionResumed, releaseDecisionResume, transactionFails, crash,
     claimPending, recv, submitCoreHoldExpired, settleWorkflow, settleQueuedWork, leaseExpires, vars
<1>5. OnlyWorkflowSettles /\ LateAfterExpiry
  BY <1>4 DEF Unswept
<1>6. \A s \in Sweepers : ~Sweep(s)
  BY <1>5 DEF OnlyWorkflowSettles, Sweep, recordCarrierTerminal, settleReadyWork, markCompleted,
     markFailed
<1> QED
  BY <1>1, <1>4, <1>5, <1>6

\* Without a sweep nobody but the workflow's own end settles the reservation.
LEMMA OnlyWorkflowSettlesStep ==
  ASSUME TypeOK, Unswept, [Next]_vars, sweep'.status = "none"
  PROVE  OnlyWorkflowSettles'
<1>0. /\ OnlyWorkflowSettles
      /\ \A s \in Sweepers : ~claimBatch(s) /\ ~Sweep(s)
      /\ \A s \in Sweepers : s \in Actors /\ s \notin Merchants /\ s \notin Reconcilers
  BY UnclaimedBefore, KindsAreDisjoint DEF Actors
<1>1. ASSUME NEW m \in Merchants, readTarget(m) PROVE OnlyWorkflowSettles'
  BY <1>0, <1>1, GotoOne DEF readTarget, OnlyWorkflowSettles, Actors
<1>2. ASSUME NEW a \in Actors, Dispatch(a) PROVE OnlyWorkflowSettles'
  <2>1. pc[a] # "idle"
    BY <1>2 DEF Dispatch, submit, claimDecisionResume, resume, abandonReleasedReservation,
       markDecisionResumed, releaseDecisionResume
  <2>2. PICK phase : Goto(a, phase)
    BY <1>2 DEF Dispatch, submit, claimDecisionResume, resume, abandonReleasedReservation,
       markDecisionResumed, releaseDecisionResume
  <2>3. UNCHANGED <<receipt, usage, workflow>>
    BY <1>2 DEF Dispatch, submit, claimDecisionResume, resume, abandonReleasedReservation,
       markDecisionResumed, releaseDecisionResume
  <2> QED
    BY <1>0, <2>1, <2>2, <2>3, GotoOne DEF OnlyWorkflowSettles
<1>3. ASSUME NEW a \in Actors, transactionFails(a) \/ crash(a) PROVE OnlyWorkflowSettles'
  <2>1. pc[a] # "idle" /\ UNCHANGED <<receipt, usage, workflow>>
    BY <1>3 DEF transactionFails, crash
  <2>2. PICK phase : Goto(a, phase)
    BY <1>3 DEF transactionFails, crash
  <2> QED
    BY <1>0, <2>1, <2>2, GotoOne DEF OnlyWorkflowSettles
<1>4. ASSUME NEW r \in Reconcilers, NEW source \in Sources, claimPending(r, source)
      PROVE  OnlyWorkflowSettles'
  BY <1>0, <1>4, GotoOne DEF claimPending, OnlyWorkflowSettles, Actors
<1>5. CASE recv \/ submitCoreHoldExpired
  BY <1>0, <1>5 DEF recv, submitCoreHoldExpired, WokenBy, OnlyWorkflowSettles
<1>6. CASE settleWorkflow \/ settleQueuedWork
  BY <1>0, <1>6 DEF settleWorkflow, settleQueuedWork, OnlyWorkflowSettles
<1>7. CASE sweepRipens \/ UNCHANGED vars
  BY <1>0, <1>7 DEF sweepRipens, vars, OnlyWorkflowSettles
<1>8. ASSUME NEW source \in Sources, leaseExpires(source) PROVE OnlyWorkflowSettles'
  BY <1>0, <1>8 DEF leaseExpires, OnlyWorkflowSettles
<1> QED
  BY <1>0, <1>1, <1>2, <1>3, <1>4, <1>5, <1>6, <1>7, <1>8 DEF Next, Workflow

\* A question that was refunded, or that anybody resolved, is not pending.
LEMMA ReleasedIsResolved ==
  ASSUME IInv, OnlyWorkflowSettles, usage # "reserved"
  PROVE  question = "resolved"
<1>1. workflow # "waiting"
  BY DEF OnlyWorkflowSettles
<1>2. \E source \in Sources : Recorded(source)
  BY <1>1 DEF IInv, TypeOK, OutcomeIsRecorded, Sources
<1> QED
  BY <1>2 DEF IInv, TypeOK, PendingIsUnrecorded

\* A step that records no late answer, starts no successor and lets nobody begin to
\* submit one keeps LateAfterExpiry.
LEMMA LateKept ==
  ASSUME TypeOK, LateAfterExpiry, [Next]_vars,
         events'["late_answer"].status # "none" => events["late_answer"].status # "none",
         successor' => successor \/ events["late_answer"].status # "none",
         \A a \in Actors : pc'[a] = "submit" /\ mode'[a] = "late_answer" =>
           question' = "resolved" \/ (pc[a] = "submit" /\ mode[a] = "late_answer")
  PROVE  LateAfterExpiry'
BY NothingGoesBack DEF LateAfterExpiry, Recorded, Sources

\* Only submit brings a late answer, and it asks for the expiry first.
LEMMA LateAfterExpiryStep ==
  ASSUME IInv, Unswept, [Next]_vars, sweep'.status = "none"
  PROVE  LateAfterExpiry'
<1> USE DEF IInv
<1>0. /\ OnlyWorkflowSettles /\ LateAfterExpiry /\ sweep.status = "none"
      /\ \A s \in Sweepers : ~claimBatch(s) /\ ~Sweep(s)
      /\ \A a \in Actors : mode[a] \in Sources
  BY UnclaimedBefore DEF TypeOK
<1>1. ASSUME NEW m \in Merchants, readTarget(m) PROVE LateAfterExpiry'
  <2>1. m \in Actors /\ UNCHANGED <<events, successor, question>>
    BY <1>1 DEF readTarget, Actors
  <2>2. mode'[m] = "late_answer" => question = "resolved"
    BY <1>0, <1>1, <2>1, ReleasedIsResolved DEF readTarget, reservationReleased, TypeOK
  <2>3. \A a \in Actors \ {m} : pc'[a] = pc[a] /\ mode'[a] = mode[a]
    BY <1>1, <2>1, GotoOne DEF readTarget, TypeOK
  <2> QED
    BY <1>0, <2>1, <2>2, <2>3, LateKept
<1>2. ASSUME NEW a \in Actors, submit(a) PROVE LateAfterExpiry'
  <2>1. PICK phase : Goto(a, phase) /\ phase # "submit"
    BY <1>2 DEF submit, Dispatched
  <2>2. UNCHANGED <<mode, successor>>
    BY <1>2 DEF submit
  <2>3. \A b \in Actors : pc'[b] = "submit" => pc[b] = "submit"
    BY <2>1, GotoOne
  <2>4. CASE mode[a] = "late_answer" /\ ~Recorded("late_answer")
    <3>1. question = "resolved"
      BY <1>0, <1>2, <2>4 DEF submit, LateAfterExpiry
    <3>2. CASE Accepts("late_answer")
      <4>1. events["core_hold_expired"].status # "none"
        BY <1>0, <3>1, <3>2 DEF Accepts, acceptsLateAnswer, Recorded
      <4>2. events'["core_hold_expired"].status # "none"
        BY <4>1, NothingGoesBack DEF Sources
      <4>3. ~successor'
        BY <1>0, <2>2, <2>4 DEF LateAfterExpiry
      <4>4. question' = "resolved"
        BY <3>1, NothingGoesBack
      <4> QED
        BY <4>2, <4>3, <4>4 DEF LateAfterExpiry, Recorded
    <3>3. CASE ~Accepts("late_answer")
      BY <1>0, <1>2, <2>2, <2>3, <2>4, <3>3, LateKept DEF submit
    <3> QED
      BY <3>2, <3>3
  <2>5. CASE ~(mode[a] = "late_answer" /\ ~Recorded("late_answer"))
    <3>1. events'["late_answer"].status # "none" => events["late_answer"].status # "none"
      BY <1>0, <1>2, <2>5, SetRecords DEF submit, Recorded, Sources
    <3> QED
      BY <1>0, <2>2, <2>3, <3>1, LateKept
  <2> QED
    BY <2>4, <2>5
<1>3. ASSUME NEW a \in Actors,
             claimDecisionResume(a) \/ markDecisionResumed(a) \/ releaseDecisionResume(a)
      PROVE  LateAfterExpiry'
  <2>1. PICK phase : Goto(a, phase) /\ phase # "submit"
    BY <1>3 DEF claimDecisionResume, markDecisionResumed, releaseDecisionResume, Dispatched, Undelivered
  <2>2. UNCHANGED <<mode, successor>>
    BY <1>3 DEF claimDecisionResume, markDecisionResumed, releaseDecisionResume
  <2>3. \A b \in Actors : pc'[b] = "submit" => pc[b] = "submit"
    BY <2>1, GotoOne
  <2>4. events[mode[a]].status # "none"
    BY <1>3 DEF DeliveryIsRecorded, Delivering, Recorded, claimDecisionResume, markDecisionResumed,
       releaseDecisionResume
  <2>5. events'["late_answer"].status # "none" => events["late_answer"].status # "none"
    BY <1>0, <1>3, <2>4, SetRecords DEF claimDecisionResume, markDecisionResumed,
       releaseDecisionResume, Sources
  <2> QED
    BY <1>0, <2>2, <2>3, <2>5, LateKept
<1>4. ASSUME NEW a \in Actors, resume(a) \/ abandonReleasedReservation(a) PROVE LateAfterExpiry'
  <2>1. PICK phase : Goto(a, phase) /\ phase # "submit"
    BY <1>4 DEF resume, abandonReleasedReservation, AfterStart
  <2>2. UNCHANGED <<mode, events>>
    BY <1>4 DEF resume, abandonReleasedReservation
  <2>3. \A b \in Actors : pc'[b] = "submit" => pc[b] = "submit"
    BY <2>1, GotoOne
  <2>4. events[mode[a]].status # "none"
    BY <1>4 DEF DeliveryIsRecorded, Delivering, Recorded, resume, abandonReleasedReservation
  <2>5. successor' => successor \/ events["late_answer"].status # "none"
    BY <1>4, <2>4 DEF resume, abandonReleasedReservation
  <2> QED
    BY <1>0, <2>2, <2>3, <2>5, LateKept
<1>5. ASSUME NEW a \in Actors, transactionFails(a) \/ crash(a) PROVE LateAfterExpiry'
  <2>1. PICK phase : Goto(a, phase) /\ phase # "submit"
    BY <1>5 DEF transactionFails, crash, Caught, Undelivered
  <2>2. UNCHANGED <<mode, events, successor>>
    BY <1>5 DEF transactionFails, crash
  <2>3. \A b \in Actors : pc'[b] = "submit" => pc[b] = "submit"
    BY <2>1, GotoOne
  <2> QED
    BY <1>0, <2>2, <2>3, LateKept
<1>6. ASSUME NEW r \in Reconcilers, NEW source \in Sources, claimPending(r, source)
      PROVE  LateAfterExpiry'
  <2>1. r \in Actors /\ Goto(r, "send") /\ UNCHANGED successor
    BY <1>6 DEF claimPending, Actors
  <2>2. \A b \in Actors : pc'[b] = "submit" => pc[b] = "submit" /\ mode'[b] = mode[b]
    BY <1>6, <2>1, GotoOne DEF claimPending, TypeOK
  <2>3. events'["late_answer"].status # "none" => events["late_answer"].status # "none"
    BY <1>6, SetRecords DEF claimPending, Claimable, Sources
  <2> QED
    BY <1>0, <2>1, <2>2, <2>3, LateKept
<1>7. CASE recv \/ settleWorkflow \/ settleQueuedWork \/ sweepRipens \/ UNCHANGED vars
  BY <1>0, <1>7, LateKept DEF recv, settleWorkflow, settleQueuedWork, sweepRipens, vars
<1>8. CASE submitCoreHoldExpired
  <2>1. events'["late_answer"].status # "none" => events["late_answer"].status # "none"
    BY <1>8, SetRecords DEF submitCoreHoldExpired, Sources
  <2> QED
    BY <1>0, <1>8, <2>1, LateKept DEF submitCoreHoldExpired
<1>9. ASSUME NEW source \in Sources, leaseExpires(source) PROVE LateAfterExpiry'
  <2>1. events'["late_answer"].status # "none" => events["late_answer"].status # "none"
    BY <1>9 DEF leaseExpires, TypeOK, Sources
  <2> QED
    BY <1>0, <1>9, <2>1, LateKept DEF leaseExpires
<1> QED
  BY <1>0, <1>1, <1>2, <1>3, <1>4, <1>5, <1>6, <1>7, <1>8, <1>9 DEF Next, Dispatch, Workflow

\* Until the sweeper claims the hold, one answer makes one Work, whatever the timer, the
\* requests, the reconciler and their crashes do: acceptsLateAnswer then lets a successor
\* in only after core_hold_expired, which excludes the answer that resumes the workflow.
THEOREM OneWorkUntilSwept == Spec => [](sweep.status = "none" => OneWork)
<1>1. Init => Unswept
  BY DEF Init, NoEvent, NoSweep, Unswept, OnlyWorkflowSettles, LateAfterExpiry, Recorded, Sources, Actors
<1>2. IInv /\ Unswept /\ [Next]_vars => Unswept'
  <2> SUFFICES ASSUME IInv, Unswept, [Next]_vars, sweep'.status = "none"
               PROVE  OnlyWorkflowSettles' /\ LateAfterExpiry'
    BY DEF Unswept
  <2> QED
    BY OnlyWorkflowSettlesStep, LateAfterExpiryStep DEF IInv
<1>3. IInv /\ Unswept => (sweep.status = "none" => OneWork)
  BY DEF IInv, Unswept, LateAfterExpiry, OneWork, OutcomeIsRecorded, OneResolution
<1> QED
  BY <1>1, <1>2, <1>3, HeldInvariant, PTL DEF Spec

=============================================================================
