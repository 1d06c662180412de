-------------------------- MODULE PaidStartProofs --------------------------
(***************************************************************************)
(* Theorems about PaidStart: for any number of attempts, executions and    *)
(* faults, at most one attempt of a request holds credits, an expired hold *)
(* has no workflow, and the provider is called only for held credits.      *)
(***************************************************************************)
EXTENDS PaidStart, TLAPS

-----------------------------------------------------------------------------
(* The inductive invariant *)

\* What the rows of one attempt say about each other.  A reserved usage of
\* an attempt that can still be confirmed, or is, has its credits; a workflow
\* exists only behind a dispatch, a dispatch only behind a confirmation.
RowOK(row) ==
    /\ row.request = "none" <=> row.credits = "none"
    /\ row.request = "none" =>
          /\ row.usage = "none"
          /\ row.harness = "none"
          /\ row.dispatch = "none"
          /\ row.work = "none"
    /\ row.decision # "none" <=> row.request = "decided"
    /\ row.request = "expired" => row.credits = "returned"
    /\ row.usage = "reserved" /\ row.request # "expired"
          /\ row.decision # "rejected" => row.credits = "held"
    /\ row.dispatch = "dispatched" => row.decision = "confirmed"
    /\ row.workflow # "none" => row.dispatch = "dispatched"

RowsOK == \A a \in Attempts : RowOK(attempts[a])

\* An attempt exists only behind attempts whose credits are back.
ChainOK ==
    \A a, b \in Attempts :
        a < b /\ attempts[b].request # "none" =>
            /\ attempts[a].request # "none"
            /\ attempts[a].credits = "returned"

\* An execution at work was let in by a confirmation, and past the dispatch
\* by the dispatch.
StartersOK ==
    \A s \in Starters :
        /\ starter[s].pc # "idle" =>
              attempts[starter[s].at].decision = "confirmed"
        /\ starter[s].pc \in {"dispatched", "started"} =>
              attempts[starter[s].at].dispatch = "dispatched"

IInv == TypeOK /\ RowsOK /\ ChainOK /\ StartersOK

\* How one row may change without disturbing the others: it stays absent or
\* present, credits that are back stay back, a confirmation and a dispatch
\* are for ever.
Keeps(old, new) ==
    /\ new.request # "none" <=> old.request # "none"
    /\ old.credits = "returned" => new.credits = "returned"
    /\ old.decision = "confirmed" => new.decision = "confirmed"
    /\ old.dispatch = "dispatched" => new.dispatch = "dispatched"

-----------------------------------------------------------------------------
(* The transformations of a row *)

\* An attempt that does not exist is a proper row.
LEMMA AbsentRow == Absent \in Row /\ RowOK(Absent)
  BY DEF Absent, Row, RowOK

\* A prepared attempt is a proper row with a pending request.
LEMMA ReservedRow ==
  /\ Reserved \in Row
  /\ RowOK(Reserved)
  /\ Reserved.request = "pending"
  BY DEF Reserved, Row, RowOK

\* failAndRefund takes a proper row to a proper row that reserves nothing.
LEMMA FailedRow ==
  ASSUME NEW row \in Row, RowOK(row)
  PROVE  /\ failAndRefund(row) \in Row
         /\ RowOK(failAndRefund(row))
         /\ failAndRefund(row).usage # "reserved"
         /\ failAndRefund(row).request = row.request
         /\ failAndRefund(row).dispatch = row.dispatch
         /\ failAndRefund(row).decision = row.decision
         /\ Keeps(row, failAndRefund(row))
  BY DEF failAndRefund, Row, RowOK, Keeps

\* Returning the credits is safe once the usage is closed, or while the row
\* is about to be rejected or to expire.
LEMMA RefundedRow ==
  ASSUME NEW row \in Row, RowOK(row), row.usage # "reserved"
  PROVE  /\ refundUsageOperation(row) \in Row
         /\ RowOK(refundUsageOperation(row))
         /\ refundUsageOperation(row).credits # "held"
         /\ refundUsageOperation(row).usage # "reserved"
         /\ refundUsageOperation(row).request = row.request
         /\ refundUsageOperation(row).dispatch = row.dispatch
         /\ refundUsageOperation(row).decision = row.decision
         /\ Keeps(row, refundUsageOperation(row))
  BY DEF refundUsageOperation, Row, RowOK, Keeps

\* Releasing takes a proper row to a proper row that reserves nothing.
LEMMA ReleasedRow ==
  ASSUME NEW row \in Row, RowOK(row)
  PROVE  /\ Released(row) \in Row
         /\ RowOK(Released(row))
         /\ Released(row).request = row.request
         /\ Released(row).dispatch = row.dispatch
         /\ Released(row).decision = row.decision
         /\ Released(row).usage # "reserved"
         /\ Keeps(row, Released(row))
  <1> DEFINE failed == failAndRefund(row)
  <1>1. /\ failed \in Row
        /\ RowOK(failed)
        /\ failed.usage # "reserved"
        /\ failed.request = row.request
        /\ failed.dispatch = row.dispatch
        /\ failed.decision = row.decision
        /\ Keeps(row, failed)
    BY DEF failAndRefund, Row, RowOK, Keeps
  <1> HIDE DEF failed
  <1>2. /\ refundUsageOperation(failed) \in Row
        /\ RowOK(refundUsageOperation(failed))
        /\ refundUsageOperation(failed).usage # "reserved"
        /\ refundUsageOperation(failed).request = failed.request
        /\ refundUsageOperation(failed).dispatch = failed.dispatch
        /\ refundUsageOperation(failed).decision = failed.decision
        /\ Keeps(failed, refundUsageOperation(failed))
    BY <1>1 DEF refundUsageOperation, Row, RowOK, Keeps
  <1>3. Released(row) = failed \/ Released(row) = refundUsageOperation(failed)
    BY DEF Released, failed
  <1> QED BY <1>1, <1>2, <1>3 DEF Keeps

\* The expiry of a pending request takes a proper row to a proper row.
LEMMA ExpiredRow ==
  ASSUME NEW row \in Row, RowOK(row), row.request = "pending"
  PROVE  /\ HoldExpired(row) \in Row
         /\ RowOK(HoldExpired(row))
         /\ Keeps(row, HoldExpired(row))
  <1>1. row.decision = "none" /\ row.credits \in {"none", "held", "returned"}
    BY DEF RowOK, Row
  <1> QED BY <1>1 DEF HoldExpired, refundUsageOperation, Row, RowOK, Keeps
--------------------------------------------------------

\* What the start writes to a row: whose it is, and how far it got.
LEMMA LeasedRow ==
  ASSUME NEW row \in Row, RowOK(row), row.request # "none",
         NEW state \in {"reserved", "starting", "started", "failed"},
         NEW holder \in Starters \cup {None}, NEW alive \in BOOLEAN
  PROVE  LET new == [row EXCEPT !.harness = state, !.lease = holder, !.live = alive]
         IN  new \in Row /\ RowOK(new) /\ Keeps(row, new)
  <1> DEFINE new == [row EXCEPT !.harness = state, !.lease = holder, !.live = alive]
  <1>1. new \in Row
    BY DEF Row
  <1>2. RowOK(new)
    BY DEF Row, RowOK
  <1>3. Keeps(row, new)
    BY DEF Row, Keeps
  <1> QED BY <1>1, <1>2, <1>3

\* A field that no invariant looks at.
LEMMA LapsedRow ==
  ASSUME NEW row \in Row, RowOK(row)
  PROVE  LET new == [row EXCEPT !.live = FALSE]
         IN  new \in Row /\ RowOK(new) /\ Keeps(row, new)
  <1> DEFINE new == [row EXCEPT !.live = FALSE]
  <1>1. new \in Row
    BY Zenon DEF Row
  <1>2. RowOK(new)
    BY DEF Row, RowOK
  <1>3. Keeps(row, new)
    BY DEF Row, Keeps
  <1> QED BY <1>1, <1>2, <1>3

\* The first call of the provider takes a proper row to a proper row.
LEMMA OutputRow ==
  ASSUME NEW row \in Row, RowOK(row)
  PROVE  LET new == [row EXCEPT !.output = TRUE]
         IN  new \in Row /\ RowOK(new) /\ Keeps(row, new)
  <1> DEFINE new == [row EXCEPT !.output = TRUE]
  <1>1. new \in Row
    BY Zenon DEF Row
  <1>2. RowOK(new)
    BY DEF Row, RowOK
  <1>3. Keeps(row, new)
    BY DEF Row, Keeps
  <1> QED BY <1>1, <1>2, <1>3

\* Settlement takes a proper row to a proper row.
LEMMA SettledRow ==
  ASSUME NEW row \in Row, RowOK(row), row.request # "none"
  PROVE  LET new == [row EXCEPT !.usage = "settled", !.work = "completed"]
         IN  new \in Row /\ RowOK(new) /\ Keeps(row, new)
  <1> DEFINE new == [row EXCEPT !.usage = "settled", !.work = "completed"]
  <1>1. new \in Row
    BY DEF Row
  <1>2. RowOK(new)
    BY DEF Row, RowOK
  <1>3. Keeps(row, new)
    BY DEF Row, Keeps
  <1> QED BY <1>1, <1>2, <1>3

\* The end of a start, either way, takes a proper row to a proper row.
LEMMA DispatchRow ==
  ASSUME NEW row \in Row, RowOK(row), row.request # "none",
         NEW state \in {"started", "failed"}, NEW alive \in BOOLEAN,
         NEW sent \in {"dispatched", "expired"},
         row.dispatch = sent \/ (sent = "expired" /\ row.dispatch = "pending")
  PROVE  LET new == [row EXCEPT !.harness = state, !.lease = None, !.live = alive,
                                !.dispatch = sent]
         IN  new \in Row /\ RowOK(new) /\ Keeps(row, new)
  <1> DEFINE new == [row EXCEPT !.harness = state, !.lease = None, !.live = alive,
                                !.dispatch = sent]
  <1>1. new \in Row
    BY DEF Row
  <1>2. RowOK(new)
    BY DEF Row, RowOK
  <1>3. Keeps(row, new)
    BY DEF Row, Keeps
  <1> QED BY <1>1, <1>2, <1>3

\* A completed start takes a proper row to a proper row.
LEMMA StartedRow ==
  ASSUME NEW row \in Row, RowOK(row), row.request # "none",
         row.dispatch = "dispatched"
  PROVE  LET new == [row EXCEPT !.harness = "started", !.lease = None,
                                !.live = FALSE, !.dispatch = "dispatched"]
         IN  new \in Row /\ RowOK(new) /\ Keeps(row, new)
  <1> DEFINE new == [row EXCEPT !.harness = "started", !.lease = None,
                                !.live = FALSE, !.dispatch = "dispatched"]
  <1>1. new \in Row
    BY Zenon DEF Row
  <1>2. RowOK(new)
    BY DEF Row, RowOK
  <1>3. Keeps(row, new)
    BY DEF Row, Keeps
  <1> QED BY <1>1, <1>2, <1>3

\* The outbox's expiry of a hold takes a proper row to a proper row.
LEMMA OutboxRow ==
  ASSUME NEW row \in Row, RowOK(row), row.dispatch = "pending"
  PROVE  /\ expireLockedConfirmationHold(row) \in Row
         /\ RowOK(expireLockedConfirmationHold(row))
         /\ Keeps(row, expireLockedConfirmationHold(row))
  <1> DEFINE back == Released(row)
  <1>1. /\ back \in Row
        /\ RowOK(back)
        /\ back.dispatch = "pending"
        /\ Keeps(row, back)
        /\ row.request # "none"
        /\ back.request = row.request
    BY ReleasedRow DEF RowOK
  <1> HIDE DEF back
  <1> DEFINE new == [back EXCEPT !.harness = "failed", !.lease = None,
                                 !.live = FALSE, !.dispatch = "expired"]
  <1>2. /\ new \in Row
        /\ RowOK(new)
        /\ Keeps(row, new)
    <2>1. new \in Row /\ RowOK(new) /\ Keeps(back, new)
      BY <1>1, DispatchRow
    <2> HIDE DEF new
    <2> QED BY <1>1, <2>1 DEF Keeps
  <1>3. expireLockedConfirmationHold(row) = new
    BY DEF expireLockedConfirmationHold, back
  <1> QED BY <1>2, <1>3

\* Repricing takes a proper row to a proper row whose credits are back.
LEMMA RepricedRow ==
  ASSUME NEW row \in Row, RowOK(row), row.request # "none"
  PROVE  /\ Repriced(row) \in Row
         /\ RowOK(Repriced(row))
         /\ Keeps(row, Repriced(row))
         /\ Repriced(row).credits = "returned"
  <1> DEFINE back == refundUsageOperation(failAndRefund(row))
  <1>1. /\ failAndRefund(row) \in Row
        /\ RowOK(failAndRefund(row))
        /\ failAndRefund(row).usage # "reserved"
        /\ failAndRefund(row).request # "none"
        /\ Keeps(row, failAndRefund(row))
    BY FailedRow
  <1>2. /\ back \in Row
        /\ RowOK(back)
        /\ back.credits # "held"
        /\ back.request # "none"
        /\ Keeps(row, back)
    BY <1>1, RefundedRow DEF Keeps
  <1> HIDE DEF back
  <1> DEFINE new == [back EXCEPT !.harness = "failed"]
  <1>3. /\ new \in Row
        /\ RowOK(new)
        /\ Keeps(row, new)
        /\ new.credits = "returned"
    BY <1>2 DEF Row, RowOK, Keeps
  <1>4. Repriced(row) = new
    BY DEF Repriced, back
  <1> QED BY <1>3, <1>4

-----------------------------------------------------------------------------
(* One row changes *)

\* A step that changes one attempt to a proper row keeps rows and chain.
LEMMA OneRow ==
  ASSUME IInv, NEW a \in Attempts, NEW row,
         row \in Row, RowOK(row), Keeps(attempts[a], row), Set(a, row)
  PROVE  /\ attempts' \in [Attempts -> Row]
         /\ RowsOK'
         /\ ChainOK'
         /\ \A b \in Attempts : Keeps(attempts[b], attempts'[b])
  <1>1. /\ attempts \in [Attempts -> Row]
        /\ attempts' = [attempts EXCEPT ![a] = row]
    BY DEF IInv, TypeOK, Set
  <1>2. attempts' \in [Attempts -> Row]
    BY <1>1
  <1>3. \A b \in Attempts : attempts'[b] = IF b = a THEN row ELSE attempts[b]
    BY <1>1
  <1>4. RowsOK'
    BY <1>3 DEF IInv, RowsOK
  <1>5. \A b \in Attempts : Keeps(attempts[b], attempts'[b])
    BY <1>3 DEF Keeps
  <1>6. ChainOK'
    BY <1>5 DEF IInv, ChainOK, Keeps
  <1> QED BY <1>2, <1>4, <1>5, <1>6

\* Executions that stand where they stood, or stop, or take a step that the
\* rows allow, stay well founded.
LEMMA SameStarters ==
  ASSUME IInv, UNCHANGED starter, \A b \in Attempts : Keeps(attempts[b], attempts'[b])
  PROVE  StartersOK'
  BY DEF IInv, TypeOK, StartersOK, Keeps

\* An execution that stops keeps what is known of executions.
LEMMA StoppedStarter ==
  ASSUME IInv, NEW s \in Starters, Stop(s),
         \A b \in Attempts : Keeps(attempts[b], attempts'[b])
  PROVE  StartersOK' /\ starter' \in
            [Starters -> [pc : {"idle", "claimed", "dispatched", "started",
                                "failed", "rejected"}, at : Attempts]]
  <1>1. 1 \in Attempts
    BY StartAssumption DEF Attempts
  <1> QED BY <1>1 DEF IInv, TypeOK, StartersOK, Keeps, Stop, Idle

\* An execution that moves on keeps what is known of executions.
LEMMA MovedStarter ==
  ASSUME IInv, NEW s \in Starters, NEW step, Go(s, step), starter[s].pc # "idle",
         step \in {"dispatched", "started", "failed", "rejected"},
         step \in {"dispatched", "started"} =>
            attempts'[starter[s].at].dispatch = "dispatched",
         \A b \in Attempts : Keeps(attempts[b], attempts'[b])
  PROVE  StartersOK' /\ starter' \in
            [Starters -> [pc : {"idle", "claimed", "dispatched", "started",
                                "failed", "rejected"}, at : Attempts]]
  <1>1. \A t \in Starters : starter[t].at \in Attempts
    BY DEF IInv, TypeOK
  <1>2. \A t \in Starters : starter'[t].at = starter[t].at
    BY DEF IInv, TypeOK, Go
  <1>3. \A t \in Starters : starter'[t].pc = IF t = s THEN step ELSE starter[t].pc
    BY DEF IInv, TypeOK, Go
  <1>4. StartersOK'
    BY <1>1, <1>2, <1>3 DEF IInv, StartersOK, Keeps
  <1>5. starter' \in [Starters -> [pc : {"idle", "claimed", "dispatched", "started",
                                "failed", "rejected"}, at : Attempts]]
    BY DEF IInv, TypeOK, Go
  <1> QED BY <1>4, <1>5

\* Attempts that do not change keep what executions rely on.
LEMMA KeepsAll ==
  ASSUME UNCHANGED attempts
  PROVE  \A b \in Attempts : Keeps(attempts[b], attempts'[b])
  BY DEF Keeps

\* The count of faults stays within its bound.
LEMMA Counted ==
  ASSUME IInv, Fault \/ UNCHANGED faults
  PROVE  faults' \in 0..MaxFaults
  BY StartAssumption DEF IInv, TypeOK, Fault

\* The usual step: one row, no execution.
LEMMA RowStep ==
  ASSUME IInv, NEW a \in Attempts, NEW row,
         row \in Row, RowOK(row), Keeps(attempts[a], row), Set(a, row),
         UNCHANGED starter, Fault \/ UNCHANGED faults
  PROVE  IInv'
  <1>1. /\ attempts' \in [Attempts -> Row]
        /\ RowsOK'
        /\ ChainOK'
        /\ \A b \in Attempts : Keeps(attempts[b], attempts'[b])
    BY OneRow
  <1>2. StartersOK'
    BY <1>1, SameStarters
  <1>3. faults' \in 0..MaxFaults
    BY Counted
  <1>4. TypeOK'
    BY <1>1, <1>3 DEF IInv, TypeOK
  <1> QED BY <1>1, <1>2, <1>4 DEF IInv

--------------------------------------------------------

\* A successor's transaction: the old row gives its credits up, the next one
\* begins.
LEMMA SuccessorStep ==
  ASSUME IInv, NEW a \in Attempts, NEW row,
         row \in Row, RowOK(row), Keeps(attempts[a], row),
         row.request # "none", row.credits = "returned",
         a + 1 \in Attempts, ~Exists(a + 1),
         attempts' = [attempts EXCEPT ![a] = row, ![a + 1] = Reserved],
         UNCHANGED starter, Fault \/ UNCHANGED faults
  PROVE  IInv'
  <1>1. attempts \in [Attempts -> Row] /\ a # a + 1
    BY DEF IInv, TypeOK, Attempts
  <1>2. /\ attempts' \in [Attempts -> Row]
        /\ \A b \in Attempts : attempts'[b] = IF b = a + 1 THEN Reserved
                                   ELSE IF b = a THEN row ELSE attempts[b]
    BY <1>1, ReservedRow
  <1>3. RowsOK'
    BY <1>2, ReservedRow DEF IInv, RowsOK
  <1>4. attempts[a + 1].credits = "none" /\ attempts[a + 1].dispatch = "none"
           /\ attempts[a + 1].request = "none" /\ attempts[a + 1].decision = "none"
    BY DEF IInv, RowsOK, RowOK, Exists, TypeOK, Row
  <1>5. \A b \in Attempts : b # a + 1 => Keeps(attempts[b], attempts'[b])
    BY <1>1, <1>2 DEF Keeps
  <1>6. \A b \in Attempts : b > a + 1 => attempts[b].request = "none"
    BY <1>4 DEF IInv, ChainOK, Attempts
  <1>7. attempts[a].request # "none"
    BY DEF Keeps
  <1>8. ChainOK'
    <2> SUFFICES ASSUME NEW b \in Attempts, NEW c \in Attempts, b < c,
                        attempts'[c].request # "none"
                 PROVE  attempts'[b].request # "none" /\ attempts'[b].credits = "returned"
      BY DEF ChainOK
    <2>1. c \in Nat /\ b \in Nat /\ a \in Nat
      BY DEF Attempts
    <2>2. c <= a + 1
      <3> SUFFICES ASSUME c > a + 1 PROVE FALSE
        BY <2>1
      <3> QED BY <1>2, <1>6, <2>1
    <2>3. CASE b = a
      BY <2>3, <1>2, <2>1
    <2>4. CASE b < a
      <3>1. attempts[b].request # "none" /\ attempts[b].credits = "returned"
        BY <2>4, <1>7 DEF IInv, ChainOK
      <3>2. attempts'[b] = attempts[b]
        BY <2>4, <1>2, <2>1
      <3> QED BY <3>1, <3>2
    <2> QED BY <2>1, <2>2, <2>3, <2>4
  <1>9. StartersOK'
    <2>1. \A t \in Starters : starter[t].at \in Attempts
      BY DEF IInv, TypeOK
    <2> QED BY <1>4, <1>5, <2>1 DEF IInv, StartersOK, Keeps
  <1>10. TypeOK'
    BY <1>2, Counted DEF IInv, TypeOK
  <1> QED BY <1>3, <1>8, <1>9, <1>10 DEF IInv

-----------------------------------------------------------------------------
(* The actions *)

\* Every attempt is a proper row.
LEMMA RowFacts ==
  ASSUME IInv, NEW a \in Attempts
  PROVE  attempts[a] \in Row /\ RowOK(attempts[a])
  BY DEF IInv, TypeOK, RowsOK

\* The workflow's next step takes a proper row to a proper row with the same credits.
LEMMA RunRow ==
  ASSUME IInv, NEW a \in Attempts, NEW step,
         step \in {"gate", "admitted", "executing", "settled", "failing", "ended"},
         attempts[a].workflow # "none"
  PROVE  /\ Run(a, step) \in Row
         /\ RowOK(Run(a, step))
         /\ Keeps(attempts[a], Run(a, step))
         /\ Run(a, step).request # "none"
         /\ Run(a, step).usage = attempts[a].usage
         /\ Run(a, step).credits = attempts[a].credits
  BY RowFacts DEF Run, Row, RowOK, Keeps

\* The merchant's decision keeps the invariant, in time or too late.
LEMMA DecideStep ==
  ASSUME IInv, NEW a \in Attempts, NEW d \in {"confirmed", "rejected"}, decide(a, d)
  PROVE  IInv'
  <1>1. attempts[a] \in Row /\ RowOK(attempts[a]) /\ attempts[a].request = "pending"
    BY RowFacts DEF decide
  <1>2. CASE Due(a)
    <2>1. Set(a, HoldExpired(attempts[a]))
      BY <1>2 DEF decide
    <2> QED BY <1>1, <2>1, ExpiredRow, RowStep DEF decide
  <1>3. CASE ~Due(a)
    <2> DEFINE row == [attempts[a] EXCEPT !.request = "decided", !.decision = d]
    <2>1. row \in Row /\ row.decision = d /\ row.request = "decided"
             /\ row.credits = attempts[a].credits /\ row.usage = attempts[a].usage
             /\ row.dispatch = attempts[a].dispatch /\ row.workflow = attempts[a].workflow
             /\ row.harness = attempts[a].harness /\ row.work = attempts[a].work
      BY <1>1 DEF Row
    <2> HIDE DEF row
    <2>2. attempts[a].dispatch # "dispatched" /\ attempts[a].workflow = "none"
             /\ attempts[a].decision = "none" /\ attempts[a].credits # "none"
      BY <1>1 DEF RowOK
    <2>3. CASE d = "rejected"
      <3>1. /\ refundUsageOperation(row) \in Row
            /\ RowOK(refundUsageOperation(row))
            /\ Keeps(attempts[a], refundUsageOperation(row))
        BY <1>1, <2>1, <2>2, <2>3 DEF refundUsageOperation, Row, RowOK, Keeps
      <3>2. Set(a, refundUsageOperation(row))
        BY <1>3, <2>3 DEF decide, row
      <3> QED BY <3>1, <3>2, RowStep DEF decide
    <2>4. CASE d = "confirmed"
      <3>1. RowOK(row) /\ Keeps(attempts[a], row)
        BY <1>1, <2>1, <2>2, <2>4 DEF RowOK, Keeps
      <3>2. Set(a, row)
        BY <1>3, <2>4 DEF decide, row
      <3> QED BY <2>1, <3>1, <3>2, RowStep DEF decide
    <2> QED BY <2>3, <2>4
  <1> QED BY <1>2, <1>3

\* The outbox's expiry of a hold keeps the invariant.
LEMMA OutboxStep ==
  ASSUME IInv, NEW a \in Attempts, attempts[a].dispatch = "pending",
         Set(a, expireLockedConfirmationHold(attempts[a])),
         UNCHANGED <<starter, faults>>
  PROVE  IInv'
  BY RowFacts, OutboxRow, RowStep

\* Claiming a start keeps the invariant.
LEMMA ClaimStep ==
  ASSUME IInv, NEW a \in Attempts, NEW s \in Starters,
         attempts[a].decision = "confirmed", claimHarnessStart(s, a)
  PROVE  IInv'
  <1>1. CASE /\ DispatchExpired(a)
             /\ Set(a, expireLockedConfirmationHold(attempts[a]))
             /\ UNCHANGED starter
    BY <1>1, OutboxStep DEF claimHarnessStart, DispatchExpired
  <1>2. CASE /\ ~DispatchExpired(a)
             /\ Unclaimed(a)
             /\ Set(a, [attempts[a] EXCEPT !.harness = "starting", !.lease = s,
                                           !.live = TRUE])
             /\ starter' = [starter EXCEPT ![s] = [pc |-> "claimed", at |-> a]]
    <2> DEFINE row == [attempts[a] EXCEPT !.harness = "starting", !.lease = s,
                                          !.live = TRUE]
    <2>1. row \in Row /\ RowOK(row) /\ Keeps(attempts[a], row)
      <3>1. attempts[a] \in Row /\ RowOK(attempts[a]) /\ attempts[a].request # "none"
        BY RowFacts DEF RowOK
      <3> QED BY <3>1, LeasedRow
    <2>2. /\ attempts' \in [Attempts -> Row]
          /\ RowsOK'
          /\ ChainOK'
          /\ \A b \in Attempts : Keeps(attempts[b], attempts'[b])
      BY <1>2, <2>1, OneRow
    <2>3. \A t \in Starters : starter'[t] =
             IF t = s THEN [pc |-> "claimed", at |-> a] ELSE starter[t]
      BY <1>2 DEF IInv, TypeOK
    <2>4. StartersOK'
      BY <2>2, <2>3 DEF IInv, TypeOK, StartersOK, Keeps
    <2>5. TypeOK'
      BY <1>2, <2>2 DEF IInv, TypeOK, claimHarnessStart
    <2> QED BY <2>2, <2>4, <2>5 DEF IInv
  <1> QED BY <1>1, <1>2 DEF claimHarnessStart

\* Marking a start as dispatched keeps the invariant.
LEMMA DispatchStep ==
  ASSUME IInv, NEW s \in Starters, markHarnessStartDispatched(s)
  PROVE  IInv'
  <1> DEFINE a == starter[s].at
  <1>1. a \in Attempts /\ attempts[a].decision = "confirmed"
           /\ starter[s].pc = "claimed" /\ UNCHANGED faults
    BY DEF IInv, TypeOK, StartersOK, markHarnessStartDispatched
  <1>2. CASE /\ Set(a, [attempts[a] EXCEPT !.dispatch = "dispatched"])
             /\ Go(s, "dispatched")
    <2> DEFINE row == [attempts[a] EXCEPT !.dispatch = "dispatched"]
    <2>1. row \in Row /\ RowOK(row) /\ Keeps(attempts[a], row)
             /\ row.dispatch = "dispatched"
      BY <1>1, RowFacts DEF Row, RowOK, Keeps
    <2>2. /\ attempts' \in [Attempts -> Row]
          /\ RowsOK'
          /\ ChainOK'
          /\ \A b \in Attempts : Keeps(attempts[b], attempts'[b])
      BY <1>1, <1>2, <2>1, OneRow
    <2>3. attempts'[a].dispatch = "dispatched"
      BY <1>1, <1>2, <2>1 DEF Set, IInv, TypeOK
    <2>4. StartersOK' /\ starter' \in
            [Starters -> [pc : {"idle", "claimed", "dispatched", "started",
                                "failed", "rejected"}, at : Attempts]]
      BY <1>1, <1>2, <2>2, <2>3, MovedStarter
    <2> QED BY <1>1, <2>2, <2>4 DEF IInv, TypeOK
  <1>3. CASE Go(s, "failed") /\ UNCHANGED attempts
    <2>1. StartersOK' /\ starter' \in
            [Starters -> [pc : {"idle", "claimed", "dispatched", "started",
                                "failed", "rejected"}, at : Attempts]]
      BY <1>1, <1>3, KeepsAll, MovedStarter
    <2> QED BY <1>1, <1>3, <2>1 DEF IInv, TypeOK, RowsOK, ChainOK
  <1> QED BY <1>2, <1>3 DEF markHarnessStartDispatched

\* Starting the workflow keeps the invariant.
LEMMA StartStep ==
  ASSUME IInv, NEW s \in Starters, harnessStart(s)
  PROVE  IInv'
  <1> DEFINE a == starter[s].at
             row == [attempts[a] EXCEPT
                       !.workflow = IF @ = "none" THEN "gate" ELSE @]
  <1>1. a \in Attempts /\ attempts[a].dispatch = "dispatched"
           /\ starter[s].pc = "dispatched" /\ UNCHANGED faults
    BY DEF IInv, TypeOK, StartersOK, harnessStart
  <1>2. row \in Row /\ RowOK(row) /\ Keeps(attempts[a], row)
           /\ row.dispatch = "dispatched"
    BY <1>1, RowFacts DEF Row, RowOK, Keeps
  <1>3. Set(a, row) /\ Go(s, "started")
    BY DEF harnessStart
  <1> HIDE DEF row
  <1>4. /\ attempts' \in [Attempts -> Row]
        /\ RowsOK'
        /\ ChainOK'
        /\ \A b \in Attempts : Keeps(attempts[b], attempts'[b])
    BY <1>1, <1>2, <1>3, OneRow
  <1>5. attempts'[a].dispatch = "dispatched"
    BY <1>1, <1>4 DEF Keeps
  <1>6. StartersOK' /\ starter' \in
          [Starters -> [pc : {"idle", "claimed", "dispatched", "started",
                              "failed", "rejected"}, at : Attempts]]
    BY <1>1, <1>3, <1>4, <1>5, MovedStarter
  <1> QED BY <1>1, <1>4, <1>6 DEF IInv, TypeOK

\* An execution ends, whatever it leaves the row of its attempt as.
LEMMA StopStep ==
  ASSUME IInv, NEW s \in Starters, NEW row, Stop(s), starter[s].at \in Attempts,
         row \in Row, RowOK(row), Keeps(attempts[starter[s].at], row),
         Set(starter[s].at, row), Fault \/ UNCHANGED faults
  PROVE  IInv'
  <1>1. /\ attempts' \in [Attempts -> Row]
        /\ RowsOK'
        /\ ChainOK'
        /\ \A b \in Attempts : Keeps(attempts[b], attempts'[b])
    BY OneRow
  <1>2. StartersOK' /\ starter' \in
          [Starters -> [pc : {"idle", "claimed", "dispatched", "started",
                              "failed", "rejected"}, at : Attempts]]
    BY <1>1, StoppedStarter
  <1> QED BY <1>1, <1>2, Counted DEF IInv, TypeOK

\* Completing a start keeps the invariant, with the lease or without it.
LEMMA CompleteStep ==
  ASSUME IInv, NEW s \in Starters, completeHarnessStart(s)
  PROVE  IInv'
  <1> DEFINE a == starter[s].at
             row == IF Holds(s, a)
                    THEN [attempts[a] EXCEPT !.harness = "started", !.lease = None,
                                             !.live = FALSE,
                                             !.dispatch = "dispatched"]
                    ELSE attempts[a]
  <1>1. a \in Attempts /\ attempts[a].dispatch = "dispatched"
    BY DEF IInv, TypeOK, StartersOK, completeHarnessStart
  <1>2. row \in Row /\ RowOK(row) /\ Keeps(attempts[a], row)
    <2>1. attempts[a] \in Row /\ RowOK(attempts[a]) /\ attempts[a].request # "none"
      BY <1>1, RowFacts DEF RowOK
    <2>2. CASE Holds(s, a)
      <3>1. attempts[a].dispatch = "dispatched"
        BY <1>1
      <3> QED BY <2>1, <2>2, <3>1, StartedRow, Zenon
    <2>3. CASE ~Holds(s, a)
      BY <2>1, <2>3 DEF Keeps
    <2> QED BY <2>2, <2>3
  <1>3. Set(a, row) /\ Stop(s) /\ UNCHANGED faults
    BY DEF completeHarnessStart
  <1> HIDE DEF row
  <1> QED BY <1>1, <1>2, <1>3, StopStep

\* Giving a start up keeps the invariant.
LEMMA LetGoStep ==
  ASSUME IInv, NEW s \in Starters, NEW state \in {"reserved", "failed"},
         LetGo(s, state)
  PROVE  IInv'
  <1> DEFINE a == starter[s].at
             row == IF Holds(s, a)
                    THEN [attempts[a] EXCEPT !.harness = state, !.lease = None,
                                             !.live = FALSE]
                    ELSE attempts[a]
  <1>1. a \in Attempts
    BY DEF IInv, TypeOK
  <1>2. row \in Row /\ RowOK(row) /\ Keeps(attempts[a], row)
    <2>1. attempts[a] \in Row /\ RowOK(attempts[a])
      BY <1>1, RowFacts
    <2>2. CASE Holds(s, a)
      <3>1. attempts[a].request # "none"
        BY <2>1, <2>2 DEF RowOK, Holds
      <3> QED BY <2>1, <2>2, <3>1, LeasedRow
    <2>3. CASE ~Holds(s, a)
      BY <2>1, <2>3 DEF Keeps
    <2> QED BY <2>2, <2>3
  <1>3. Set(a, row) /\ Stop(s) /\ UNCHANGED faults
    BY DEF LetGo
  <1> HIDE DEF row
  <1> QED BY <1>1, <1>2, <1>3, StopStep

\* A crash of an execution keeps the invariant.
LEMMA CrashStep ==
  ASSUME IInv, NEW s \in Starters, starterCrashes(s)
  PROVE  IInv'
  <1>1. StartersOK' /\ starter' \in
          [Starters -> [pc : {"idle", "claimed", "dispatched", "started",
                              "failed", "rejected"}, at : Attempts]]
    BY KeepsAll, StoppedStarter DEF starterCrashes
  <1> QED BY <1>1, Counted DEF IInv, TypeOK, RowsOK, ChainOK, starterCrashes

\* A start that fails keeps the invariant.
LEMMA StartFailsStep ==
  ASSUME IInv, NEW s \in Starters, harnessStartFails(s)
  PROVE  IInv'
  <1>1. StartersOK' /\ starter' \in
          [Starters -> [pc : {"idle", "claimed", "dispatched", "started",
                              "failed", "rejected"}, at : Attempts]]
    <2>1. CASE Go(s, "failed")
      BY <2>1, KeepsAll, MovedStarter DEF harnessStartFails
    <2>2. CASE Go(s, "rejected")
      BY <2>2, KeepsAll, MovedStarter DEF harnessStartFails
    <2> QED BY <2>1, <2>2 DEF harnessStartFails
  <1> QED BY <1>1, Counted DEF IInv, TypeOK, RowsOK, ChainOK, harnessStartFails

--------------------------------------------------------

\* Repricing at the workflow's gate keeps the invariant.
LEMMA RepriceStep ==
  ASSUME IInv, NEW a \in Attempts, createRepricedPaidExecutionSuccessor(a)
  PROVE  IInv'
  <1>1. attempts[a].workflow = "gate" /\ a + 1 \in Attempts /\ ~Exists(a + 1)
           /\ UNCHANGED starter
    BY DEF createRepricedPaidExecutionSuccessor
  <1>2. attempts[a] \in Row /\ RowOK(attempts[a]) /\ attempts[a].request # "none"
    BY <1>1, RowFacts DEF RowOK
  <1>3. CASE /\ attempts' = [attempts EXCEPT ![a] = Repriced(Run(a, "ended")),
                                             ![a + 1] = Reserved]
             /\ UNCHANGED faults
    <2>1. /\ Run(a, "ended") \in Row
          /\ RowOK(Run(a, "ended"))
          /\ Keeps(attempts[a], Run(a, "ended"))
          /\ Run(a, "ended").request # "none"
      BY <1>1, RunRow
    <2>2. /\ Repriced(Run(a, "ended")) \in Row
          /\ RowOK(Repriced(Run(a, "ended")))
          /\ Keeps(attempts[a], Repriced(Run(a, "ended")))
          /\ Repriced(Run(a, "ended")).credits = "returned"
          /\ Repriced(Run(a, "ended")).request # "none"
      BY <2>1, RepricedRow DEF Keeps
    <2> QED BY <1>1, <1>3, <2>2, SuccessorStep
  <1>4. CASE /\ attempts' = [attempts EXCEPT ![a] = Repriced(attempts[a]),
                                             ![a + 1] = Reserved]
             /\ Fault
    <2>1. /\ Repriced(attempts[a]) \in Row
          /\ RowOK(Repriced(attempts[a]))
          /\ Keeps(attempts[a], Repriced(attempts[a]))
          /\ Repriced(attempts[a]).credits = "returned"
          /\ Repriced(attempts[a]).request # "none"
      BY <1>2, RepricedRow DEF Keeps
    <2> QED BY <1>1, <1>4, <2>1, SuccessorStep
  <1> QED BY <1>3, <1>4 DEF createRepricedPaidExecutionSuccessor

\* The successor of an expired attempt keeps the invariant.
LEMMA ExpiredSuccessorStep ==
  ASSUME IInv, NEW a \in Attempts, createExpiredConfirmationSuccessor(a)
  PROVE  IInv'
  <1> DEFINE row == [attempts[a] EXCEPT !.harness = "failed"]
  <1>1. /\ row \in Row
        /\ RowOK(row)
        /\ Keeps(attempts[a], row)
        /\ row.request # "none"
        /\ row.credits = "returned"
    BY RowFacts DEF createExpiredConfirmationSuccessor, Row, RowOK, Keeps
  <1>2. /\ a + 1 \in Attempts
        /\ ~Exists(a + 1)
        /\ UNCHANGED <<starter, faults>>
        /\ attempts' = [attempts EXCEPT ![a].harness = "failed", ![a + 1] = Reserved]
    BY DEF createExpiredConfirmationSuccessor
  <1>3. attempts' = [attempts EXCEPT ![a] = row, ![a + 1] = Reserved]
    BY <1>2
  <1> HIDE DEF row
  <1> QED BY <1>1, <1>2, <1>3, SuccessorStep

\* A step of the workflow that only moves it on.
LEMMA RunStep ==
  ASSUME IInv, NEW a \in Attempts, NEW step,
         step \in {"gate", "admitted", "executing", "settled", "failing", "ended"},
         attempts[a].workflow # "none", Set(a, Run(a, step)),
         UNCHANGED starter, Fault \/ UNCHANGED faults
  PROVE  IInv'
  BY RunRow, RowStep

\* Calling the provider keeps the invariant.
LEMMA ClaimExecutionStep ==
  ASSUME IInv, NEW a \in Attempts, claimMerchantExecution(a)
  PROVE  IInv'
  <1>1. attempts[a].workflow # "none" /\ UNCHANGED <<starter, faults>>
    BY DEF claimMerchantExecution
  <1>2. CASE Set(a, [Run(a, "executing") EXCEPT !.output = TRUE])
    <2> DEFINE run == Run(a, "executing")
    <2>1. run \in Row /\ RowOK(run) /\ Keeps(attempts[a], run)
      BY <1>1, RunRow
    <2> HIDE DEF run
    <2> DEFINE row == [run EXCEPT !.output = TRUE]
    <2>2. row \in Row /\ RowOK(row) /\ Keeps(attempts[a], row)
      <3>1. row \in Row /\ RowOK(row) /\ Keeps(run, row)
        BY <2>1, OutputRow
      <3> HIDE DEF row
      <3> QED BY <2>1, <3>1 DEF Keeps
    <2>3. Set(a, row)
      BY <1>2 DEF run
    <2> HIDE DEF row
    <2> QED BY <1>1, <2>2, <2>3, RowStep
  <1>3. CASE Set(a, Run(a, "failing"))
    BY <1>1, <1>3, RunStep
  <1> QED BY <1>2, <1>3 DEF claimMerchantExecution

\* A commit keeps the invariant.
LEMMA CommitStep ==
  ASSUME IInv, NEW a \in Attempts, commit(a)
  PROVE  IInv'
  <1>1. attempts[a].workflow # "none" /\ UNCHANGED <<starter, faults>>
    BY DEF commit
  <1>2. CASE attempts[a].usage = "reserved"
    <2> DEFINE run == Run(a, "settled")
    <2>1. run \in Row /\ RowOK(run) /\ Keeps(attempts[a], run)
             /\ run.request # "none"
      BY <1>1, RunRow
    <2> HIDE DEF run
    <2> DEFINE row == [run EXCEPT !.usage = "settled", !.work = "completed"]
    <2>2. row \in Row /\ RowOK(row) /\ Keeps(attempts[a], row)
      <3>1. row \in Row /\ RowOK(row) /\ Keeps(run, row)
        BY <2>1, SettledRow
      <3> HIDE DEF row
      <3> QED BY <2>1, <3>1 DEF Keeps
    <2>3. Set(a, row)
      BY <1>2 DEF commit, run
    <2> HIDE DEF row
    <2> QED BY <1>1, <2>2, <2>3, RowStep
  <1>3. CASE attempts[a].usage # "reserved"
    <2>1. Set(a, Run(a, "settled"))
      BY <1>3 DEF commit
    <2> QED BY <1>1, <2>1, RunStep
  <1> QED BY <1>2, <1>3

\* A row given back, with its Work closed.
LEMMA ClosedRow ==
  ASSUME NEW old \in Row, RowOK(old), NEW run \in Row, RowOK(run), Keeps(old, run),
         run.request # "none",
         NEW state \in {"none", "running", "completed", "failed"}
  PROVE  /\ [Released(run) EXCEPT !.work = state] \in Row
         /\ RowOK([Released(run) EXCEPT !.work = state])
         /\ Keeps(old, [Released(run) EXCEPT !.work = state])
  <1> DEFINE back == Released(run)
  <1>1. /\ back \in Row
        /\ RowOK(back)
        /\ back.request # "none"
        /\ Keeps(run, back)
    BY ReleasedRow
  <1> HIDE DEF back
  <1> DEFINE new == [back EXCEPT !.work = state]
  <1>2. new \in Row /\ RowOK(new) /\ Keeps(old, new)
    BY <1>1 DEF Row, RowOK, Keeps
  <1>3. [Released(run) EXCEPT !.work = state] = new
    BY DEF back
  <1> HIDE DEF new
  <1> QED BY <1>2, <1>3

\* A refund keeps the invariant.
LEMMA RefundStep ==
  ASSUME IInv, NEW a \in Attempts, refund(a)
  PROVE  IInv'
  <1> DEFINE run == Run(a, "ended")
             state == IF Released(run).work = "running" THEN "failed"
                      ELSE Released(run).work
  <1>1. attempts[a].workflow # "none" /\ UNCHANGED <<starter, faults>>
    BY DEF refund
  <1>2. attempts[a] \in Row /\ RowOK(attempts[a])
    BY RowFacts
  <1>3. run \in Row /\ RowOK(run) /\ Keeps(attempts[a], run)
           /\ run.request # "none"
    BY <1>1, RunRow
  <1>4. state \in {"none", "running", "completed", "failed"}
    <2>1. Released(run) \in Row
      BY <1>3, ReleasedRow
    <2> QED BY <2>1 DEF Row
  <1>5. Set(a, [Released(run) EXCEPT !.work = state])
    BY DEF refund
  <1> HIDE DEF run, state
  <1> QED BY <1>1, <1>2, <1>3, <1>4, <1>5, ClosedRow, RowStep

\* The stalled-work sweep and a cancellation keep the invariant.
LEMMA TerminateStep ==
  ASSUME IInv, NEW a \in Attempts, terminateRunningWork(a)
  PROVE  IInv'
  <1>1. attempts[a].work = "running" /\ UNCHANGED <<starter, faults>>
    BY DEF terminateRunningWork
  <1>2. attempts[a] \in Row /\ RowOK(attempts[a]) /\ attempts[a].request # "none"
    BY <1>1, RowFacts DEF RowOK
  <1>3. PICK step \in {attempts[a].workflow, "ended"} :
          /\ attempts[a].workflow = "none" => step = "none"
          /\ Set(a, [Released(Run(a, step)) EXCEPT !.work = "failed"])
    BY DEF terminateRunningWork
  <1>4. /\ Run(a, step) \in Row
        /\ RowOK(Run(a, step))
        /\ Keeps(attempts[a], Run(a, step))
        /\ Run(a, step).request # "none"
    BY <1>2, <1>3 DEF Run, Row, RowOK, Keeps
  <1> QED BY <1>1, <1>2, <1>3, <1>4, ClosedRow, RowStep

\* Every step of the workflow keeps the invariant.
LEMMA WorkflowStep ==
  ASSUME IInv, NEW a \in Attempts, Workflow(a)
  PROVE  IInv'
  <1>1. CASE admitSnapshot(a)
    BY <1>1, RunStep DEF admitSnapshot
  <1>2. CASE createRepricedPaidExecutionSuccessor(a)
    BY <1>2, RepriceStep
  <1>3. CASE successorExists(a)
    BY <1>3, RunStep DEF successorExists
  <1>4. CASE workflowFails(a)
    BY <1>4, RunStep DEF workflowFails
  <1>5. CASE claimMerchantExecution(a)
    BY <1>5, ClaimExecutionStep
  <1>6. CASE commit(a)
    BY <1>6, CommitStep
  <1>7. CASE refund(a)
    BY <1>7, RefundStep
  <1>8. CASE workflowEnds(a)
    BY <1>8, RunStep DEF workflowEnds
  <1> QED BY <1>1, <1>2, <1>3, <1>4, <1>5, <1>6, <1>7, <1>8 DEF Workflow

\* The passing of time keeps the invariant.
LEMMA PassingStep ==
  ASSUME IInv, NEW a \in Attempts, leaseExpires(a) \/ timePasses(a)
  PROVE  IInv'
  <1>1. attempts[a] \in Row /\ RowOK(attempts[a])
    BY RowFacts
  <1>2. CASE leaseExpires(a)
    <2> DEFINE row == [attempts[a] EXCEPT !.live = FALSE]
    <2>1. row \in Row /\ RowOK(row) /\ Keeps(attempts[a], row)
      BY <1>1, LapsedRow
    <2>2. Set(a, row) /\ UNCHANGED starter /\ (Fault \/ UNCHANGED faults)
      BY <1>2 DEF leaseExpires
    <2> HIDE DEF row
    <2> QED BY <2>1, <2>2, RowStep
  <1>3. CASE timePasses(a)
    <2> DEFINE row == [attempts[a] EXCEPT !.age = @ + 1]
    <2>1. row \in Row /\ RowOK(row) /\ Keeps(attempts[a], row)
      BY <1>1, <1>3 DEF Row, RowOK, Keeps, timePasses
    <2>2. Set(a, row) /\ UNCHANGED <<starter, faults>>
      BY <1>3 DEF timePasses
    <2> HIDE DEF row
    <2> QED BY <2>1, <2>2, RowStep
  <1> QED BY <1>2, <1>3

-----------------------------------------------------------------------------
(* The theorems *)

\* The invariant holds at the start.
LEMMA InitInv == Init => IInv
  <1> SUFFICES ASSUME Init PROVE IInv
    OBVIOUS
  <1>1. \A a \in Attempts : attempts[a] = IF a = 1 THEN Reserved ELSE Absent
    BY DEF Init
  <1>2. attempts \in [Attempts -> Row] /\ RowsOK
    BY <1>1, ReservedRow, AbsentRow DEF Init, RowsOK
  <1>3. ChainOK
    <2>1. Absent.request = "none"
      BY DEF Absent
    <2> QED BY <1>1, <2>1 DEF ChainOK, Attempts
  <1>4. 1 \in Attempts
    BY StartAssumption DEF Attempts
  <1>5. \A s \in Starters : starter[s] = [pc |-> "idle", at |-> 1]
    BY DEF Init, Idle
  <1>6. StartersOK
    BY <1>5 DEF StartersOK
  <1>7. TypeOK
    BY <1>2, <1>4, StartAssumption DEF Init, Idle, TypeOK
  <1> QED BY <1>2, <1>3, <1>6, <1>7 DEF IInv

\* Every step keeps the invariant.
LEMMA NextInv == IInv /\ [Next]_vars => IInv'
  <1> SUFFICES ASSUME IInv, [Next]_vars PROVE IInv'
    OBVIOUS
  <1>1. ASSUME NEW a \in Attempts, NEW d \in {"confirmed", "rejected"}, decide(a, d)
        PROVE  IInv'
    BY <1>1, DecideStep
  <1>2. ASSUME NEW a \in Attempts, completeExpiry(a) PROVE IInv'
    BY <1>2, RowFacts, ExpiredRow, RowStep DEF completeExpiry
  <1>3. ASSUME NEW a \in Attempts, createExpiredConfirmationSuccessor(a) PROVE IInv'
    BY <1>3, ExpiredSuccessorStep
  <1>4. ASSUME NEW a \in Attempts, NEW s \in Starters, startPrepared(s, a) PROVE IInv'
    BY <1>4, ClaimStep DEF startPrepared, Confirmed
  <1>5. ASSUME NEW a \in Attempts, NEW s \in Starters, recoverPendingStarts(s, a)
        PROVE  IInv'
    BY <1>5, RowFacts, ClaimStep DEF recoverPendingStarts, RowOK
  <1>6. ASSUME NEW a \in Attempts, expireUndispatchedConfirmationHolds(a) PROVE IInv'
    BY <1>6, OutboxStep
       DEF expireUndispatchedConfirmationHolds, Undispatched, DispatchExpired
  <1>7. ASSUME NEW a \in Attempts, Workflow(a) PROVE IInv'
    BY <1>7, WorkflowStep
  <1>8. ASSUME NEW a \in Attempts, workflowCrashes(a) PROVE IInv'
    BY <1>8, RunStep DEF workflowCrashes
  <1>9. ASSUME NEW a \in Attempts, cancelRunning(a) \/ sweepStalledWork(a) PROVE IInv'
    BY <1>9, TerminateStep DEF cancelRunning, sweepStalledWork
  <1>10. ASSUME NEW a \in Attempts, leaseExpires(a) \/ timePasses(a) PROVE IInv'
    BY <1>10, PassingStep
  <1>11. ASSUME NEW s \in Starters, Start(s) PROVE IInv'
    BY <1>11, DispatchStep, StartStep, CompleteStep, LetGoStep
       DEF Start, releaseHarnessStart, failHarnessStart
  <1>12. ASSUME NEW s \in Starters, harnessStartFails(s) \/ starterCrashes(s)
         PROVE  IInv'
    BY <1>12, StartFailsStep, CrashStep
  <1>13. CASE UNCHANGED vars
    BY <1>13 DEF vars, IInv, TypeOK, RowsOK, ChainOK, StartersOK
  <1> QED
    BY <1>1, <1>2, <1>3, <1>4, <1>5, <1>6, <1>7, <1>8, <1>9, <1>10, <1>11, <1>12,
       <1>13 DEF Next

\* The inductive invariant holds of every reachable state.
THEOREM StartInvariant == Spec => []IInv
  BY InitInv, NextInv, PTL DEF Spec

\* Rows and executions keep their types.
THEOREM StartTypeCorrect == Spec => []TypeOK
  <1>1. IInv => TypeOK
    BY DEF IInv
  <1> QED BY <1>1, StartInvariant, PTL

\* At most one attempt of a request holds credits, however long the chain.
THEOREM ChainHoldsOnce == Spec => []OneLiveHold
  <1>1. IInv => OneLiveHold
    <2> SUFFICES ASSUME IInv, NEW a \in Attempts, NEW b \in Attempts,
                        attempts[a].credits = "held", attempts[b].credits = "held"
                 PROVE  a = b
      BY DEF OneLiveHold
    <2>1. attempts[a].request # "none" /\ attempts[b].request # "none"
      BY RowFacts DEF RowOK
    <2>2. ~(a < b) /\ ~(b < a)
      BY <2>1 DEF IInv, ChainOK
    <2> QED BY <2>2 DEF Attempts
  <1> QED BY <1>1, StartInvariant, PTL

\* A hold that expired, in the request or in the outbox, has no workflow,
\* whichever execution was about to start it.
THEOREM ExpiryStopsStart == Spec => []ExpiredNeverStarts
  <1>1. IInv => ExpiredNeverStarts
    BY DEF IInv, RowsOK, RowOK, ExpiredNeverStarts
  <1> QED BY <1>1, StartInvariant, PTL

--------------------------------------------------------

-----------------------------------------------------------------------------
(* Who calls the provider *)

\* No row gains output.
NoOutput == \A b \in Attempts : attempts'[b].output => attempts[b].output

\* A change of an attempt that leaves its output alone calls no provider.
LEMMA SilentRow ==
  ASSUME attempts \in [Attempts -> Row], NEW a \in Attempts, NEW row,
         row.output = attempts[a].output, Set(a, row)
  PROVE  NoOutput
  BY DEF NoOutput, Set

\* Refunds, expiry and repricing leave the output alone.
LEMMA SilentTransformations ==
  ASSUME NEW row \in Row
  PROVE  /\ Released(row).output = row.output
         /\ HoldExpired(row).output = row.output
         /\ expireLockedConfirmationHold(row).output = row.output
         /\ refundUsageOperation(row).output = row.output
         /\ Repriced(row).output = row.output
  <1>1. /\ failAndRefund(row) \in Row
        /\ failAndRefund(row).output = row.output
    BY DEF failAndRefund, Row
  <1>2. \A r \in Row : /\ refundUsageOperation(r) \in Row
                        /\ refundUsageOperation(r).output = r.output
    BY DEF refundUsageOperation, Row
  <1>3. Released(row) \in Row /\ Released(row).output = row.output
    BY <1>1, <1>2 DEF Released
  <1>4. HoldExpired(row).output = row.output
    BY <1>2 DEF HoldExpired, Row
  <1>5. expireLockedConfirmationHold(row).output = row.output
    BY <1>3 DEF expireLockedConfirmationHold, Row
  <1>6. Repriced(row).output = row.output
    <2>1. refundUsageOperation(failAndRefund(row)) \in Row
      BY <1>1, <1>2
    <2> QED BY <1>1, <1>2, <2>1 DEF Repriced, Row
  <1> QED BY <1>2, <1>3, <1>4, <1>5, <1>6

\* The workflow's position has nothing to do with the output.
LEMMA SilentRun ==
  ASSUME IInv, NEW a \in Attempts, NEW step
  PROVE  Run(a, step).output = attempts[a].output
  BY RowFacts DEF Run, Row

\* A successor starts without output.
LEMMA SilentSuccessor ==
  ASSUME IInv, NEW a \in Attempts, NEW row, row.output = attempts[a].output,
         a + 1 \in Attempts,
         attempts' = [attempts EXCEPT ![a] = row, ![a + 1] = Reserved]
  PROVE  NoOutput
  <1>1. \A b \in Attempts : attempts'[b] = IF b = a + 1 THEN Reserved
                                ELSE IF b = a THEN row ELSE attempts[b]
    BY DEF IInv, TypeOK, Attempts
  <1>2. ~Reserved.output
    BY DEF Reserved
  <1> QED BY <1>1, <1>2 DEF NoOutput

\* Every step of the workflow but the claim.
LEMMA SilentWorkflow ==
  ASSUME IInv, NEW a \in Attempts, Workflow(a), ~claimMerchantExecution(a)
  PROVE  NoOutput
  <1> USE DEF IInv, TypeOK
  <1>1. CASE \E step \in {"admitted", "ended", "failing", "settled"} : Set(a, Run(a, step))
    BY <1>1, SilentRun, SilentRow
  <1>2. CASE createRepricedPaidExecutionSuccessor(a)
    <2>1. attempts[a].workflow # "none" /\ a + 1 \in Attempts
      BY <1>2 DEF createRepricedPaidExecutionSuccessor
    <2>2. Run(a, "ended") \in Row /\ attempts[a] \in Row
      BY <2>1, RunRow, RowFacts
    <2>3. /\ Repriced(Run(a, "ended")).output = attempts[a].output
          /\ Repriced(attempts[a]).output = attempts[a].output
      BY <2>2, SilentTransformations, SilentRun
    <2> QED BY <1>2, <2>1, <2>3, SilentSuccessor DEF createRepricedPaidExecutionSuccessor
  <1>3. CASE commit(a)
    <2>1. attempts[a].workflow # "none"
      BY <1>3 DEF commit
    <2>2. Run(a, "settled") \in Row /\ Run(a, "settled").output = attempts[a].output
      BY <2>1, RunRow, SilentRun
    <2>3. [Run(a, "settled") EXCEPT !.usage = "settled", !.work = "completed"].output
             = attempts[a].output
      BY <2>2 DEF Row
    <2> QED BY <1>1, <1>3, <2>3, SilentRow DEF commit
  <1>4. CASE refund(a)
    <2>1. attempts[a].workflow # "none"
      BY <1>4 DEF refund
    <2>2. Run(a, "ended") \in Row /\ Run(a, "ended").output = attempts[a].output
      BY <2>1, RunRow, SilentRun
    <2>3. /\ Released(Run(a, "ended")).output = attempts[a].output
          /\ Released(Run(a, "ended")) \in Row
      BY <2>1, <2>2, RunRow, ReleasedRow, SilentTransformations
    <2>4. PICK row : Set(a, row) /\ row = [Released(Run(a, "ended")) EXCEPT
                 !.work = IF @ = "running" THEN "failed" ELSE @]
      BY <1>4 DEF refund
    <2>5. row.output = attempts[a].output
      BY <2>3, <2>4 DEF Row
    <2> QED BY <2>4, <2>5, SilentRow
  <1> QED BY <1>1, <1>2, <1>3, <1>4
        DEF Workflow, admitSnapshot, successorExists, workflowFails, workflowEnds

\* Every step of an execution.
LEMMA SilentStart ==
  ASSUME IInv, NEW s \in Starters,
         Start(s) \/ harnessStartFails(s) \/ starterCrashes(s)
  PROVE  NoOutput
  <1> DEFINE a == starter[s].at
  <1>1. a \in Attempts /\ attempts[a] \in Row /\ attempts \in [Attempts -> Row]
    BY DEF IInv, TypeOK
  <1>2. CASE UNCHANGED attempts
    BY <1>2 DEF NoOutput
  <1>3. CASE \E row : Set(a, row) /\ row.output = attempts[a].output
    BY <1>1, <1>3, SilentRow
  <1>4. [attempts[a] EXCEPT !.dispatch = "dispatched"].output = attempts[a].output
    BY <1>1 DEF Row
  <1>5. [attempts[a] EXCEPT !.workflow = IF @ = "none" THEN "gate" ELSE @].output
           = attempts[a].output
    BY <1>1 DEF Row
  <1>6. [attempts[a] EXCEPT !.harness = "started", !.lease = None, !.live = FALSE,
                            !.dispatch = "dispatched"].output = attempts[a].output
    BY <1>1 DEF Row
  <1>7. \A state : [attempts[a] EXCEPT !.harness = state, !.lease = None,
                               !.live = FALSE].output = attempts[a].output
    BY <1>1 DEF Row
  <1>8. CASE markHarnessStartDispatched(s)
    BY <1>2, <1>3, <1>4, <1>8 DEF markHarnessStartDispatched
  <1>9. CASE harnessStart(s)
    BY <1>3, <1>5, <1>9 DEF harnessStart
  <1>10. CASE completeHarnessStart(s)
    BY <1>3, <1>6, <1>10 DEF completeHarnessStart
  <1>11. CASE releaseHarnessStart(s) \/ failHarnessStart(s)
    BY <1>3, <1>7, <1>11 DEF releaseHarnessStart, failHarnessStart, LetGo
  <1>12. CASE harnessStartFails(s) \/ starterCrashes(s)
    BY <1>2, <1>12 DEF harnessStartFails, starterCrashes
  <1> QED BY <1>8, <1>9, <1>10, <1>11, <1>12 DEF Start

\* Every step of the merchant, of a sweeper and of time.
LEMMA SilentOthers ==
  ASSUME IInv, NEW a \in Attempts,
         \/ \E d \in {"confirmed", "rejected"} : decide(a, d)
         \/ completeExpiry(a)
         \/ createExpiredConfirmationSuccessor(a)
         \/ \E s \in Starters : claimHarnessStart(s, a)
         \/ leaseExpires(a)
         \/ expireUndispatchedConfirmationHolds(a)
         \/ workflowCrashes(a)
         \/ terminateRunningWork(a)
         \/ timePasses(a)
  PROVE  NoOutput
  <1>1. attempts[a] \in Row /\ attempts \in [Attempts -> Row]
    BY DEF IInv, TypeOK
  <1>2. CASE \E row : Set(a, row) /\ row.output = attempts[a].output
    BY <1>1, <1>2, SilentRow
  <1>3. ASSUME NEW d \in {"confirmed", "rejected"}, decide(a, d) PROVE NoOutput
    <2> DEFINE row == [attempts[a] EXCEPT !.request = "decided", !.decision = d]
    <2>1. row \in Row /\ row.output = attempts[a].output
      BY <1>1 DEF Row
    <2> HIDE DEF row
    <2>2. \/ Set(a, HoldExpired(attempts[a]))
          \/ Set(a, refundUsageOperation(row))
          \/ Set(a, row)
      BY <1>3 DEF decide, row
    <2> QED BY <1>1, <1>2, <2>1, <2>2, SilentTransformations
  <1>4. CASE completeExpiry(a)
    BY <1>1, <1>2, <1>4, SilentTransformations DEF completeExpiry
  <1>5. CASE createExpiredConfirmationSuccessor(a)
    <2>1. [attempts[a] EXCEPT !.harness = "failed"].output = attempts[a].output
      BY <1>1 DEF Row
    <2>2. attempts' = [attempts EXCEPT ![a] = [attempts[a] EXCEPT !.harness = "failed"],
                                       ![a + 1] = Reserved] /\ a + 1 \in Attempts
      BY <1>5 DEF createExpiredConfirmationSuccessor
    <2> QED BY <2>1, <2>2, SilentSuccessor
  <1>6. ASSUME NEW s \in Starters, claimHarnessStart(s, a) PROVE NoOutput
    <2>1. [attempts[a] EXCEPT !.harness = "starting", !.lease = s, !.live = TRUE].output
             = attempts[a].output
      BY <1>1 DEF Row
    <2> QED BY <1>1, <1>2, <1>6, <2>1, SilentTransformations DEF claimHarnessStart
  <1>7. CASE leaseExpires(a)
    <2>1. [attempts[a] EXCEPT !.live = FALSE].output = attempts[a].output
      BY <1>1 DEF Row
    <2> QED BY <1>2, <1>7, <2>1 DEF leaseExpires
  <1>8. CASE expireUndispatchedConfirmationHolds(a)
    BY <1>1, <1>2, <1>8, SilentTransformations DEF expireUndispatchedConfirmationHolds
  <1>9. CASE workflowCrashes(a)
    BY <1>2, <1>9, SilentRun DEF workflowCrashes
  <1>10. CASE terminateRunningWork(a)
    <2>1. PICK step \in {attempts[a].workflow, "ended"} :
            Set(a, [Released(Run(a, step)) EXCEPT !.work = "failed"])
      BY <1>10 DEF terminateRunningWork
    <2>2. Run(a, step) \in Row /\ Run(a, step).output = attempts[a].output
      BY <1>1, <2>1 DEF Run, Row
    <2> DEFINE back == Released(Run(a, step))
    <2>3. back \in Row /\ back.output = attempts[a].output
      <3>1. \A r \in Row : Released(r) \in Row
        <4>1. \A r \in Row : failAndRefund(r) \in Row /\ refundUsageOperation(r) \in Row
          BY DEF failAndRefund, refundUsageOperation, Row
        <4> QED BY <4>1 DEF Released
      <3> QED BY <2>2, <3>1, SilentTransformations
    <2> HIDE DEF back
    <2>4. [back EXCEPT !.work = "failed"].output = attempts[a].output
      BY <2>3 DEF Row
    <2>5. Set(a, [back EXCEPT !.work = "failed"])
      BY <2>1 DEF back
    <2> QED BY <1>2, <2>4, <2>5
  <1>11. CASE timePasses(a)
    <2>1. [attempts[a] EXCEPT !.age = @ + 1].output = attempts[a].output
      BY <1>1 DEF Row
    <2> QED BY <1>2, <1>11, <2>1 DEF timePasses
  <1> QED BY <1>3, <1>4, <1>5, <1>6, <1>7, <1>8, <1>9, <1>10, <1>11

\* The claim itself.
LEMMA PaidClaim ==
  ASSUME IInv, NEW a \in Attempts, claimMerchantExecution(a),
         NEW b \in Attempts, ~attempts[b].output, attempts'[b].output
  PROVE  attempts[b].credits = "held" /\ Confirmed(b) /\ ~Superseded(b)
  <1>1. attempts[a] \in Row /\ RowOK(attempts[a]) /\ attempts[a].workflow = "admitted"
           /\ attempts \in [Attempts -> Row]
    BY RowFacts DEF claimMerchantExecution, IInv, TypeOK
  <1>2. attempts[a].decision = "confirmed" /\ attempts[a].request = "decided"
    BY <1>1 DEF RowOK
  <1>3. CASE MayExecute(a) /\ a = b
    <2>1. attempts[a].usage = "reserved"
      BY <1>3 DEF MayExecute
    <2>2. attempts[a].credits = "held"
      BY <1>1, <1>2, <2>1 DEF RowOK
    <2>3. ~Superseded(a)
      <3> SUFFICES ASSUME Superseded(a) PROVE FALSE
        OBVIOUS
      <3>1. a + 1 \in Attempts /\ attempts[a + 1].request # "none" /\ a < a + 1
        BY DEF Superseded, Exists, Attempts
      <3> QED BY <2>2, <3>1 DEF IInv, ChainOK
    <2> QED BY <1>2, <1>3, <2>2, <2>3 DEF Confirmed
  <1>4. CASE a # b
    <2>1. attempts'[b] = attempts[b]
      BY <1>1, <1>4 DEF claimMerchantExecution, Set
    <2> QED BY <2>1
  <1>5. CASE ~MayExecute(a) /\ a = b
    <2>1. Set(a, Run(a, "failing"))
      BY <1>5 DEF claimMerchantExecution
    <2>2. attempts'[a].output = attempts[a].output
      BY <1>1, <2>1, SilentRun DEF Set
    <2> QED BY <1>5, <2>2
  <1> QED BY <1>3, <1>4, <1>5

\* The provider is called for the first time only for a confirmed attempt
\* that holds its credits and has no successor.
THEOREM OutputPaid == Spec => OutputIsPaid
  <1> DEFINE Paid == \A a \in Attempts :
                        ~attempts[a].output /\ attempts'[a].output
                        => /\ attempts[a].credits = "held"
                           /\ Confirmed(a)
                           /\ ~Superseded(a)
  <1>1. IInv /\ [Next]_vars => [Paid]_vars
    <2> SUFFICES ASSUME IInv, Next PROVE Paid
      OBVIOUS
    <2>1. NoOutput => Paid
      BY DEF NoOutput
    <2>2. ASSUME NEW a \in Attempts, claimMerchantExecution(a) PROVE Paid
      BY <2>2, PaidClaim
    <2> HIDE DEF Paid
    <2>3. ASSUME NEW a \in Attempts, Workflow(a) PROVE Paid
      BY <2>1, <2>2, <2>3, SilentWorkflow
    <2>4. ASSUME NEW s \in Starters,
                 Start(s) \/ harnessStartFails(s) \/ starterCrashes(s)
          PROVE  Paid
      BY <2>1, <2>4, SilentStart
    <2> QED
      BY <2>1, <2>3, <2>4, SilentOthers
         DEF Next, startPrepared, recoverPendingStarts, cancelRunning, sweepStalledWork
  <1>2. Spec => [][Paid]_vars
    BY <1>1, StartInvariant, PTL DEF Spec
  <1> QED BY <1>2 DEF OutputIsPaid
=============================================================================
