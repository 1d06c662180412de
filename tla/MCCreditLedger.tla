---------------------------- MODULE MCCreditLedger ----------------------------
(* A workspace with a dated subscription lot, a later one, and a lot without
   an expiry; two tasks consume.  The fourth request reuses the first one's
   idempotency key under another lot id. *)
EXTENDS CreditLedgerLoops, TLC

CONSTANTS s1, k1, k2, k3

MCLotIds == {1, 2, 3}
MCKeys == {k1, k2, k3}
MCSubs == {s1}

\* The tasks are interchangeable: no operation tells one from another.
TaskSymmetry == Permutations(Ops)

MCGrantInputs ==
  {[id |-> 1, key |-> k1, credits |-> 2, expiration |-> 2, createdAt |-> 0, source |-> s1],
   [id |-> 2, key |-> k2, credits |-> 2, expiration |-> MaxTime + 1, createdAt |-> 0,
    source |-> NoSource],
   [id |-> 3, key |-> k3, credits |-> 1, expiration |-> 2, createdAt |-> 1, source |-> s1],
   [id |-> 2, key |-> k1, credits |-> 2, expiration |-> 2, createdAt |-> 0, source |-> s1]}
=============================================================================
