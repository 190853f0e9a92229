-------------------------- MODULE CreditSyncProofs --------------------------
(***************************************************************************)
(* BillingInv is inductive, for any number of requests and notebooks and   *)
(* any bounds.  A transaction writes what TxnInv says it holds; only Commit *)
(* changes the row, and only the holder of the row commits.                *)
(***************************************************************************)
EXTENDS CreditSync, Integers, TLAPS

\* A party that opens a transaction starts from the committed row.
LEMMA OpenedShape ==
    ASSUME NEW row \in Profile
    PROVE  /\ Opened(row) \in Txn
           /\ Opened(row).row = row /\ Opened(row).amount = 0 /\ Opened(row).short = FALSE
  BY DEF Opened, Txn

LEMMA NoTxnShape == NoTxn \in Txn /\ NewProfile \in Profile
  BY DEF NoTxn, NewProfile, Row, Opened, Txn, Profile

\* Init: nothing is owed, nobody holds the row.
LEMMA BillingInit == Init => BillingInv
  <1> SUFFICES ASSUME Init PROVE BillingInv
    OBVIOUS
  <1> USE CreditAssumption DEF Init
  <1>1. TypeOK
    BY NoTxnShape DEF TypeOK, Parties, Holding
  <1>2. AccessPaid /\ Ledger /\ PaidIsBacked
    BY DEF AccessPaid, Ledger, PaidIsBacked, Balanced, NewProfile, Row
  <1>3. LockDiscipline /\ TxnInv
    BY DEF LockDiscipline, TxnInv, TxnShape, Holding, Parties
  <1> QED
    BY <1>1, <1>2, <1>3 DEF BillingInv

LEMMA BillingStutter == BillingInv /\ UNCHANGED vars => BillingInv'
  BY DEF BillingInv, TypeOK, LockDiscipline, AccessPaid, Ledger, Balanced, PaidIsBacked,
         TxnInv, TxnShape, vars

-----------------------------------------------------------------------------
(* Five shapes of a step, by what it does to the row and its lock.         *)

\* The books are in order whenever the row, the meter and the server are as
\* they should be.
BooksInv == AccessPaid /\ Ledger /\ PaidIsBacked

\* Outside the programs: the meter and the account move, nothing else counts.
LEMMA OutsidePart ==
    ASSUME BillingInv, TypeOK', UNCHANGED <<profile, profileLock, pc, txn>>,
           meter' >= meter, charged' = charged
    PROVE  BillingInv'
  <1> USE DEF BillingInv
  <1>1. LockDiscipline'
    BY DEF LockDiscipline
  <1>2. BooksInv'
    BY DEF BooksInv, TypeOK, Profile, AccessPaid, Ledger, PaidIsBacked, Balanced
  <1>3. TxnInv'
    <2> SUFFICES ASSUME NEW q \in Parties PROVE TxnShape(q)'
      BY DEF TxnInv
    <2>1. TxnShape(q) /\ txn[q].row \in Profile
      BY DEF TxnInv, TypeOK, Txn
    <2> QED
      BY <2>1 DEF TxnShape, TypeOK, Profile, Balanced
  <1> QED
    BY <1>1, <1>2, <1>3 DEF BooksInv

\* Inside a transaction: the row stays, its holder alone moves on.
LEMMA InsidePart ==
    ASSUME BillingInv, TypeOK', NEW p \in Parties, pc[p] \in Holding,
           NEW next \in Holding, pc' = [pc EXCEPT ![p] = next],
           \A q \in Parties : q # p => txn'[q] = txn[q],
           UNCHANGED <<profile, profileLock>>,
           meter' = meter, charged' >= charged, TxnShape(p)'
    PROVE  BillingInv'
  <1> USE DEF BillingInv
  <1>1. LockDiscipline'
    BY DEF LockDiscipline, TypeOK
  <1>2. BooksInv'
    BY DEF BooksInv, TypeOK, Profile, AccessPaid, Ledger, PaidIsBacked, Balanced
  <1>3. TxnInv'
    <2> SUFFICES ASSUME NEW q \in Parties, q # p PROVE TxnShape(q)'
      BY DEF TxnInv
    <2>1. TxnShape(q) /\ txn[q].row \in Profile
      BY DEF TxnInv, TypeOK, Txn
    <2>2. pc'[q] = pc[q] /\ txn'[q] = txn[q]
      BY DEF TypeOK
    <2> QED
      BY <2>1, <2>2 DEF TxnShape, TypeOK, Profile, Balanced
  <1> QED
    BY <1>1, <1>2, <1>3 DEF BooksInv

\* The end of a transaction: the row is as it was, or what a transaction that
\* was saved or granted holds.
LEMMA ClosePart ==
    ASSUME BillingInv, TypeOK', NEW p \in Parties, pc[p] \in Holding,
           NEW next \in {"idle", "lock"}, pc' = [pc EXCEPT ![p] = next],
           next = "lock" => p = Cron,
           Close(p), meter' = meter, charged' = charged,
           \/ UNCHANGED profile
           \/ pc[p] \in {"save", "grant"} /\ profile' = txn[p].row
    PROVE  BillingInv'
  <1> USE DEF BillingInv
  <1>1. profileLock = p /\ profileLock' = NoOne /\ pc'[p] = next
    BY DEF LockDiscipline, TypeOK, Close
  <1>2. \A q \in Parties : q # p => pc[q] \notin Holding /\ pc'[q] = pc[q]
    BY <1>1 DEF LockDiscipline, TypeOK
  <1>3. LockDiscipline'
    BY <1>1, <1>2, CreditAssumption DEF LockDiscipline, Holding
  <1>4. BooksInv'
    <2>1. CASE UNCHANGED profile
      BY <2>1 DEF BooksInv, AccessPaid, Ledger, PaidIsBacked, Balanced
    <2>2. CASE pc[p] \in {"save", "grant"} /\ profile' = txn[p].row
      <3>1. TxnShape(p)
        BY DEF TxnInv
      <3> QED
        BY <2>2, <3>1 DEF BooksInv, TxnShape, AccessPaid, Ledger, PaidIsBacked, Balanced, Holding
    <2> QED
      BY <2>1, <2>2
  <1>5. TxnInv'
    <2> SUFFICES ASSUME NEW q \in Parties PROVE TxnShape(q)'
      BY DEF TxnInv
    <2>1. pc'[q] \notin Holding /\ (pc'[q] = "lock" => q = Cron)
      BY <1>1, <1>2 DEF TxnInv, TxnShape, Holding
    <2> QED
      BY <2>1 DEF TxnShape, Holding
  <1> QED
    BY <1>3, <1>4, <1>5 DEF BooksInv

\* Before the lock: nothing but the place of one party changes.
LEMMA WaitPart ==
    ASSUME BillingInv, TypeOK', NEW p \in Parties, pc[p] \notin Holding,
           NEW next \in {"idle", "lock"}, pc' = [pc EXCEPT ![p] = next],
           next = "lock" => p = Cron,
           \A q \in Parties : q # p => txn'[q] = txn[q],
           UNCHANGED <<profile, profileLock, meter, charged>>
    PROVE  BillingInv'
  <1> USE DEF BillingInv
  <1>1. LockDiscipline'
    BY DEF LockDiscipline, TypeOK, Holding
  <1>2. BooksInv'
    BY DEF BooksInv, AccessPaid, Ledger, PaidIsBacked, Balanced
  <1>3. TxnInv'
    <2> SUFFICES ASSUME NEW q \in Parties PROVE TxnShape(q)'
      BY DEF TxnInv
    <2>1. CASE q = p
      BY <2>1 DEF TxnShape, TypeOK, Holding
    <2>2. CASE q # p
      BY <2>2 DEF TxnInv, TxnShape, TypeOK
    <2> QED
      BY <2>1, <2>2
  <1> QED
    BY <1>1, <1>2, <1>3 DEF BooksInv

\* The lock: the transaction starts from the committed row.
LEMMA OpenPart ==
    ASSUME BillingInv, TypeOK', NEW p \in Parties, pc[p] \notin Holding,
           profileLock = NoOne, profileLock' = p,
           NEW next \in {"cost", "grant"}, pc' = [pc EXCEPT ![p] = next],
           next = "cost" /\ p # Cron => ~ profile.canCreate,
           next = "grant" => p # Cron /\ profile.canCreate,
           Set(p, Opened(profile)),
           UNCHANGED <<profile, meter, charged>>
    PROVE  BillingInv'
  <1> USE DEF BillingInv
  <1>1. profile \in Profile
    BY DEF TypeOK
  <1>2. \A q \in Parties : q # p => pc'[q] = pc[q] /\ txn'[q] = txn[q]
    BY DEF TypeOK, Set
  <1>3. pc'[p] = next /\ txn'[p].row = profile
    BY <1>1, OpenedShape DEF TypeOK, Set
  <1>4. LockDiscipline'
    BY <1>2, <1>3, CreditAssumption DEF LockDiscipline, Holding
  <1>5. BooksInv'
    BY DEF BooksInv, AccessPaid, Ledger, PaidIsBacked, Balanced
  <1>6. TxnInv'
    <2> SUFFICES ASSUME NEW q \in Parties PROVE TxnShape(q)'
      BY DEF TxnInv
    <2>1. CASE q = p
      BY <1>3, <2>1 DEF TxnShape, AccessPaid, Ledger, PaidIsBacked, Balanced, Holding
    <2>2. CASE q # p
      BY <1>2, <2>2 DEF TxnInv, TxnShape
    <2> QED
      BY <2>1, <2>2
  <1> QED
    BY <1>4, <1>5, <1>6 DEF BooksInv

-----------------------------------------------------------------------------
(* Types.                                                                  *)

\* The operators on a row return one.
LEMMA OwingRow ==
    ASSUME TypeOK, NEW row \in Profile, NEW cost \in Nat,
           row.billedTo <= meter, cost <= meter - row.billedTo
    PROVE  Owing(row, cost) \in Profile
  <1>1. /\ row.pending + cost \in Nat /\ meter \in Nat
        /\ row.skipped + ((meter - row.billedTo) - cost) \in Nat
    BY DEF TypeOK, Profile
  <1> QED
    BY <1>1 DEF Owing, Row, Profile

LEMMA PaidRow ==
    ASSUME NEW t \in Txn, t.amount <= t.row.pending
    PROVE  Paid(t) \in Profile
  <1>1. t.row.pending - t.amount \in Nat /\ t.row.paid + t.amount \in Nat
    BY DEF Txn, Profile
  <1> QED
    BY <1>1 DEF Paid, Row, Txn, Profile

LEMMA UnpaidRow ==
    ASSUME NEW row \in Profile
    PROVE  Unpaid(row) \in Profile
  BY DEF Unpaid, Row, Profile

\* A rollback keeps the types and goes to a place outside a transaction.
LEMMA GiveUpType ==
    ASSUME TypeOK, NEW p \in Parties, GiveUp(p)
    PROVE  \E next \in {"idle", "lock"} :
             /\ pc' = [pc EXCEPT ![p] = next]
             /\ next = "lock" => p = Cron
             /\ attempt' \in 1..MaxAttempts /\ calls' = calls
  <1>1. CASE Again(p)
    <2>1. attempt' \in 1..MaxAttempts
      BY <1>1, CreditAssumption DEF GiveUp, Again, TypeOK
    <2> QED
      BY <1>1, <2>1 DEF GiveUp, Goto, Again
  <1>2. CASE ~ Again(p)
    BY <1>2 DEF GiveUp, Goto, TypeOK
  <1> QED
    BY <1>1, <1>2

\* Changing one party's place and transaction keeps the types.
LEMMA PcType ==
    ASSUME TypeOK, NEW p \in Parties, NEW next \in Holding \cup {"idle", "lock"},
           pc' = [pc EXCEPT ![p] = next]
    PROVE  pc' \in [Parties -> Holding \cup {"idle", "lock"}]
  BY DEF TypeOK

LEMMA TxnType ==
    ASSUME TypeOK, NEW p \in Parties, NEW t \in Txn, Set(p, t)
    PROVE  /\ txn' \in [Parties -> Txn] /\ txn'[p] = t
           /\ \A q \in Parties : q # p => txn'[q] = txn[q]
  BY DEF TypeOK, Set

-----------------------------------------------------------------------------
(* The steps of a sync.                                                    *)

LEMMA CostStep ==
    ASSUME BillingInv, NEW p \in Parties, Cost(p) PROVE BillingInv'
  <1> DEFINE row == txn[p].row
             cost == IF recent THEN 0 ELSE meter - row.billedTo
             owed == Owing(row, cost)
             kept == IF p = Cron THEN owed ELSE Unpaid(owed)
  <1>1. TypeOK /\ pc[p] = "cost"
    BY DEF BillingInv, Cost
  <1>2. row \in Profile /\ row = profile /\ Balanced(row) /\ row.billedTo <= meter
        /\ row.paid <= charged /\ (p # Cron => ~ row.canCreate)
        /\ (row.canCreate <=> row.pending = 0)
    BY <1>1 DEF BillingInv, TypeOK, Txn, TxnInv, TxnShape, AccessPaid, Holding
  <1>3. cost \in Nat /\ cost <= meter - row.billedTo
    BY <1>1, <1>2 DEF TypeOK, Profile
  <1>4. owed \in Profile /\ kept \in Profile
    BY <1>1, <1>2, <1>3, OwingRow, UnpaidRow
  <1>5. /\ owed.pending = row.pending + cost /\ owed.canCreate = row.canCreate
        /\ Balanced(owed) /\ owed.billedTo = meter /\ owed.paid = row.paid
    BY <1>1, <1>2, <1>3 DEF Owing, Row, Balanced, TypeOK, Profile
  <1> HIDE DEF row, cost, owed
  <1>6. UNCHANGED <<books, profileLock, outside, attempt, calls, faults>>
    BY DEF Cost
  <1>9. /\ UNCHANGED <<profile, profileLock>> /\ meter' = meter /\ charged' >= charged
        /\ pc[p] \in Holding
    BY <1>1, <1>6 DEF books, outside, TypeOK, Holding
  <1>7. CASE owed.pending = 0
    <2>1. Set(p, Opened(kept)) /\ pc' = [pc EXCEPT ![p] = "save"]
      BY <1>7 DEF Cost, Goto, row, cost, owed, kept
    <2>2. txn' \in [Parties -> Txn] /\ txn'[p].row = kept
          /\ \A q \in Parties : q # p => txn'[q] = txn[q]
      BY <1>1, <1>4, <2>1, TxnType, OpenedShape
    <2>3. pc'[p] = "save" /\ pc' \in [Parties -> Holding \cup {"idle", "lock"}]
      BY <1>1, <2>1, PcType DEF TypeOK, Holding
    <2>4. TypeOK'
      BY <1>1, <1>6, <2>2, <2>3 DEF TypeOK, books, outside
    <2>5. p = Cron /\ kept = owed /\ owed.canCreate
      BY <1>2, <1>3, <1>5, <1>7, CreditAssumption DEF Profile, Parties
    <2>6. TxnShape(p)'
      BY <1>1, <1>2, <1>5, <1>6, <1>7, <2>2, <2>3, <2>5
         DEF TxnShape, Holding, books, outside, Balanced, TypeOK
    <2> QED
      BY <1>9, <2>1, <2>2, <2>4, <2>6, InsidePart DEF Holding
  <1>8. CASE owed.pending # 0
    <2>1. Set(p, Opened(owed)) /\ pc' = [pc EXCEPT ![p] = "balance"]
      BY <1>8 DEF Cost, Goto, row, cost, owed
    <2>2. txn' \in [Parties -> Txn] /\ txn'[p].row = owed
          /\ \A q \in Parties : q # p => txn'[q] = txn[q]
      BY <1>1, <1>4, <2>1, TxnType, OpenedShape
    <2>3. pc'[p] = "balance" /\ pc' \in [Parties -> Holding \cup {"idle", "lock"}]
      BY <1>1, <2>1, PcType DEF TypeOK, Holding
    <2>4. TypeOK'
      BY <1>1, <1>6, <2>2, <2>3 DEF TypeOK, books, outside
    <2>5. TxnShape(p)'
      BY <1>1, <1>2, <1>4, <1>5, <1>6, <1>8, <2>2, <2>3
         DEF TxnShape, Holding, books, outside, Balanced, TypeOK, Profile
    <2> QED
      BY <1>9, <2>1, <2>2, <2>4, <2>5, InsidePart DEF Holding
  <1> QED
    BY <1>7, <1>8

\* What Unpaid leaves of a row that owes something.
LEMMA UnpaidShape ==
    ASSUME NEW row \in Profile, Balanced(row), row.pending > 0
    PROVE  /\ Balanced(Unpaid(row)) /\ ~ Unpaid(row).canCreate
           /\ Unpaid(row).pending = row.pending /\ Unpaid(row).paid = row.paid
           /\ Unpaid(row).billedTo = row.billedTo
  BY DEF Unpaid, Row, Balanced, Profile

\* A step that ends in "save" with the cost owed and the right gone.
LEMMA UnpaidStep ==
    ASSUME BillingInv, TypeOK', NEW p \in Parties, pc[p] \in {"balance", "deduct"},
           NEW t \in Txn, t.row = Unpaid(txn[p].row), Set(p, t), Goto(p, "save"),
           UNCHANGED <<profile, profileLock, meter>>, charged' >= charged
    PROVE  BillingInv'
  <1>1. TypeOK /\ txn[p].row \in Profile /\ TxnShape(p)
    BY DEF BillingInv, TypeOK, Txn, TxnInv
  <1>2. \A q \in Parties : q # p => txn'[q] = txn[q]
    BY <1>1, TxnType
  <1>3. txn'[p].row = Unpaid(txn[p].row) /\ pc'[p] = "save"
    BY <1>1, TxnType DEF TypeOK, Goto
  <1>4. TxnShape(p)'
    BY <1>1, <1>3, UnpaidShape DEF TxnShape, TypeOK, Profile, Holding, Balanced
  <1> QED
    BY <1>1, <1>2, <1>4, InsidePart DEF Goto, Holding, TypeOK

LEMMA FaultType ==
    ASSUME TypeOK, Fault PROVE faults' \in 0..MaxFaults
  BY CreditAssumption DEF TypeOK, Fault

LEMMA GpuTypes ==
    ASSUME TypeOK
    PROVE  /\ \A S \in SUBSET Gpus : Stopped(S) \in [Gpus -> GpuStates]
           /\ StopGpus => gpu' \in [Gpus -> GpuStates] /\ faults' \in 0..MaxFaults
           /\ \A g \in Gpus, from \in SUBSET GpuStates, to \in GpuStates :
                Move(g, from, to) => gpu' \in [Gpus -> GpuStates]
  <1>1. \A S \in SUBSET Gpus : Stopped(S) \in [Gpus -> GpuStates]
    BY DEF TypeOK, Stopped, GpuStates
  <1>2. StopGpus => gpu' \in [Gpus -> GpuStates] /\ faults' \in 0..MaxFaults
    BY <1>1, FaultType DEF StopGpus, TypeOK
  <1> QED
    BY <1>1, <1>2 DEF TypeOK, Move

\* A transaction ends, with or without a commit.
LEMMA EndStep ==
    ASSUME BillingInv, NEW p \in Parties, pc[p] \in Holding,
           NEW next \in {"idle", "lock"}, pc' = [pc EXCEPT ![p] = next],
           next = "lock" => p = Cron,
           Close(p), recent' \in BOOLEAN, gpu' \in [Gpus -> GpuStates],
           UNCHANGED <<meter, bought, account, charged>>,
           attempt' \in 1..MaxAttempts, calls' = calls, faults' \in 0..MaxFaults,
           \/ UNCHANGED profile
           \/ pc[p] \in {"save", "grant"} /\ profile' = txn[p].row
    PROVE  BillingInv'
  <1>1. TypeOK
    BY DEF BillingInv
  <1>2. txn' \in [Parties -> Txn] /\ profileLock' = NoOne
    BY <1>1, TxnType, NoTxnShape DEF Close
  <1>3. pc' \in [Parties -> Holding \cup {"idle", "lock"}]
    BY <1>1, PcType
  <1>4. profile' \in Profile
    BY <1>1 DEF TypeOK, Txn
  <1>5. TypeOK'
    BY <1>1, <1>2, <1>3, <1>4 DEF TypeOK
  <1>6. meter' = meter /\ charged' = charged
    OBVIOUS
  <1> QED
    BY <1>5, <1>6, ClosePart

\* The rollback of a failed attempt or request; a COMMIT may have happened.
LEMMA GiveUpStep ==
    ASSUME BillingInv, NEW p \in Parties, pc[p] \in Holding, Fault,
           GiveUp(p), Close(p), UNCHANGED outside,
           UNCHANGED books \/ (pc[p] = "save" /\ Commit(p))
    PROVE  BillingInv'
  <1>1. TypeOK
    BY DEF BillingInv
  <1>2. PICK next \in {"idle", "lock"} :
          /\ pc' = [pc EXCEPT ![p] = next] /\ (next = "lock" => p = Cron)
          /\ attempt' \in 1..MaxAttempts /\ calls' = calls
    BY <1>1, GiveUpType
  <1>3. recent' \in BOOLEAN /\ gpu' \in [Gpus -> GpuStates] /\ faults' \in 0..MaxFaults
    BY <1>1, FaultType DEF books, outside, Commit, TypeOK
  <1>4. UNCHANGED profile \/ (pc[p] \in {"save", "grant"} /\ profile' = txn[p].row)
    BY DEF books, Commit
  <1> QED
    BY <1>2, <1>3, <1>4, EndStep DEF outside

LEMMA CostFailsStep ==
    ASSUME BillingInv, NEW p \in Parties, CostFails(p) PROVE BillingInv'
  BY GiveUpStep DEF CostFails, Holding

LEMMA SaveFailsStep ==
    ASSUME BillingInv, NEW p \in Parties, SaveFails(p) PROVE BillingInv'
  BY GiveUpStep DEF SaveFails, Holding

LEMMA BalanceFailsStep ==
    ASSUME BillingInv, NEW p \in Parties, BalanceFails(p) PROVE BillingInv'
  <1>1. TypeOK /\ pc[p] = "balance" /\ txn[p].row \in Profile
    BY DEF BillingInv, BalanceFails, TypeOK, Txn
  <1>2. CASE p = Cron
    <2> DEFINE t == Opened(Unpaid(txn[p].row))
    <2>1. t \in Txn /\ t.row = Unpaid(txn[p].row)
      BY <1>1, UnpaidRow, OpenedShape
    <2>2. Set(p, t) /\ Goto(p, "save") /\ UNCHANGED <<books, profileLock, outside, attempt, calls>>
      BY <1>2 DEF BalanceFails
    <2>3. txn' \in [Parties -> Txn]
      BY <1>1, <2>1, <2>2, TxnType
    <2>4. pc' \in [Parties -> Holding \cup {"idle", "lock"}]
      BY <1>1, <2>2, PcType DEF Goto, Holding
    <2>5. TypeOK'
      BY <1>1, <2>2, <2>3, <2>4, FaultType DEF TypeOK, BalanceFails, books, outside
    <2>6. UNCHANGED <<profile, profileLock, meter>> /\ charged' >= charged
      BY <1>1, <2>2 DEF books, outside, TypeOK
    <2> HIDE DEF t
    <2> QED
      BY <1>1, <2>1, <2>2, <2>5, <2>6, UnpaidStep
  <1>3. CASE p # Cron
    BY <1>1, <1>3, GiveUpStep DEF BalanceFails, Holding
  <1> QED
    BY <1>2, <1>3

LEMMA BalanceStep ==
    ASSUME BillingInv, NEW p \in Parties, Balance(p) PROVE BillingInv'
  <1> DEFINE row == txn[p].row
             short == Short(row.pending)
  <1>1. TypeOK /\ pc[p] = "balance" /\ row \in Profile /\ TxnShape(p)
    BY DEF BillingInv, Balance, TypeOK, Txn, TxnInv
  <1>2. UNCHANGED <<profile, recent, profileLock, meter, bought, account, charged, attempt>>
        /\ calls' \in 1..MaxCalls
    BY <1>1, CreditAssumption DEF Balance, books, TypeOK
  <1>3. gpu' \in [Gpus -> GpuStates] /\ faults' \in 0..MaxFaults
    BY <1>1, GpuTypes DEF Balance, TypeOK
  <1>4. CASE account = 0
    <2> DEFINE t == Opened(Unpaid(row))
    <2>1. t \in Txn /\ t.row = Unpaid(row)
      BY <1>1, UnpaidRow, OpenedShape
    <2>2. Set(p, t) /\ Goto(p, "save")
      BY <1>4 DEF Balance
    <2>3. txn' \in [Parties -> Txn] /\ pc' \in [Parties -> Holding \cup {"idle", "lock"}]
      BY <1>1, <2>1, <2>2, TxnType, PcType DEF Goto, Holding
    <2>4. TypeOK'
      BY <1>1, <1>2, <1>3, <2>3 DEF TypeOK
    <2>5. charged' >= charged
      BY <1>1, <1>2 DEF TypeOK
    <2> HIDE DEF t
    <2> QED
      BY <1>1, <1>2, <2>1, <2>2, <2>4, <2>5, UnpaidStep
  <1>5. CASE account # 0
    <2> DEFINE t == [row |-> row, short |-> short,
                     amount |-> IF short THEN account ELSE row.pending]
    <2>1. t \in Txn /\ t.row = row
          /\ (IF t.short THEN t.amount < row.pending ELSE t.amount = row.pending)
      <3>1. CASE account < row.pending
        <4>1. t = [row |-> row, short |-> TRUE, amount |-> account]
          BY <3>1 DEF Short
        <4>2. account \in Nat /\ row \in Profile
          BY <1>1 DEF TypeOK
        <4> HIDE DEF t, row
        <4>3. t \in Txn
          BY <4>1, <4>2 DEF Txn
        <4>4. t.row = row /\ t.amount = account /\ t.short
          BY <4>1
        <4> QED
          BY <3>1, <4>3, <4>4
      <3>2. CASE ~ (account < row.pending)
        <4>0. short = FALSE
          BY <1>1, <3>2, SMT DEF Short, TypeOK, Profile
        <4>1. t = [row |-> row, short |-> FALSE, amount |-> row.pending]
          BY <4>0, Zenon
        <4>2. row \in Profile /\ row.pending \in Nat
          BY <1>1 DEF Profile
        <4> HIDE DEF t, row
        <4>3. t \in Txn
          BY <4>1, <4>2 DEF Txn
        <4>4. t.row = row /\ t.amount = row.pending /\ ~ t.short
          BY <4>1
        <4> QED
          BY <4>3, <4>4
      <3> QED
        BY <3>1, <3>2
    <2>2. Set(p, t) /\ pc' = [pc EXCEPT ![p] = "deduct"]
      BY <1>5 DEF Balance, Goto
    <2> HIDE DEF t
    <2>3. txn' \in [Parties -> Txn] /\ pc' \in [Parties -> Holding \cup {"idle", "lock"}]
          /\ txn'[p] = t /\ (\A q \in Parties : q # p => txn'[q] = txn[q])
      BY <1>1, <2>1, <2>2, TxnType, PcType DEF Holding
    <2>4. TypeOK'
      BY <1>1, <1>2, <1>3, <2>3 DEF TypeOK
    <2>5. charged' >= charged /\ pc'[p] = "deduct"
      BY <1>1, <1>2, <2>2 DEF TypeOK
    <2>6. TxnShape(p)'
      BY <1>1, <1>2, <2>1, <2>3, <2>5 DEF TxnShape, Holding, Balanced
    <2>7. pc[p] \in Holding /\ "deduct" \in Holding
      BY <1>1 DEF Holding
    <2> QED
      BY <1>2, <2>2, <2>3, <2>4, <2>5, <2>6, <2>7, InsidePart
  <1> QED
    BY <1>4, <1>5

LEMMA DeductStep ==
    ASSUME BillingInv, NEW p \in Parties, Deduct(p) PROVE BillingInv'
  <1> DEFINE t == txn[p]
             t2 == [txn[p] EXCEPT !.row = Paid(txn[p])]
  <1>1. TypeOK /\ pc[p] = "deduct" /\ t \in Txn /\ TxnShape(p)
    BY DEF BillingInv, Deduct, TypeOK, TxnInv
  <1>2. /\ t.amount <= t.row.pending /\ t.amount <= account
        /\ t.amount \in Nat /\ t.row \in Profile
    BY <1>1 DEF TxnShape, Txn, Profile, Deduct, Take
  <1>3. Paid(t) \in Profile
    BY <1>1, <1>2, PaidRow
  <1>4. t2 \in Txn /\ t2.row = Paid(t)
    BY <1>1, <1>3 DEF Txn
  <1>5. /\ Set(p, t2) /\ pc' = [pc EXCEPT ![p] = "save"]
        /\ UNCHANGED <<profile, recent, profileLock, gpu, meter, bought, attempt, calls, faults>>
        /\ account' = account - t.amount /\ charged' = charged + t.amount
    BY DEF Deduct, Take, Goto, books
  <1>6. account' \in Nat /\ charged' \in Nat /\ charged' >= charged
    BY <1>1, <1>2, <1>5 DEF TypeOK
  <1>7. /\ txn' \in [Parties -> Txn] /\ txn'[p].row = Paid(t)
        /\ \A q \in Parties : q # p => txn'[q] = txn[q]
        /\ pc' \in [Parties -> Holding \cup {"idle", "lock"}] /\ pc'[p] = "save"
    <2> HIDE DEF t2
    <2> QED
      BY <1>1, <1>4, <1>5, TxnType, PcType DEF Holding, TypeOK
  <1>8. TypeOK'
    BY <1>1, <1>5, <1>6, <1>7 DEF TypeOK
  <1>9. /\ Balanced(Paid(t)) /\ Paid(t).billedTo = t.row.billedTo
        /\ Paid(t).paid <= charged + t.amount
        /\ (Paid(t).canCreate <=> Paid(t).pending = 0)
    <2>1. /\ Paid(t).paid = t.row.paid + t.amount
          /\ Paid(t).pending = t.row.pending - t.amount
          /\ Paid(t).skipped = t.row.skipped /\ Paid(t).billedTo = t.row.billedTo
          /\ (Paid(t).canCreate <=> ~ t.short)
      BY DEF Paid, Row
    <2>2. Balanced(t.row) /\ t.row.paid <= charged
      BY <1>1 DEF TxnShape, Holding
    <2>3. Balanced(Paid(t)) /\ Paid(t).paid <= charged + t.amount
      BY <1>1, <1>2, <2>1, <2>2 DEF Balanced, Profile, TypeOK
    <2>4. ~ t.short <=> t.amount = t.row.pending
      BY <1>1, <1>2 DEF TxnShape, Profile
    <2>5. t.row.pending - t.amount = 0 <=> t.amount = t.row.pending
      BY <1>2 DEF Profile
    <2> QED
      BY <2>1, <2>3, <2>4, <2>5
  <1>10. t.row.billedTo <= meter
    BY <1>1 DEF TxnShape, Holding
  <1> HIDE DEF t, t2
  <1>11. TxnShape(p)'
    BY <1>5, <1>7, <1>9, <1>10 DEF TxnShape, Holding, Balanced
  <1> QED
    BY <1>1, <1>5, <1>6, <1>7, <1>8, <1>11, InsidePart DEF Holding

\* The error branches of a deduction.
LEMMA BookedStep ==
    ASSUME BillingInv, NEW p \in Parties, pc[p] = "deduct", Booked(p), Goto(p, "save"),
           UNCHANGED <<books, profileLock, gpu, meter, bought, attempt>>,
           account' \in Nat, charged' \in Nat, charged' >= charged,
           calls' \in 1..MaxCalls, faults' \in 0..MaxFaults
    PROVE  BillingInv'
  <1> DEFINE t == [txn[p] EXCEPT !.row = Unpaid(txn[p].row)]
  <1>1. TypeOK /\ txn[p] \in Txn /\ txn[p].row \in Profile
    BY DEF BillingInv, TypeOK, Txn
  <1>2. t \in Txn /\ t.row = Unpaid(txn[p].row)
    BY <1>1, UnpaidRow DEF Txn
  <1>3. Set(p, t)
    BY DEF Booked
  <1> HIDE DEF t
  <1>4. txn' \in [Parties -> Txn] /\ pc' \in [Parties -> Holding \cup {"idle", "lock"}]
    BY <1>1, <1>2, <1>3, TxnType, PcType DEF Goto, Holding
  <1>5. TypeOK'
    BY <1>1, <1>4 DEF TypeOK, books
  <1> QED
    BY <1>1, <1>2, <1>3, <1>5, UnpaidStep DEF books

LEMMA DeductRefusedStep ==
    ASSUME BillingInv, NEW p \in Parties, DeductRefused(p) PROVE BillingInv'
  <1>1. TypeOK
    BY DEF BillingInv
  <1>2. /\ account' \in Nat /\ charged' \in Nat /\ charged' >= charged
        /\ calls' \in 1..MaxCalls /\ faults' \in 0..MaxFaults
    BY <1>1 DEF TypeOK, DeductRefused, outside
  <1> QED
    BY <1>2, BookedStep DEF DeductRefused, outside

LEMMA DeductFailsStep ==
    ASSUME BillingInv, NEW p \in Parties, DeductFails(p) PROVE BillingInv'
  <1>1. TypeOK /\ pc[p] = "deduct" /\ txn[p].amount \in Nat
    BY DEF BillingInv, TypeOK, Txn, DeductFails
  <1>2. account' \in Nat /\ charged' \in Nat /\ charged' >= charged
    BY <1>1 DEF DeductFails, Take, TypeOK
  <1>3. faults' \in 0..MaxFaults
    BY <1>1, FaultType DEF DeductFails
  <1>4. CASE p = Cron /\ calls < MaxCalls
    <2>1. calls' \in 1..MaxCalls /\ UNCHANGED <<pc, txn>>
      BY <1>1, <1>4, CreditAssumption DEF DeductFails, TypeOK
    <2>2. UNCHANGED <<profile, recent, profileLock, gpu, meter, bought, attempt>>
      BY DEF DeductFails, books
    <2>3. TypeOK'
      BY <1>1, <1>2, <1>3, <2>1, <2>2 DEF TypeOK
    <2>4. TxnShape(p) /\ txn[p].row \in Profile
      BY <1>1 DEF BillingInv, TxnInv, TypeOK, Txn
    <2>5. TxnShape(p)'
      BY <1>1, <1>2, <2>1, <2>2, <2>4 DEF TxnShape, Balanced, Holding, TypeOK, Profile
    <2>6. pc' = [pc EXCEPT ![p] = "deduct"] /\ (\A q \in Parties : q # p => txn'[q] = txn[q])
      BY <1>1, <2>1 DEF TypeOK
    <2>7. pc[p] \in Holding /\ "deduct" \in Holding
      BY <1>1 DEF Holding
    <2> QED
      BY <1>2, <2>2, <2>3, <2>5, <2>6, <2>7, InsidePart
  <1>5. CASE ~ (p = Cron /\ calls < MaxCalls)
    <2>1. calls' \in 1..MaxCalls
      BY <1>1, <1>5 DEF DeductFails, TypeOK
    <2> QED
      BY <1>1, <1>2, <1>3, <1>5, <2>1, BookedStep DEF DeductFails
  <1> QED
    BY <1>4, <1>5

LEMMA SaveStep ==
    ASSUME BillingInv, NEW p \in Parties, Save(p) PROVE BillingInv'
  <1>1. TypeOK /\ pc[p] = "save" /\ pc[p] \in Holding /\ txn[p].row \in Profile
    BY DEF BillingInv, TypeOK, Txn, Save, Holding
  <1>2. UNCHANGED <<gpu, meter, bought, account, charged, attempt, calls, faults>>
    BY DEF Save, outside
  <1>3. /\ gpu' \in [Gpus -> GpuStates] /\ attempt' \in 1..MaxAttempts
        /\ faults' \in 0..MaxFaults /\ charged' >= charged
    BY <1>1, <1>2 DEF TypeOK
  <1>4. CASE p = Cron
    <2>1. Commit(p) /\ Close(p) /\ pc' = [pc EXCEPT ![p] = "idle"]
      BY <1>4 DEF Save, Goto
    <2>2. recent' \in BOOLEAN /\ profile' = txn[p].row
      BY <1>1, <2>1 DEF Commit, TypeOK
    <2> QED
      BY <1>1, <1>2, <1>3, <2>1, <2>2, EndStep
  <1>5. CASE p # Cron /\ txn[p].row.canCreate
    <2>1. /\ UNCHANGED <<profile, recent, profileLock, txn>>
          /\ pc' = [pc EXCEPT ![p] = "grant"] /\ pc'[p] = "grant"
      BY <1>1, <1>5 DEF Save, Goto, books, TypeOK
    <2>2. TypeOK'
      BY <1>1, <1>2, <2>1, PcType DEF TypeOK, Holding
    <2>3. TxnShape(p)
      BY DEF BillingInv, TxnInv
    <2>4. TxnShape(p)'
      BY <1>1, <1>2, <1>5, <2>1, <2>3 DEF TxnShape, Balanced, Holding
    <2> QED
      BY <1>1, <1>2, <1>3, <2>1, <2>2, <2>4, InsidePart DEF Holding
  <1>6. CASE p # Cron /\ ~ txn[p].row.canCreate
    <2>1. Close(p) /\ pc' = [pc EXCEPT ![p] = "idle"] /\ UNCHANGED <<profile, recent>>
      BY <1>6 DEF Save, Goto, books
    <2>2. recent' \in BOOLEAN
      BY <1>1, <2>1 DEF TypeOK
    <2> QED
      BY <1>1, <1>2, <1>3, <2>1, <2>2, EndStep
  <1> QED
    BY <1>4, <1>5, <1>6

LEMMA SyncPart ==
    ASSUME BillingInv, NEW p \in Parties, SyncStep(p) PROVE BillingInv'
  BY CostStep, CostFailsStep, BalanceStep, BalanceFailsStep, DeductStep,
     DeductRefusedStep, DeductFailsStep, SaveStep, SaveFailsStep DEF SyncStep

-----------------------------------------------------------------------------
(* The other steps of the programs.                                        *)

LEMMA CronBeginStep == ASSUME BillingInv, CronBegin PROVE BillingInv'
  <1>1. TypeOK /\ Cron \in Parties /\ pc[Cron] = "idle"
    BY DEF BillingInv, CronBegin, Parties
  <1>2. TypeOK'
    BY <1>1, CreditAssumption, PcType DEF CronBegin, Goto, TypeOK, books, outside
  <1> QED
    BY <1>1, <1>2, WaitPart DEF CronBegin, Goto, books, outside, Holding

LEMMA CronLockFailsStep == ASSUME BillingInv, CronLockFails PROVE BillingInv'
  <1>1. TypeOK /\ Cron \in Parties /\ pc[Cron] = "lock"
    BY DEF BillingInv, CronLockFails, Parties
  <1>2. PICK next \in {"idle", "lock"} :
          /\ pc' = [pc EXCEPT ![Cron] = next]
          /\ attempt' \in 1..MaxAttempts /\ calls' = calls
    BY <1>1, GiveUpType DEF CronLockFails
  <1>3. faults' \in 0..MaxFaults
    BY <1>1, FaultType DEF CronLockFails
  <1>4. TypeOK'
    BY <1>1, <1>2, <1>3, PcType DEF CronLockFails, TypeOK, books, outside
  <1> QED
    BY <1>1, <1>2, <1>4, WaitPart DEF CronLockFails, books, outside, Holding

\* Locking the row, by the sync and by a request.
LEMMA LockStep ==
    ASSUME BillingInv, NEW p \in Parties, pc[p] \notin Holding,
           profileLock = NoOne, profileLock' = p, Set(p, Opened(profile)),
           NEW next \in {"cost", "grant"}, pc' = [pc EXCEPT ![p] = next],
           next = "cost" /\ p # Cron => ~ profile.canCreate,
           next = "grant" => p # Cron /\ profile.canCreate,
           UNCHANGED <<books, outside, attempt, calls, faults>>
    PROVE  BillingInv'
  <1>1. TypeOK /\ profile \in Profile
    BY DEF BillingInv, TypeOK
  <1>2. Opened(profile) \in Txn
    BY <1>1, OpenedShape
  <1>3. txn' \in [Parties -> Txn] /\ pc' \in [Parties -> Holding \cup {"idle", "lock"}]
    BY <1>1, <1>2, TxnType, PcType DEF Holding
  <1>4. TypeOK'
    BY <1>1, <1>3 DEF TypeOK, books, outside
  <1> QED
    BY <1>4, OpenPart DEF books, outside

LEMMA CronLockStep == ASSUME BillingInv, CronLock PROVE BillingInv'
  BY LockStep DEF CronLock, Goto, Parties, Holding

LEMMA ApiLockStep ==
    ASSUME BillingInv, NEW r \in Requests, ApiLock(r) PROVE BillingInv'
  <1>1. r \in Parties /\ r # Cron
    BY CreditAssumption DEF Parties
  <1>2. CASE profile.canCreate
    BY <1>1, <1>2, LockStep DEF ApiLock, Goto, Holding
  <1>3. CASE ~ profile.canCreate
    BY <1>1, <1>3, LockStep DEF ApiLock, Goto, Holding
  <1> QED
    BY <1>2, <1>3

LEMMA GrantStep ==
    ASSUME BillingInv, NEW r \in Requests, Grant(r) \/ Conflict(r) \/ GrantFails(r)
    PROVE  BillingInv'
  <1>1. TypeOK /\ r \in Parties /\ pc[r] = "grant" /\ pc[r] \in Holding
    BY DEF BillingInv, Parties, Grant, Conflict, GrantFails, Holding
  <1>2. gpu' \in [Gpus -> GpuStates] /\ faults' \in 0..MaxFaults
    <2>1. CASE Grant(r)
      BY <1>1, <2>1, GpuTypes DEF Grant, GpuStates, TypeOK
    <2>2. CASE Conflict(r)
      BY <1>1, <2>2 DEF Conflict, outside, TypeOK
    <2>3. CASE GrantFails(r)
      BY <1>1, <2>3, GpuTypes, FaultType DEF GrantFails, GpuStates, TypeOK
    <2> QED
      BY <2>1, <2>2, <2>3
  <1>3. /\ Close(r) /\ pc' = [pc EXCEPT ![r] = "idle"]
        /\ UNCHANGED <<meter, bought, account, charged, attempt, calls>>
    BY DEF Grant, Conflict, GrantFails, Goto, outside
  <1>4. /\ recent' \in BOOLEAN
        /\ UNCHANGED profile \/ profile' = txn[r].row
    BY <1>1 DEF Grant, Conflict, GrantFails, Commit, books, TypeOK
  <1>5. attempt' \in 1..MaxAttempts
    BY <1>1, <1>3 DEF TypeOK
  <1> QED
    BY <1>1, <1>2, <1>3, <1>4, <1>5, EndStep

LEMMA CrashStep ==
    ASSUME BillingInv, NEW p \in Parties, Crash(p) PROVE BillingInv'
  <1>1. TypeOK /\ faults' \in 0..MaxFaults
    BY FaultType DEF BillingInv, Crash
  <1>2. CASE pc[p] \in Holding
    <2>1. profileLock = p
      BY <1>2 DEF BillingInv, LockDiscipline
    <2> QED
      BY <1>1, <1>2, <2>1, EndStep DEF Crash, Goto, Close, books, outside, TypeOK
  <1>3. CASE pc[p] \notin Holding
    <2>1. profileLock # p
      BY <1>3 DEF BillingInv, LockDiscipline
    <2>2. /\ txn' \in [Parties -> Txn] /\ pc' \in [Parties -> Holding \cup {"idle", "lock"}]
          /\ \A q \in Parties : q # p => txn'[q] = txn[q]
      BY <1>1, TxnType, PcType, NoTxnShape DEF Crash, Goto
    <2>3. TypeOK'
      BY <1>1, <2>1, <2>2 DEF Crash, books, outside, TypeOK
    <2> QED
      BY <1>3, <2>1, <2>2, <2>3, WaitPart DEF Crash, Goto, books, outside
  <1> QED
    BY <1>2, <1>3

\* The environment changes neither the row nor a transaction.
LEMMA OutsideStep ==
    ASSUME BillingInv,
           \/ Use \/ BuyCredit \/ SpendElsewhere \/ ThreeMinutes
           \/ \E g \in Gpus : WorkerStarts(g) \/ StopNotebook(g)
    PROVE  BillingInv'
  <1>1. TypeOK
    BY DEF BillingInv
  <1>2. UNCHANGED <<profile, profileLock, pc, txn, attempt, calls, faults, charged>>
    BY DEF Use, BuyCredit, SpendElsewhere, ThreeMinutes, WorkerStarts, StopNotebook,
           Inside, syncVars, outside
  <1>3. gpu' \in [Gpus -> GpuStates]
    BY <1>1, GpuTypes DEF Use, BuyCredit, SpendElsewhere, ThreeMinutes, WorkerStarts,
       StopNotebook, outside, TypeOK, GpuStates
  <1>4. recent' \in BOOLEAN /\ bought' \in Nat /\ account' \in Nat
        /\ meter' \in Nat /\ meter' >= meter
    <2>1. CASE Use
      BY <1>1, <2>1 DEF Use, TypeOK
    <2>4. CASE BuyCredit
      BY <1>1, <2>4 DEF BuyCredit, TypeOK
    <2>2. CASE SpendElsewhere
      <3>1. /\ account > 0 /\ account' = account - 1
            /\ UNCHANGED <<recent, bought, meter>>
        BY <2>2 DEF SpendElsewhere
      <3> QED
        BY <1>1, <3>1 DEF TypeOK
    <2>3. CASE ThreeMinutes
      <3>1. recent' \in BOOLEAN /\ UNCHANGED <<bought, account, meter>>
        BY <2>3 DEF ThreeMinutes, outside
      <3> QED
        BY <1>1, <3>1 DEF TypeOK
    <2>5. CASE \E g \in Gpus : WorkerStarts(g) \/ StopNotebook(g)
      <3>1. UNCHANGED <<recent, bought, account, meter>>
        BY <2>5 DEF WorkerStarts, StopNotebook
      <3> QED
        BY <1>1, <3>1 DEF TypeOK
    <2> QED
      BY <2>1, <2>2, <2>3, <2>4, <2>5
  <1>5. TypeOK'
    BY <1>1, <1>2, <1>3, <1>4 DEF TypeOK
  <1> QED
    BY <1>2, <1>4, <1>5, OutsidePart

-----------------------------------------------------------------------------
(* The theorems.                                                           *)

LEMMA BillingStep == BillingInv /\ [Next]_vars => BillingInv'
  <1> SUFFICES ASSUME BillingInv, Next \/ UNCHANGED vars PROVE BillingInv'
    OBVIOUS
  <1> QED
    BY BillingStutter, SyncPart, CrashStep, CronBeginStep, CronLockStep,
       CronLockFailsStep, ApiLockStep, GrantStep, OutsideStep DEF Next

\* The books are in order, and every open transaction will leave them so,
\* whatever calls fail and whoever crashes.
THEOREM BooksInOrder == Spec => []BillingInv
  BY BillingInit, BillingStep, PTL DEF Spec

\* Access is withheld exactly from those who owe (UPDATE profiles in both programs).
THEOREM AccessFollowsDebt == Spec => []AccessPaid
  <1>1. BillingInv => AccessPaid
    BY DEF BillingInv
  <1> QED
    BY <1>1, BooksInOrder, PTL

\* Every unit of cost up to the last sync is paid, owed or skipped, exactly once.
THEOREM NoUnitLost == Spec => []Ledger
  <1>1. BillingInv => Ledger
    BY DEF BillingInv
  <1> QED
    BY <1>1, BooksInOrder, PTL

\* The row never claims a payment the AAA server did not make.
THEOREM PaymentsBacked == Spec => []PaidIsBacked
  <1>1. BillingInv => PaidIsBacked
    BY DEF BillingInv
  <1> QED
    BY <1>1, BooksInOrder, PTL

-----------------------------------------------------------------------------
(* What the server takes is booked.                                        *)

\* The ways a user may come to pay twice for a unit.
Excused == faults' < faults \/ \E r \in Requests : profileLock = r /\ profileLock' = NoOne

LEMMA FaultExcused == TypeOK /\ Fault => Excused
  BY DEF TypeOK, Fault, Excused

\* A step of the holder that leaves charged minus paid as it is.
LEMMA HolderBooks ==
    ASSUME BillingInv, NEW p \in Parties, pc[p] \in Holding,
           profileLock' = profileLock,
           charged' - txn'[p].row.paid = charged - txn[p].row.paid
    PROVE  Unbooked' = Unbooked
  <1>1. profileLock = p /\ p # NoOne
    BY CreditAssumption DEF BillingInv, LockDiscipline
  <1> QED
    BY <1>1 DEF Unbooked

\* The first transaction row is a copy of the committed one.
LEMMA OpenBooks ==
    ASSUME BillingInv, NEW p \in Parties, profileLock = NoOne, profileLock' = p,
           Set(p, Opened(profile)), charged' = charged
    PROVE  Unbooked' = Unbooked
  <1>1. TypeOK /\ p # NoOne /\ Opened(profile) \in Txn /\ Opened(profile).row = profile
    BY CreditAssumption, OpenedShape DEF BillingInv, TypeOK
  <1>2. txn'[p].row = profile
    BY <1>1, TxnType
  <1> QED
    BY <1>1, <1>2 DEF Unbooked

\* Before a deduction the sync changes what is owed, not what is paid.
LEMMA UnpaidBooks ==
    ASSUME BillingInv, NEW p \in Parties, pc[p] \in Holding,
           NEW t \in Txn, Set(p, t), t.row.paid = txn[p].row.paid,
           profileLock' = profileLock, charged' = charged
    PROVE  Unbooked' = Unbooked
  <1>1. txn'[p] = t
    BY TxnType DEF BillingInv
  <1> QED
    BY <1>1, HolderBooks

LEMMA CostBooks ==
    ASSUME BillingInv, NEW p \in Parties, Cost(p) PROVE Unbooked' = Unbooked
  <1> DEFINE row == txn[p].row
             cost == IF recent THEN 0 ELSE meter - row.billedTo
             owed == Owing(row, cost)
             kept == IF p = Cron THEN owed ELSE Unpaid(owed)
  <1>1. TypeOK /\ pc[p] \in Holding /\ row \in Profile /\ row.billedTo <= meter
    BY DEF BillingInv, Cost, TypeOK, Txn, TxnInv, TxnShape, Holding
  <1>2. cost \in Nat /\ cost <= meter - row.billedTo
    BY <1>1 DEF TypeOK, Profile
  <1>3. owed \in Profile /\ kept \in Profile
    BY <1>1, <1>2, OwingRow, UnpaidRow
  <1>4. owed.paid = row.paid /\ kept.paid = row.paid
    BY DEF Owing, Unpaid, Row
  <1>5. Set(p, Opened(kept)) \/ Set(p, Opened(owed))
    BY DEF Cost
  <1>6. charged' = charged /\ profileLock' = profileLock
    BY DEF Cost, outside
  <1> HIDE DEF row, cost, owed, kept
  <1>7. /\ Opened(kept) \in Txn /\ Opened(kept).row.paid = txn[p].row.paid
        /\ Opened(owed) \in Txn /\ Opened(owed).row.paid = txn[p].row.paid
    BY <1>3, <1>4, OpenedShape DEF row
  <1> QED
    BY <1>1, <1>5, <1>6, <1>7, UnpaidBooks

LEMMA BalanceBooks ==
    ASSUME BillingInv, NEW p \in Parties, Balance(p) PROVE Unbooked' = Unbooked
  <1> DEFINE row == txn[p].row
             short == Short(row.pending)
             t == [row |-> row, short |-> short,
                   amount |-> IF short THEN account ELSE row.pending]
  <1>1. TypeOK /\ pc[p] \in Holding /\ row \in Profile
    BY DEF BillingInv, Balance, TypeOK, Txn, Holding
  <1>2. profileLock' = profileLock /\ charged' = charged
    BY DEF Balance
  <1>3. \/ Set(p, Opened(Unpaid(row)))
        \/ Set(p, t)
    BY DEF Balance
  <1>4. Opened(Unpaid(row)).row.paid = row.paid /\ t.row.paid = row.paid
    BY DEF Opened, Unpaid, Row
  <1>5. p \in DOMAIN txn
    BY <1>1 DEF TypeOK
  <1>6. txn'[p].row.paid = txn[p].row.paid
    BY <1>3, <1>4, <1>5 DEF Set
  <1> HIDE DEF row, short, t
  <1> QED
    BY <1>1, <1>2, <1>6, HolderBooks

LEMMA DeductBooks ==
    ASSUME BillingInv, NEW p \in Parties, Deduct(p) PROVE Unbooked' = Unbooked
  <1>1. /\ TypeOK /\ pc[p] \in Holding /\ txn[p] \in Txn
        /\ txn[p].row.paid \in Nat /\ txn[p].amount \in Nat
    BY DEF BillingInv, Deduct, TypeOK, Txn, Profile, Holding
  <1>2. txn'[p].row = Paid(txn[p])
    BY <1>1 DEF Deduct, Set, TypeOK, Txn
  <1>3. Paid(txn[p]).paid = txn[p].row.paid + txn[p].amount
    BY DEF Paid, Row
  <1>4. charged' = charged + txn[p].amount /\ profileLock' = profileLock
    BY DEF Deduct, Take
  <1>5. charged' - txn'[p].row.paid = charged - txn[p].row.paid
    BY <1>1, <1>2, <1>3, <1>4 DEF TypeOK
  <1> QED
    BY <1>1, <1>4, <1>5, HolderBooks

LEMMA DeductRefusedBooks ==
    ASSUME BillingInv, NEW p \in Parties, DeductRefused(p) PROVE Unbooked' = Unbooked
  <1>1. TypeOK /\ pc[p] \in Holding /\ txn[p] \in Txn
    BY DEF BillingInv, DeductRefused, TypeOK, Holding
  <1>2. txn'[p].row = Unpaid(txn[p].row)
    BY <1>1 DEF DeductRefused, Booked, Set, TypeOK, Txn
  <1>3. Unpaid(txn[p].row).paid = txn[p].row.paid
    BY DEF Unpaid, Row
  <1>4. charged' = charged /\ profileLock' = profileLock
    BY DEF DeductRefused, outside
  <1> QED
    BY <1>1, <1>2, <1>3, <1>4, HolderBooks

\* The sync commits what it booked; a request keeps its transaction or rolls back.
LEMMA SaveBooks ==
    ASSUME BillingInv, NEW p \in Parties, Save(p) PROVE Unbooked' = Unbooked \/ Excused
  <1>1. TypeOK /\ pc[p] \in Holding /\ profileLock = p /\ p # NoOne /\ charged' = charged
    BY CreditAssumption DEF BillingInv, LockDiscipline, Save, Holding, outside
  <1>2. CASE p = Cron
    BY <1>1, <1>2 DEF Save, Commit, Close, Unbooked
  <1>3. CASE p # Cron /\ txn[p].row.canCreate
    BY <1>1, <1>3, HolderBooks DEF Save
  <1>4. CASE p # Cron /\ ~ txn[p].row.canCreate
    BY <1>1, <1>4 DEF Save, Close, Excused, Parties
  <1> QED
    BY <1>2, <1>3, <1>4

LEMMA BooksStep ==
    ASSUME BillingInv, [Next]_vars PROVE Unbooked' = Unbooked \/ Excused
  <1>1. TypeOK
    BY DEF BillingInv
  <1>2. CASE UNCHANGED vars
    BY <1>2 DEF vars, Unbooked
  <1>3. CASE CronBegin
    BY <1>3 DEF CronBegin, books, outside, Unbooked
  <1>4. CASE CronLock
    BY <1>4, OpenBooks DEF CronLock, Parties, outside
  <1>5. CASE CronLockFails
    BY <1>1, <1>5, FaultExcused DEF CronLockFails
  <1>6. ASSUME NEW p \in Parties, SyncStep(p) PROVE Unbooked' = Unbooked \/ Excused
    <2>1. CASE CostFails(p) \/ BalanceFails(p) \/ DeductFails(p) \/ SaveFails(p)
      BY <1>1, <2>1, FaultExcused DEF CostFails, BalanceFails, DeductFails, SaveFails
    <2> QED
      BY <1>6, <2>1, CostBooks, BalanceBooks, DeductBooks, DeductRefusedBooks, SaveBooks
         DEF SyncStep
  <1>7. ASSUME NEW p \in Parties, Crash(p) PROVE Excused
    BY <1>1, <1>7, FaultExcused DEF Crash
  <1>8. ASSUME NEW r \in Requests, ApiLock(r) PROVE Unbooked' = Unbooked
    BY <1>8, OpenBooks DEF ApiLock, Parties, outside
  <1>9. ASSUME NEW r \in Requests, Grant(r) \/ Conflict(r) \/ GrantFails(r) PROVE Excused
    <2>1. profileLock = r
      BY <1>9 DEF BillingInv, LockDiscipline, Grant, Conflict, GrantFails, Holding, Parties
    <2> QED
      BY <1>9, <2>1 DEF Grant, Conflict, GrantFails, Close, Excused
  <1>10. CASE \/ Use \/ BuyCredit \/ SpendElsewhere \/ ThreeMinutes
              \/ \E g \in Gpus : WorkerStarts(g) \/ StopNotebook(g)
    <2>1. UNCHANGED <<profile, profileLock, txn, charged>>
      BY <1>10 DEF Use, BuyCredit, SpendElsewhere, ThreeMinutes, WorkerStarts,
         StopNotebook, Inside, syncVars, outside
    <2> QED
      BY <2>1 DEF Unbooked
  <1> QED
    BY <1>2, <1>3, <1>4, <1>5, <1>6, <1>7, <1>8, <1>9, <1>10 DEF Next

\* The sync books every unit the server takes; only a failure, or the rollback of
\* a refused request, makes the user pay twice.
THEOREM TakenIsBooked == Spec => BooksWhatItTakes
  <1>1. BillingInv /\ [Next]_vars =>
          [Unbooked' > Unbooked =>
             \/ faults' < faults
             \/ \E r \in Requests : profileLock = r /\ profileLock' = NoOne]_vars
    <2> SUFFICES ASSUME BillingInv, [Next]_vars, Unbooked' > Unbooked PROVE Excused
      BY DEF Excused
    <2>1. Unbooked \in Int
      <3>1. profile.paid \in Nat /\ charged \in Nat
        BY DEF BillingInv, TypeOK, Profile
      <3>2. profileLock # NoOne => txn[profileLock].row.paid \in Nat
        BY DEF BillingInv, TypeOK, Txn, Profile
      <3> QED
        BY <3>1, <3>2 DEF Unbooked
    <2> QED
      BY <2>1, BooksStep
  <1> QED
    BY <1>1, BooksInOrder, PTL DEF Spec, BooksWhatItTakes
=============================================================================
