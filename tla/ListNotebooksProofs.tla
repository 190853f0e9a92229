------------------------ MODULE ListNotebooksProofs ------------------------
(***************************************************************************)
(* What listNotebooks promises, for every number of notebooks, page size,  *)
(* number of permits, attempts, changes and failures: permits are neither  *)
(* lost nor given out twice; the handler waits for exactly the answers     *)
(* that are still to come; what is shown of a notebook was so while the    *)
(* request ran; and a client that goes on to the last page misses no       *)
(* notebook.                                                               *)
(***************************************************************************)
EXTENDS ListNotebooks, FiniteSetTheorems, SequenceTheorems, TLAPS

Working == {"check", "get", "send"}
Holding == {n \in Names : g[n] \in Working}

\* Each goroutine past the semaphore holds one permit.
PermitsTaken == semaphore = Cardinality(Holding)

\* The rows whose Notebooks the request asks Kubernetes for, and those of them
\* whose answers the handler does not have.
Asked(i) == i \in 1..Len(page) /\ read[page[i]] = "applied"
Missing == {i \in 1..Len(page) : Asked(i) /\ k8sResults[i] = "none"}

\* The answer of each is with its goroutine, in the channel, or collected.
TasksAsked == \A n \in Names : g[n] # "none" => n \in Range(page) /\ Asked(Index(n))
AskedOnly ==
    pc = "collect" =>
        /\ \A i \in 1..Limit : k8sResults[i] # "none" => Asked(i)
        /\ \A r \in resultChan : Asked(r.index) /\ k8sResults[r.index] = "none"
        /\ \A q, r \in resultChan : q.index = r.index => q = r
        /\ \A n \in Names : g[n] # "none" =>
             /\ k8sResults[Index(n)] = "none"
             /\ \A r \in resultChan : r.index # Index(n)

\* resultsToReceive counts those that are not collected.
Waits == pc = "collect" => left = Cardinality(Missing)

\* An answer, wherever it is now, was true of its row when it came.
Had(n, o) == State(read[n], o) \in had[n]
HadStates ==
    pc = "collect" =>
        /\ \A n \in Range(page) : StateOf(read[n], object[n]) \in had[n]
        /\ \A n \in Names : g[n] = "send" /\ answer[n] # "error" => Had(n, answer[n])
        /\ \A r \in resultChan : r.object # "error" => Had(page[r.index], r.object)
        /\ \A i \in 1..Limit : k8sResults[i] # "none" => Had(page[i], k8sResults[i])

\* Where the rows are that the client has not been shown yet.
Beyond(n, k) == \E i \in 1..Len(table) : i > k /\ table[i] = n
PassShape ==
    /\ pc = "idle" /\ offset > 0 /\ ~ dropped => \A n \in start \ got : Beyond(n, offset)
    /\ pc = "collect" => ~ complete
    /\ pc = "collect" /\ ~ dropped =>
         \A n \in start \ (got \cup Range(page)) :
             Len(page) = Limit /\ Beyond(n, offset + Limit)

ListInv ==
    /\ TypeOK /\ PermitsTaken /\ TasksAsked /\ AskedOnly /\ Waits /\ HadStates
    /\ PassShape /\ ShownWasTrue /\ NoneSkipped

-----------------------------------------------------------------------------
(* Sequences.                                                              *)

\* A row that comes in moves those after it by one.
LEMMA InsertAtSeq ==
    ASSUME NEW S, NEW s \in Seq(S), NEW i \in 1..Len(s) + 1, NEW e \in S
    PROVE  /\ InsertAt(s, i, e) \in Seq(S) /\ Len(InsertAt(s, i, e)) = Len(s) + 1
           /\ \A j \in 1..Len(s) + 1 :
                InsertAt(s, i, e)[j] = IF j < i THEN s[j] ELSE IF j = i THEN e ELSE s[j - 1]
<1>. DEFINE a == SubSeq(s, 1, i - 1)
            b == SubSeq(s, i, Len(s))
            c == a \o <<e>>
<1>1. Len(s) \in Nat /\ i \in Nat /\ \A j \in 1..Len(s) : s[j] \in S
  BY LenProperties
<1>2. a \in Seq(S) /\ Len(a) = i - 1 /\ \A j \in 1..(i - 1) : a[j] = s[j]
  <2>1. \A j \in 1..(i - 1) : s[j] \in S
    BY <1>1
  <2>2. /\ a \in Seq(S) /\ Len(a) = IF 1 <= i - 1 THEN (i - 1) - 1 + 1 ELSE 0
        /\ \A j \in 1..((i - 1) - 1 + 1) : a[j] = s[1 + j - 1]
    BY <1>1, <2>1, SubSeqProperties
  <2>. HIDE DEF a
  <2>. QED
    BY <1>1, <2>2
<1>3. /\ b \in Seq(S) /\ Len(b) = Len(s) - i + 1
      /\ \A j \in 1..(Len(s) - i + 1) : b[j] = s[i + j - 1]
  <2>1. \A j \in i..Len(s) : s[j] \in S
    BY <1>1
  <2>2. /\ b \in Seq(S) /\ Len(b) = IF i <= Len(s) THEN Len(s) - i + 1 ELSE 0
        /\ \A j \in 1..(Len(s) - i + 1) : b[j] = s[i + j - 1]
    BY <1>1, <2>1, SubSeqProperties
  <2>. HIDE DEF b
  <2>. QED
    BY <1>1, <2>2
<1>4. <<e>> \in Seq(S) /\ Len(<<e>>) = 1 /\ <<e>>[1] = e
  OBVIOUS
<1>. HIDE DEF a, b
<1>5. /\ c \in Seq(S) /\ Len(c) = i
      /\ \A j \in 1..i : c[j] = IF j < i THEN s[j] ELSE e
  BY <1>1, <1>2, <1>4, ConcatProperties
<1>. HIDE DEF c
<1>6. InsertAt(s, i, e) = c \o b
  BY DEF InsertAt, a, b, c
<1>7. /\ c \o b \in Seq(S) /\ Len(c \o b) = Len(s) + 1
      /\ \A j \in 1..Len(s) + 1 : (c \o b)[j] = IF j <= i THEN c[j] ELSE b[j - i]
  <2>1. /\ c \o b \in Seq(S) /\ Len(c \o b) = Len(c) + Len(b)
        /\ \A j \in 1..Len(c) + Len(b) :
             (c \o b)[j] = IF j <= Len(c) THEN c[j] ELSE b[j - Len(c)]
    BY <1>3, <1>5, ConcatProperties
  <2>2. Len(c) = i /\ Len(c) + Len(b) = Len(s) + 1
    BY <1>1, <1>3, <1>5
  <2>. QED
    BY <2>1, <2>2
<1>8. ASSUME NEW j \in 1..Len(s) + 1, j > i
      PROVE  b[j - i] = s[j - 1]
  <2>1. j - i \in 1..(Len(s) - i + 1) /\ i + (j - i) - 1 = j - 1
    BY <1>1, <1>8
  <2>. QED
    BY <1>3, <2>1
<1>9. ASSUME NEW j \in 1..Len(s) + 1
      PROVE  (c \o b)[j] = IF j < i THEN s[j] ELSE IF j = i THEN e ELSE s[j - 1]
  <2>1. CASE j <= i
    <3>1. j \in 1..i /\ (c \o b)[j] = c[j]
      BY <1>1, <1>7, <2>1
    <3>. QED
      BY <1>1, <1>5, <2>1, <3>1
  <2>2. CASE j > i
    BY <1>1, <1>7, <1>8, <2>2
  <2>3. j <= i \/ j > i
    BY <1>1
  <2>. QED
    BY <2>1, <2>2, <2>3
<1>. QED
  BY <1>6, <1>7, <1>9

LEMMA RemoveAtSeq ==
    ASSUME NEW S, NEW s \in Seq(S), NEW i \in 1..Len(s)
    PROVE  /\ RemoveAt(s, i) \in Seq(S) /\ Len(RemoveAt(s, i)) = Len(s) - 1
           /\ \A j \in 1..Len(s) - 1 :
                RemoveAt(s, i)[j] = IF j < i THEN s[j] ELSE s[j + 1]
<1>. DEFINE a == SubSeq(s, 1, i - 1)
            b == SubSeq(s, i + 1, Len(s))
<1>1. Len(s) \in Nat /\ i \in Nat /\ \A j \in 1..Len(s) : s[j] \in S
  BY LenProperties
<1>2. a \in Seq(S) /\ Len(a) = i - 1 /\ \A j \in 1..(i - 1) : a[j] = s[j]
  <2>1. \A j \in 1..(i - 1) : s[j] \in S
    BY <1>1
  <2>2. /\ a \in Seq(S) /\ Len(a) = IF 1 <= i - 1 THEN (i - 1) - 1 + 1 ELSE 0
        /\ \A j \in 1..((i - 1) - 1 + 1) : a[j] = s[1 + j - 1]
    BY <1>1, <2>1, SubSeqProperties
  <2>. HIDE DEF a
  <2>. QED
    BY <1>1, <2>2
<1>3. /\ b \in Seq(S) /\ Len(b) = Len(s) - i
      /\ \A j \in 1..(Len(s) - i) : b[j] = s[i + j]
  <2>1. \A j \in (i + 1)..Len(s) : s[j] \in S
    BY <1>1
  <2>2. /\ b \in Seq(S) /\ Len(b) = IF i + 1 <= Len(s) THEN Len(s) - (i + 1) + 1 ELSE 0
        /\ \A j \in 1..(Len(s) - (i + 1) + 1) : b[j] = s[(i + 1) + j - 1]
    BY <1>1, <2>1, SubSeqProperties
  <2>. HIDE DEF b
  <2>. QED
    BY <1>1, <2>2
<1>. HIDE DEF a, b
<1>4. RemoveAt(s, i) = a \o b
  BY DEF RemoveAt, a, b
<1>5. /\ a \o b \in Seq(S) /\ Len(a \o b) = Len(s) - 1
      /\ \A j \in 1..Len(s) - 1 : (a \o b)[j] = IF j <= i - 1 THEN a[j] ELSE b[j - (i - 1)]
  BY <1>1, <1>2, <1>3, ConcatProperties
<1>. QED
  BY <1>1, <1>2, <1>3, <1>4, <1>5

\* A set in some order.
LEMMA SetToSeqSeq ==
    ASSUME NEW S, IsFiniteSet(S)
    PROVE  SetToSeq(S) \in Seq(S) /\ IsInjective(SetToSeq(S))
<1>1. Cardinality(S) \in Nat /\ Bijection(1..Cardinality(S), S) # {}
  BY FS_CardinalityType DEF ExistsBijection
<1>2. \E f \in [1..Cardinality(S) -> S] : IsInjective(f)
  BY <1>1 DEF Bijection, Injection
<1>3. SetToSeq(S) \in [1..Cardinality(S) -> S] /\ IsInjective(SetToSeq(S))
  BY <1>2 DEF SetToSeq
<1>. QED
  BY <1>1, <1>3

\* The elements of a sequence.
LEMMA RangeSeq ==
    ASSUME NEW S, NEW s \in Seq(S)
    PROVE  /\ Range(s) \subseteq S
           /\ \A e : e \in Range(s) <=> \E i \in 1..Len(s) : s[i] = e
           /\ \A e : Contains(s, e) <=> e \in Range(s)
           /\ IsFiniteSet(Range(s)) /\ Cardinality(Range(s)) <= Len(s)
<1>1. Len(s) \in Nat /\ DOMAIN s = 1..Len(s) /\ s \in [1..Len(s) -> S]
  BY LenProperties
<1>2. /\ Range(s) \subseteq S
      /\ \A e : e \in Range(s) <=> \E i \in 1..Len(s) : s[i] = e
      /\ \A e : Contains(s, e) <=> e \in Range(s)
  BY <1>1 DEF Range, Contains
<1>3. s \in Surjection(1..Len(s), Range(s))
  BY <1>1 DEF Surjection, Range
<1>4. IsFiniteSet(1..Len(s)) /\ Cardinality(1..Len(s)) = Len(s)
  BY <1>1, FS_Interval
<1>. QED
  BY <1>2, <1>3, <1>4, FS_Surjection

-----------------------------------------------------------------------------
(* The page and the states.                                                *)

LEMMA StateType ==
    ASSUME NEW e \in Events, NEW o \in Objects
    PROVE  State(e, o) \in States /\ StateOf(e, o) \in States
  BY DEF State, StateOf, States, Events, Objects

\* The rows after the offset are on the page or, if it is full, beyond it.
Rows == SubSeq(table, offset + 1, Upto(offset + Limit))

LEMMA PageSeq ==
    ASSUME table \in Seq(Names), offset \in Nat
    PROVE  /\ Rows \in Seq(Names) /\ Len(Rows) <= Limit
           /\ \A i \in 1..Len(table) :
                i > offset =>
                    \/ table[i] \in Range(Rows)
                    \/ Len(Rows) = Limit /\ i > offset + Limit
<1>1. Len(table) \in Nat /\ \A i \in 1..Len(table) : table[i] \in Names
  BY LenProperties
<1>. DEFINE last == Upto(offset + Limit)
<1>2. /\ last \in Nat /\ last <= Len(table) /\ last <= offset + Limit
      /\ last = Len(table) \/ last = offset + Limit
  BY <1>1, ListAssumption DEF Upto
<1>. HIDE DEF last
<1>3. Rows = SubSeq(table, offset + 1, last)
  BY DEF last, Rows
<1>4. \A i \in (offset + 1)..last : table[i] \in Names
  BY <1>1, <1>2
<1>5. /\ Rows \in Seq(Names) /\ Len(Rows) = IF offset + 1 <= last THEN last - (offset + 1) + 1 ELSE 0
      /\ \A i \in 1..(last - (offset + 1) + 1) : Rows[i] = table[(offset + 1) + i - 1]
  BY <1>2, <1>3, <1>4, SubSeqProperties
<1>6. Len(Rows) \in Nat /\ Len(Rows) <= Limit
  <2>1. Limit \in Nat
    BY ListAssumption
  <2>2. CASE offset + 1 <= last
    <3>1. Len(Rows) = last - (offset + 1) + 1
      BY <1>5, <2>2
    <3>. QED
      BY <1>2, <2>1, <2>2, <3>1
  <2>3. CASE ~ (offset + 1 <= last)
    <3>1. Len(Rows) = 0
      BY <1>5, <2>3
    <3>. QED
      BY <2>1, <3>1
  <2>. QED
    BY <2>2, <2>3
<1>7. ASSUME NEW i \in 1..Len(table), i > offset
      PROVE  table[i] \in Range(Rows) \/ (Len(Rows) = Limit /\ i > offset + Limit)
  <2>1. CASE i <= last
    <3>1. i - offset \in 1..Len(Rows)
      BY <1>1, <1>2, <1>5, <1>7, <2>1
    <3>2. Rows[i - offset] = table[i]
      <4>1. i - offset \in 1..(last - (offset + 1) + 1) /\ (offset + 1) + (i - offset) - 1 = i
        BY <1>1, <1>2, <1>7, <2>1
      <4>. QED
        BY <1>5, <4>1
    <3>3. \E j \in 1..Len(Rows) : Rows[j] = table[i]
      BY <3>1, <3>2
    <3>. QED
      BY <1>5, <3>3, RangeSeq
  <2>2. CASE i > last
    BY <1>1, <1>2, <1>5, <1>7, <2>2, ListAssumption
  <2>3. i <= last \/ i > last
    BY <1>1, <1>2
  <2>. QED
    BY <2>1, <2>2, <2>3
<1>. QED
  BY <1>5, <1>6, <1>7

LEMMA IntervalSize ==
    ASSUME NEW n \in Nat
    PROVE  IsFiniteSet(1..n) /\ Cardinality(1..n) = n
  BY FS_Interval

\* Some of the rows of a page.
LEMMA PartOfPage ==
    ASSUME NEW p \in Seq(Names), Len(p) <= Limit, NEW A \in SUBSET (1..Len(p))
    PROVE  IsFiniteSet(A) /\ Cardinality(A) \in 0..Limit
<1>1. Len(p) \in Nat
  BY LenProperties
<1>2. IsFiniteSet(1..Len(p)) /\ Cardinality(1..Len(p)) = Len(p)
  BY <1>1, IntervalSize
<1>3. IsFiniteSet(A) /\ Cardinality(A) <= Cardinality(1..Len(p))
  BY <1>2, FS_Subset
<1>. QED
  BY <1>1, <1>2, <1>3, FS_CardinalityType, ListAssumption

LEMMA PageType ==
    ASSUME TypeOK
    PROVE  /\ Range(page) \subseteq Names /\ Range(table) \subseteq Names
           /\ \A n : Contains(page, n) <=> n \in Range(page)
           /\ \A n : Contains(table, n) <=> n \in Range(table)
           /\ Len(page) \in Nat /\ Len(page) <= Limit
           /\ \A i \in 1..Len(page) : i \in 1..Limit /\ page[i] \in Range(page)
           /\ \A i : Asked(i) => i \in 1..Len(page)
           /\ IsFiniteSet(Missing) /\ Cardinality(Missing) \in 0..Limit
<1>1. page \in Seq(Names) /\ Len(page) <= Limit /\ table \in Seq(Names)
  BY DEF TypeOK
<1>2. Len(page) \in Nat
  BY <1>1, LenProperties
<1>3. \A i \in 1..Len(page) : i \in 1..Limit
  BY <1>1, <1>2, ListAssumption
<1>4. IsFiniteSet(Missing) /\ Cardinality(Missing) \in 0..Limit
  BY <1>1, PartOfPage DEF Missing
<1>5. \A i \in 1..Len(page) : page[i] \in Range(page)
  BY <1>1, RangeSeq
<1>. QED
  BY <1>1, <1>2, <1>3, <1>4, <1>5, RangeSeq DEF Asked

\* A goroutine has the index of its row.
LEMMA IndexRight ==
    ASSUME TypeOK, NEW n \in Range(page)
    PROVE  Index(n) \in 1..Len(page) /\ page[Index(n)] = n
<1>1. \E i \in 1..Len(page) : page[i] = n
  BY RangeSeq DEF TypeOK
<1>. QED
  BY <1>1 DEF Index

LEMMA HoldingFinite == IsFiniteSet(Holding) /\ Cardinality(Holding) \in Nat
  BY ListAssumption, FS_Subset, FS_CardinalityType DEF Holding

-----------------------------------------------------------------------------
(* What a step of a goroutine changes.                                     *)

Moves(n) ==
    /\ UNCHANGED <<clientVars, handlerVars, worldVars, expired, had>>
    /\ g' \in [Names -> {"none", "wait", "check", "get", "send"}]
    /\ tries' \in [Names -> 1..MaxAttempts]
    /\ answer' \in [Names -> Objects \cup {"error"}]
    /\ faults' \in 0..MaxFaults
    /\ \A m \in Names \ {n} : g'[m] = g[m] /\ answer'[m] = answer[m]
    /\ g[n] # "none"
    /\ \/ semaphore' = semaphore /\ (g'[n] \in Working <=> g[n] \in Working)
       \/ semaphore' = semaphore + 1 /\ semaphore < Permits
          /\ g[n] \notin Working /\ g'[n] \in Working
       \/ semaphore' = semaphore - 1 /\ g[n] \in Working /\ g'[n] \notin Working
    /\ \/ resultChan' = resultChan
       \/ /\ resultChan' = resultChan \cup {[index |-> Index(n), object |-> answer[n]]}
          /\ g[n] = "send" /\ g'[n] = "none"
    /\ answer'[n] = answer[n] \/ g[n] = "get"
    /\ g'[n] = "send" =>
         g[n] = "send" \/ (g[n] = "get" /\ answer'[n] \in {"error", object[n]})

LEMMA AnswerMoves ==
    ASSUME TypeOK, NEW n \in Names, NEW a \in {"error", object[n]}, g[n] = "get",
           Answer(n, a), faults' \in 0..MaxFaults,
           UNCHANGED <<clientVars, handlerVars, worldVars, semaphore, resultChan, expired, had>>
    PROVE  Moves(n)
<1>. USE DEF TypeOK, Working
<1>1. a \in Objects \cup {"error"} /\ 1 \in 1..MaxAttempts
  BY ListAssumption
<1>2. /\ g' = [g EXCEPT ![n] = "send"] /\ tries' = [tries EXCEPT ![n] = 1]
      /\ answer' = [answer EXCEPT ![n] = a]
  BY DEF Answer, Move
<1>3. /\ g' \in [Names -> {"none", "wait", "check", "get", "send"}]
      /\ tries' \in [Names -> 1..MaxAttempts]
      /\ answer' \in [Names -> Objects \cup {"error"}]
  BY <1>1, <1>2
<1>4. /\ g'[n] = "send" /\ answer'[n] = a
      /\ \A m \in Names \ {n} : g'[m] = g[m] /\ answer'[m] = answer[m]
  BY <1>2
<1>. QED
  BY <1>3, <1>4 DEF Moves

LEMMA RetryMoves ==
    ASSUME TypeOK, NEW n \in Names, NEW a \in {"error", object[n]}, g[n] = "get",
           Retry(n, a), faults' \in 0..MaxFaults,
           UNCHANGED <<clientVars, handlerVars, worldVars, semaphore, resultChan, expired, had>>
    PROVE  Moves(n)
<1>1. CASE tries' = [tries EXCEPT ![n] = @ + 1] /\ tries[n] < MaxAttempts /\ UNCHANGED <<g, answer>>
  <2>1. tries' \in [Names -> 1..MaxAttempts]
    BY <1>1, ListAssumption DEF TypeOK
  <2>. QED
    BY <1>1, <2>1 DEF Moves, TypeOK, Working
<1>2. CASE Answer(n, a)
  BY <1>2, AnswerMoves
<1>. QED
  BY <1>1, <1>2 DEF Retry

LEMMA TaskMoves ==
    ASSUME TypeOK, NEW n \in Names, Task(n)
    PROVE  Moves(n)
<1>. USE DEF TypeOK, Working
<1>1. CASE Acquire(n)
  BY <1>1 DEF Acquire, Move, Moves
<1>2. CASE QuitWaiting(n)
  BY <1>2 DEF QuitWaiting, Move, Moves
<1>3. CASE Check(n)
  BY <1>3 DEF Check, Move, Moves
<1>4. CASE Send(n)
  BY <1>4 DEF Send, Post, Move, Moves
<1>5. CASE QuitSending(n)
  BY <1>5 DEF QuitSending, Move, Moves
<1>6. CASE Get(n)
  <2>1. CASE object[n] = "absent"
    BY <1>6, <2>1, RetryMoves DEF Get
  <2>2. CASE object[n] # "absent"
    <3>1. Answer(n, object[n]) /\ g[n] = "get" /\ faults' = faults
      BY <1>6, <2>2 DEF Get
    <3>. QED
      BY <1>6, <3>1, AnswerMoves DEF Get
  <2>. QED
    BY <2>1, <2>2
<1>7. CASE GetFails(n)
  <2>1. faults' \in 0..MaxFaults
    BY <1>7, ListAssumption DEF GetFails, Fault
  <2>. QED
    BY <1>7, <2>1, RetryMoves DEF GetFails
<1>. QED
  BY <1>1, <1>2, <1>3, <1>4, <1>5, <1>6, <1>7 DEF Task

-----------------------------------------------------------------------------
(* The steps of a goroutine keep the invariant.                            *)

\* A permit is taken on the way in and given back on every way out.
LEMMA PermitsFollow ==
    ASSUME TypeOK, PermitsTaken, NEW n \in Names, Moves(n)
    PROVE  PermitsTaken' /\ semaphore' \in 0..Permits
<1>1. /\ semaphore \in 0..Permits /\ Permits \in Nat
      /\ semaphore = Cardinality(Holding)
      /\ IsFiniteSet(Holding) /\ Cardinality(Holding) \in Nat
  BY HoldingFinite, ListAssumption DEF TypeOK, PermitsTaken
<1>2. \A m \in Names \ {n} : m \in Holding' <=> m \in Holding
  BY DEF Holding, Moves
<1>3. n \in Holding <=> g[n] \in Working
  BY DEF Holding
<1>4. n \in Holding' <=> g'[n] \in Working
  BY DEF Holding
<1>5. Holding \subseteq Names /\ Holding' \subseteq Names
  BY DEF Holding
<1>6. CASE semaphore' = semaphore /\ (g'[n] \in Working <=> g[n] \in Working)
  <2>1. Holding' = Holding
    BY <1>2, <1>3, <1>4, <1>5, <1>6
  <2>. QED
    BY <1>1, <1>6, <2>1 DEF PermitsTaken
<1>7. CASE semaphore' = semaphore + 1 /\ semaphore < Permits
           /\ g[n] \notin Working /\ g'[n] \in Working
  <2>1. Holding' = Holding \cup {n} /\ n \notin Holding
    BY <1>2, <1>3, <1>4, <1>5, <1>7
  <2>2. Cardinality(Holding') = Cardinality(Holding) + 1
    BY <1>1, <2>1, FS_AddElement
  <2>. QED
    BY <1>1, <1>7, <2>2 DEF PermitsTaken
<1>8. CASE semaphore' = semaphore - 1 /\ g[n] \in Working /\ g'[n] \notin Working
  <2>1. Holding' = Holding \ {n} /\ n \in Holding
    BY <1>2, <1>3, <1>4, <1>5, <1>8
  <2>2. Cardinality(Holding') = Cardinality(Holding) - 1
    BY <1>1, <2>1, FS_RemoveElement
  <2>3. Cardinality(Holding') \in Nat
    BY <1>1, <2>1, FS_RemoveElement, FS_CardinalityType
  <2>. QED
    BY <1>1, <1>8, <2>2, <2>3 DEF PermitsTaken
<1>. QED
  BY <1>6, <1>7, <1>8 DEF Moves

LEMMA TaskKeeps ==
    ASSUME ListInv, NEW n \in Names, Task(n)
    PROVE  ListInv'
<1>1. /\ TypeOK /\ PermitsTaken /\ TasksAsked /\ AskedOnly /\ Waits /\ HadStates
      /\ PassShape /\ ShownWasTrue /\ NoneSkipped
  BY DEF ListInv
<1>2. Moves(n)
  BY <1>1, TaskMoves
<1>3. PermitsTaken' /\ semaphore' \in 0..Permits
  BY <1>1, <1>2, PermitsFollow
<1>. DEFINE post == [index |-> Index(n), object |-> answer[n]]
<1>4. /\ UNCHANGED <<clientVars, handlerVars, worldVars, expired, had>>
      /\ \A m \in Names \ {n} : g'[m] = g[m] /\ answer'[m] = answer[m]
      /\ g[n] # "none"
      /\ \/ resultChan' = resultChan
         \/ resultChan' = resultChan \cup {post} /\ g[n] = "send" /\ g'[n] = "none"
      /\ answer'[n] = answer[n] \/ g[n] = "get"
      /\ g'[n] = "send" =>
           g[n] = "send" \/ (g[n] = "get" /\ answer'[n] \in {"error", object[n]})
  BY <1>2 DEF Moves
<1>5. /\ UNCHANGED <<offset, start, got, complete, pc, page, read, left, k8sResults, cancelled,
                     reply, shown, table, event, object, dropped, changes, expired, had>>
      /\ \A i : Asked(i)' <=> Asked(i)
      /\ \A m : Index(m)' = Index(m)
      /\ \A m, o : Had(m, o)' <=> Had(m, o)
      /\ Missing' = Missing
  BY <1>4 DEF clientVars, handlerVars, worldVars, Asked, Index, Had, Missing
<1>6. /\ \A m \in Names : g[m] # "none" =>
           /\ m \in Range(page) /\ Index(m) \in 1..Len(page) /\ page[Index(m)] = m
           /\ read[m] = "applied" /\ Asked(Index(m))
      /\ \A i \in 1..Len(page) : i \in 1..Limit
  BY <1>1, IndexRight, PageType DEF TasksAsked, Asked
<1>7. /\ post.index = Index(n) /\ post.object = answer[n] /\ Asked(post.index)
      /\ page[post.index] = n /\ post \in K8sResult
  BY <1>1, <1>4, <1>6 DEF K8sResult, TypeOK
<1>. HIDE DEF post
<1>8. TypeOK'
  <2>1. /\ g' \in [Names -> {"none", "wait", "check", "get", "send"}]
        /\ tries' \in [Names -> 1..MaxAttempts]
        /\ answer' \in [Names -> Objects \cup {"error"}]
        /\ faults' \in 0..MaxFaults
    BY <1>2 DEF Moves
  <2>2. resultChan' \subseteq K8sResult
    BY <1>1, <1>4, <1>7 DEF TypeOK
  <2>. QED
    BY <1>1, <1>3, <1>5, <2>1, <2>2 DEF TypeOK
<1>9. TasksAsked'
  <2>1. \A m \in Names : g'[m] # "none" => g[m] # "none"
    BY <1>4
  <2>. QED
    BY <1>1, <1>5, <2>1 DEF TasksAsked
<1>10. AskedOnly'
  <2>. SUFFICES ASSUME pc = "collect"
                PROVE  /\ \A i \in 1..Limit : k8sResults[i] # "none" => Asked(i)
                       /\ \A r \in resultChan' : Asked(r.index) /\ k8sResults[r.index] = "none"
                       /\ \A q, r \in resultChan' : q.index = r.index => q = r
                       /\ \A m \in Names : g'[m] # "none" =>
                            /\ k8sResults[Index(m)] = "none"
                            /\ \A r \in resultChan' : r.index # Index(m)
    BY <1>5 DEF AskedOnly
  <2>1. /\ \A i \in 1..Limit : k8sResults[i] # "none" => Asked(i)
        /\ \A r \in resultChan : Asked(r.index) /\ k8sResults[r.index] = "none"
        /\ \A q, r \in resultChan : q.index = r.index => q = r
        /\ \A m \in Names : g[m] # "none" =>
             /\ k8sResults[Index(m)] = "none"
             /\ \A r \in resultChan : r.index # Index(m)
    BY <1>1 DEF AskedOnly
  <2>2. CASE resultChan' = resultChan
    <3>1. \A m \in Names : g'[m] # "none" => g[m] # "none"
      BY <1>4
    <3>. QED
      BY <2>1, <2>2, <3>1
  <2>3. CASE resultChan' = resultChan \cup {post} /\ g'[n] = "none"
    <3>1. Asked(post.index) /\ k8sResults[post.index] = "none"
      BY <1>4, <1>7, <2>1
    <3>2. \A r \in resultChan : r.index # post.index
      BY <1>4, <1>7, <2>1
    <3>3. ASSUME NEW m \in Names, g'[m] # "none"
          PROVE  g[m] # "none" /\ post.index # Index(m)
      <4>1. m # n /\ g[m] # "none"
        BY <1>4, <2>3, <3>3
      <4>. QED
        BY <1>6, <1>7, <4>1
    <3>. QED
      BY <2>1, <2>3, <3>1, <3>2, <3>3
  <2>. QED
    BY <1>4, <2>2, <2>3
<1>11. Waits'
  BY <1>1, <1>5 DEF Waits
<1>12. HadStates'
  <2>. SUFFICES ASSUME pc = "collect"
                PROVE  /\ \A m \in Range(page) : StateOf(read[m], object[m]) \in had[m]
                       /\ \A m \in Names : g'[m] = "send" /\ answer'[m] # "error" => Had(m, answer'[m])
                       /\ \A r \in resultChan' : r.object # "error" => Had(page[r.index], r.object)
                       /\ \A i \in 1..Limit : k8sResults[i] # "none" => Had(page[i], k8sResults[i])
    BY <1>5 DEF HadStates, Had
  <2>1. /\ \A m \in Range(page) : StateOf(read[m], object[m]) \in had[m]
        /\ \A m \in Names : g[m] = "send" /\ answer[m] # "error" => Had(m, answer[m])
        /\ \A r \in resultChan : r.object # "error" => Had(page[r.index], r.object)
        /\ \A i \in 1..Limit : k8sResults[i] # "none" => Had(page[i], k8sResults[i])
    BY <1>1 DEF HadStates
  <2>2. ASSUME NEW m \in Names, g'[m] = "send", answer'[m] # "error"
        PROVE  Had(m, answer'[m])
    <3>1. CASE g[m] = "send"
      <4>1. answer'[m] = answer[m]
        BY <1>4, <3>1
      <4>. QED
        BY <2>1, <2>2, <3>1, <4>1
    <3>2. CASE g[m] # "send"
      <4>1. m = n /\ answer'[m] = object[m]
        BY <1>4, <2>2, <3>2
      <4>2. m \in Range(page) /\ read[m] = "applied"
        BY <1>4, <1>6, <4>1
      <4>3. State(read[m], answer'[m]) = StateOf(read[m], object[m])
        BY <4>1, <4>2 DEF StateOf
      <4>. QED
        BY <2>1, <4>2, <4>3 DEF Had
    <3>. QED
      BY <3>1, <3>2
  <2>3. ASSUME NEW r \in resultChan', r.object # "error"
        PROVE  Had(page[r.index], r.object)
    <3>1. CASE r \in resultChan
      BY <2>1, <2>3, <3>1
    <3>2. CASE r = post /\ g[n] = "send"
      BY <1>7, <2>1, <2>3, <3>2
    <3>. QED
      BY <1>4, <2>3, <3>1, <3>2
  <2>. QED
    BY <2>1, <2>2, <2>3
<1>13. PassShape' /\ ShownWasTrue' /\ NoneSkipped'
  BY <1>1, <1>5 DEF PassShape, ShownWasTrue, NoneSkipped, Beyond
<1>. QED
  BY <1>3, <1>8, <1>9, <1>10, <1>11, <1>12, <1>13 DEF ListInv

-----------------------------------------------------------------------------
(* The steps of the handler keep the invariant.                            *)

LEMMA ReadPageKeeps ==
    ASSUME ListInv, ReadPage
    PROVE  ListInv'
<1>. DEFINE toCheck == {i \in 1..Len(Rows) : event[Rows[i]] = "applied"}
<1>1. TypeOK /\ PassShape
  BY DEF ListInv
<1>2. table \in Seq(Names) /\ offset \in Nat
  BY <1>1 DEF TypeOK
<1>3. /\ Rows \in Seq(Names) /\ Len(Rows) <= Limit
      /\ \A i \in 1..Len(table) :
           i > offset => table[i] \in Range(Rows) \/ (Len(Rows) = Limit /\ i > offset + Limit)
  BY <1>2, PageSeq
<1>4. /\ pc' = "collect" /\ page' = Rows
      /\ read' = [n \in Names |-> IF n \in Range(Rows) THEN event[n] ELSE "pending"]
      /\ g' = [n \in Names |-> IF \E i \in toCheck : Rows[i] = n THEN "wait" ELSE "none"]
      /\ left' = Cardinality(toCheck)
      /\ had' = [n \in Names |->
                   IF n \in Range(Rows) THEN {StateOf(event[n], object[n])} ELSE {}]
      /\ k8sResults' = [i \in 1..Limit |-> "none"] /\ resultChan' = {} /\ semaphore' = 0
      /\ cancelled' = FALSE /\ expired' = FALSE
      /\ reply' = "none" /\ complete' = FALSE
      /\ shown' = [i \in 1..Limit |-> "opening"]
      /\ answer' = [n \in Names |-> "absent"]
      /\ \/ offset = 0 /\ start' = Range(table) /\ got' = {} /\ dropped' = FALSE
         \/ offset # 0 /\ UNCHANGED <<start, got, dropped>>
      /\ UNCHANGED <<table, event, object, offset, tries, changes, faults>>
  BY DEF ReadPage, Rows
<1>5. /\ Range(Rows) \subseteq Names /\ Len(Rows) \in Nat
      /\ \A n : n \in Range(Rows) <=> \E i \in 1..Len(Rows) : Rows[i] = n
      /\ IsFiniteSet(toCheck) /\ Cardinality(toCheck) \in 0..Limit
  BY <1>3, RangeSeq, PartOfPage, LenProperties
<1>6. \A i \in 1..Len(Rows) : i \in 1..Limit /\ Rows[i] \in Range(Rows) /\ Rows[i] \in Names
  BY <1>3, <1>5, ListAssumption
<1>7. \A i : Asked(i)' <=> i \in toCheck
  BY <1>4, <1>6 DEF Asked
<1>. HIDE DEF toCheck
<1>8. /\ Range(table) \subseteq Names
      /\ \A n \in Range(table) : \E i \in 1..Len(table) : table[i] = n
  BY <1>2, RangeSeq
<1>9. TypeOK'
  <2>1. /\ read' \in [Names -> Events] /\ g' \in [Names -> {"none", "wait", "check", "get", "send"}]
        /\ answer' \in [Names -> Objects \cup {"error"}] /\ shown' \in [1..Limit -> States]
        /\ k8sResults' \in [1..Limit -> Objects \cup {"none"}]
    BY <1>1, <1>4 DEF TypeOK, Events, Objects, States
  <2>2. had' \in [Names -> SUBSET States]
    BY <1>1, <1>4, StateType DEF TypeOK
  <2>3. semaphore' \in 0..Permits /\ left' \in 0..Limit
    BY <1>4, <1>5, ListAssumption
  <2>4. start' \subseteq Names /\ got' \subseteq Names /\ dropped' \in BOOLEAN
    BY <1>1, <1>4, <1>8 DEF TypeOK
  <2>5. /\ table' \in Seq(Names) /\ IsInjective(table') /\ event' \in [Names -> Events]
        /\ object' \in [Names -> Objects] /\ offset' \in Nat /\ tries' \in [Names -> 1..MaxAttempts]
        /\ changes' \in 0..MaxChanges /\ faults' \in 0..MaxFaults
    BY <1>1, <1>4 DEF TypeOK
  <2>6. page' \in Seq(Names) /\ Len(page') <= Limit
    BY <1>3, <1>4
  <2>. QED
    BY <1>4, <2>1, <2>2, <2>3, <2>4, <2>5, <2>6 DEF TypeOK
<1>10. PermitsTaken'
  <2>1. Holding' = {}
    BY <1>4 DEF Holding, Working
  <2>. QED
    BY <1>4, <2>1, FS_EmptySet DEF PermitsTaken
<1>11. TasksAsked' /\ AskedOnly' /\ Waits'
  <2>1. ASSUME NEW n \in Names, g'[n] # "none"
        PROVE  n \in Range(page') /\ Index(n)' \in toCheck
    <3>1. PICK i \in toCheck : Rows[i] = n
      BY <1>4, <2>1
    <3>2. n \in Range(page') /\ event[n] = "applied"
      BY <1>4, <1>6, <3>1 DEF toCheck
    <3>3. Index(n)' \in 1..Len(page') /\ page'[Index(n)'] = n
      BY <1>4, <1>5, <3>2 DEF Index
    <3>. QED
      BY <1>4, <3>2, <3>3 DEF toCheck
  <2>2. TasksAsked'
    BY <1>7, <2>1 DEF TasksAsked
  <2>3. \A i \in toCheck : i \in 1..Limit /\ i \in 1..Len(Rows)
    BY <1>6 DEF toCheck
  <2>4. Missing' = toCheck
    BY <1>4, <1>7, <2>3 DEF Missing
  <2>. QED
    BY <1>4, <2>1, <2>2, <2>3, <2>4 DEF AskedOnly, Waits
<1>12. HadStates'
  <2>1. \A n \in Range(Rows) : StateOf(read'[n], object'[n]) \in had'[n]
    BY <1>4, <1>5
  <2>2. \A n \in Names : g'[n] # "send"
    BY <1>4
  <2>. QED
    BY <1>4, <2>1, <2>2 DEF HadStates
<1>13. PassShape'
  <2>. SUFFICES ASSUME ~ dropped', NEW n \in start' \ (got' \cup Range(Rows))
                PROVE  Len(Rows) = Limit /\ \E i \in 1..Len(table) : i > offset + Limit /\ table[i] = n
    BY <1>4 DEF PassShape, Beyond
  <2>1. \E i \in 1..Len(table) : i > offset /\ table[i] = n
    <3>1. CASE offset = 0
      BY <1>4, <1>8, <3>1
    <3>2. CASE offset # 0
      <4>1. pc = "idle" /\ offset > 0 /\ ~ dropped /\ n \in start \ got
        BY <1>2, <1>4, <3>2 DEF ReadPage
      <4>. QED
        BY <1>1, <4>1 DEF PassShape, Beyond
    <3>. QED
      BY <3>1, <3>2
  <2>. QED
    BY <1>3, <2>1
<1>14. ShownWasTrue' /\ NoneSkipped'
  BY <1>4 DEF ShownWasTrue, NoneSkipped
<1>. QED
  BY <1>9, <1>10, <1>11, <1>12, <1>13, <1>14 DEF ListInv

\* Nothing of what the handler leaves alone needs another look.
LEMMA Refused ==
    ASSUME ListInv, pc = "collect", Refuse, left' \in 0..Limit, resultChan' \subseteq K8sResult,
           UNCHANGED <<taskVars, worldVars, expired, had, faults>>
    PROVE  ListInv'
<1>. USE DEF clientVars, taskVars, worldVars
<1>1. TypeOK /\ PermitsTaken /\ TasksAsked /\ PassShape
  BY DEF ListInv
<1>2. /\ pc' = "idle" /\ cancelled' = TRUE /\ reply' = "error" /\ offset' = 0
      /\ UNCHANGED <<page, read, k8sResults, shown, start, got, complete>>
  BY DEF Refuse
<1>3. TypeOK'
  BY <1>1, <1>2 DEF TypeOK
<1>4. PermitsTaken' /\ TasksAsked'
  BY <1>1, <1>2 DEF PermitsTaken, Holding, TasksAsked, Asked, Index
<1>5. AskedOnly' /\ Waits' /\ HadStates' /\ ShownWasTrue'
  BY <1>2 DEF AskedOnly, Waits, HadStates, ShownWasTrue
<1>6. ~ complete'
  BY <1>1, <1>2 DEF PassShape
<1>7. PassShape' /\ NoneSkipped'
  BY <1>2, <1>6 DEF PassShape, NoneSkipped
<1>. QED
  BY <1>3, <1>4, <1>5, <1>7 DEF ListInv

LEMMA CollectKeeps ==
    ASSUME ListInv, NEW result \in resultChan, Collect(result)
    PROVE  ListInv'
<1>1. /\ TypeOK /\ PermitsTaken /\ TasksAsked /\ AskedOnly /\ Waits /\ HadStates
      /\ PassShape /\ ShownWasTrue /\ NoneSkipped
  BY DEF ListInv
<1>2. /\ pc = "collect" /\ resultChan' = resultChan \ {result} /\ left' = left - 1
      /\ UNCHANGED <<taskVars, worldVars, expired, had, faults>>
  BY DEF Collect
<1>3. PICK i : i = result.index
  OBVIOUS
<1>4. PICK o : o = result.object
  OBVIOUS
<1>5. /\ \A j \in 1..Limit : k8sResults[j] # "none" => Asked(j)
      /\ \A r \in resultChan : Asked(r.index) /\ k8sResults[r.index] = "none"
      /\ \A q, r \in resultChan : q.index = r.index => q = r
      /\ \A n \in Names : g[n] # "none" =>
           /\ k8sResults[Index(n)] = "none"
           /\ \A r \in resultChan : r.index # Index(n)
  BY <1>1, <1>2 DEF AskedOnly
<1>6. /\ IsFiniteSet(Missing) /\ Cardinality(Missing) \in 0..Limit
      /\ i \in Missing /\ i \in 1..Limit /\ Asked(i) /\ o \in Objects \cup {"error"}
      /\ k8sResults \in [1..Limit -> Objects \cup {"none"}]
  BY <1>1, <1>3, <1>4, <1>5, PageType DEF Missing, TypeOK, K8sResult
<1>7. /\ Cardinality(Missing \ {i}) = Cardinality(Missing) - 1
      /\ Cardinality(Missing \ {i}) \in Nat
  BY <1>6, FS_RemoveElement, FS_CardinalityType
<1>8. left' = Cardinality(Missing \ {i}) /\ left' \in 0..Limit
  BY <1>1, <1>2, <1>6, <1>7, ListAssumption DEF Waits
<1>9. resultChan' \subseteq K8sResult
  BY <1>1, <1>2 DEF TypeOK
<1>10. CASE o = "error"
  <2>1. Refuse
    BY <1>4, <1>10 DEF Collect
  <2>. QED
    BY <1>2, <1>8, <1>9, <2>1, Refused
<1>11. CASE o # "error"
  <2>1. /\ k8sResults' = [k8sResults EXCEPT ![i] = o]
        /\ UNCHANGED <<pc, page, read, cancelled, reply, shown, offset, start, got, complete>>
        /\ UNCHANGED <<g, semaphore, tries, answer, table, event, object, dropped, changes,
                       expired, had, faults>>
    BY <1>2, <1>3, <1>4, <1>11 DEF Collect, clientVars, taskVars, worldVars
  <2>2. /\ \A j : Asked(j)' <=> Asked(j)
        /\ \A m : Index(m)' = Index(m)
        /\ \A m, x : Had(m, x)' <=> Had(m, x)
    BY <2>1 DEF Asked, Index, Had
  <2>3. /\ k8sResults' \in [1..Limit -> Objects \cup {"none"}]
        /\ k8sResults'[i] = o /\ o # "none" /\ o \in Objects
        /\ \A j : j # i => k8sResults'[j] = k8sResults[j]
    BY <1>6, <1>11, <2>1 DEF Objects
  <2>4. TypeOK'
    BY <1>1, <1>8, <1>9, <2>1, <2>3 DEF TypeOK
  <2>5. PermitsTaken' /\ TasksAsked'
    BY <1>1, <2>1, <2>2 DEF PermitsTaken, Holding, TasksAsked
  <2>6. Waits'
    <3>1. Missing' = Missing \ {i}
      BY <2>1, <2>2, <2>3 DEF Missing
    <3>. QED
      BY <1>8, <3>1 DEF Waits
  <2>7. \A r \in resultChan' : r \in resultChan /\ r.index # i
    BY <1>2, <1>3, <1>5
  <2>8. AskedOnly'
    <3>1. \A j \in 1..Limit : k8sResults'[j] # "none" => Asked(j)'
      BY <1>5, <1>6, <2>2, <2>3
    <3>2. \A r \in resultChan' : Asked(r.index)' /\ k8sResults'[r.index] = "none"
      BY <1>5, <2>2, <2>3, <2>7
    <3>3. \A m \in Names : g'[m] # "none" =>
            /\ k8sResults'[Index(m)'] = "none"
            /\ \A r \in resultChan' : r.index # Index(m)'
      BY <1>3, <1>5, <2>1, <2>2, <2>3, <2>7
    <3>4. \A q, r \in resultChan' : q.index = r.index => q = r
      BY <1>5, <2>7
    <3>. QED
      BY <3>1, <3>2, <3>3, <3>4 DEF AskedOnly
  <2>9. HadStates'
    <3>1. /\ \A n \in Range(page) : StateOf(read[n], object[n]) \in had[n]
          /\ \A n \in Names : g[n] = "send" /\ answer[n] # "error" => Had(n, answer[n])
          /\ \A r \in resultChan : r.object # "error" => Had(page[r.index], r.object)
          /\ \A j \in 1..Limit : k8sResults[j] # "none" => Had(page[j], k8sResults[j])
      BY <1>1, <1>2 DEF HadStates
    <3>2. Had(page[i], o)
      BY <1>3, <1>4, <1>11, <3>1
    <3>3. \A j \in 1..Limit : k8sResults'[j] # "none" => Had(page[j], k8sResults'[j])
      BY <2>3, <3>1, <3>2
    <3>. QED
      BY <2>1, <2>2, <2>7, <3>1, <3>3 DEF HadStates, Had
  <2>10. PassShape' /\ ShownWasTrue' /\ NoneSkipped'
    BY <1>1, <2>1 DEF PassShape, ShownWasTrue, NoneSkipped, Beyond
  <2>. QED
    BY <2>4, <2>5, <2>6, <2>8, <2>9, <2>10 DEF ListInv
<1>. QED
  BY <1>10, <1>11

LEMMA TimeOutKeeps ==
    ASSUME ListInv, TimeOut
    PROVE  ListInv'
<1>1. left' \in 0..Limit /\ resultChan' \subseteq K8sResult
  BY DEF ListInv, TypeOK, TimeOut
<1>. QED
  BY <1>1, Refused DEF TimeOut

LEMMA ReplyKeeps ==
    ASSUME ListInv, Reply
    PROVE  ListInv'
<1>1. TypeOK /\ PermitsTaken /\ TasksAsked /\ AskedOnly /\ Waits /\ HadStates /\ PassShape
  BY DEF ListInv
<1>2. /\ pc = "collect" /\ left = 0 /\ pc' = "idle" /\ cancelled' = TRUE /\ reply' = "ok"
      /\ shown' = [i \in 1..Limit |->
                     IF i <= Len(page) THEN State(read[page[i]], Result(i)) ELSE shown[i]]
      /\ got' = got \cup Range(page)
      /\ complete' = (Len(page) # Limit)
      /\ offset' = IF Len(page) = Limit THEN offset + Limit ELSE 0
      /\ UNCHANGED <<page, read, left, k8sResults, start, resultChan, expired, had, faults>>
      /\ UNCHANGED <<g, semaphore, tries, answer, table, event, object, dropped, changes>>
  BY DEF Reply, NextOffset, taskVars, worldVars
<1>3. /\ Range(page) \subseteq Names /\ Len(page) \in Nat
      /\ \A i \in 1..Len(page) : i \in 1..Limit /\ page[i] \in Range(page)
      /\ IsFiniteSet(Missing)
  BY <1>1, PageType
<1>4. Missing = {}
  <2>1. Cardinality(Missing) = 0
    BY <1>1, <1>2 DEF Waits
  <2>. QED
    BY <1>3, <2>1, FS_EmptySet
<1>5. TypeOK'
  <2>1. \A i \in 1..Limit : Result(i) \in Objects
    BY <1>1 DEF Result, TypeOK, Objects
  <2>2. ASSUME NEW i \in 1..Limit
        PROVE  shown'[i] \in States
    <3>1. CASE i <= Len(page)
      <4>1. page[i] \in Names
        BY <1>3, <3>1, ListAssumption
      <4>2. State(read[page[i]], Result(i)) \in States
        BY <1>1, <2>1, <4>1, StateType DEF TypeOK
      <4>. QED
        BY <1>2, <3>1, <4>2
    <3>2. CASE ~ (i <= Len(page))
      BY <1>1, <1>2, <3>2 DEF TypeOK
    <3>. QED
      BY <3>1, <3>2
  <2>3. shown' \in [1..Limit -> States]
    BY <1>2, <2>2
  <2>4. got' \subseteq Names
    BY <1>1, <1>2, <1>3 DEF TypeOK
  <2>5. offset' \in Nat /\ complete' \in BOOLEAN
    BY <1>1, <1>2, ListAssumption DEF TypeOK
  <2>. QED
    BY <1>1, <1>2, <2>3, <2>4, <2>5 DEF TypeOK
<1>6. PermitsTaken' /\ TasksAsked'
  BY <1>1, <1>2 DEF PermitsTaken, Holding, TasksAsked, Asked, Index
<1>7. AskedOnly' /\ Waits' /\ HadStates'
  BY <1>2 DEF AskedOnly, Waits, HadStates
<1>8. ASSUME NEW i \in 1..Len(page)
      PROVE  State(read[page[i]], Result(i)) \in had[page[i]]
  <2>1. CASE k8sResults[i] # "none"
    BY <1>1, <1>2, <1>3, <2>1 DEF HadStates, Had, Result
  <2>2. CASE k8sResults[i] = "none"
    <3>1. read[page[i]] # "applied"
      BY <1>4, <2>2 DEF Missing, Asked
    <3>2. State(read[page[i]], Result(i)) = StateOf(read[page[i]], object[page[i]])
      BY <2>2, <3>1 DEF StateOf, Result
    <3>. QED
      BY <1>1, <1>2, <1>3, <3>2 DEF HadStates
  <2>. QED
    BY <2>1, <2>2
<1>9. ShownWasTrue'
  <2>1. \A i \in 1..Len(page) : shown'[i] = State(read[page[i]], Result(i))
    BY <1>2, <1>3
  <2>. QED
    BY <1>2, <1>8, <2>1 DEF ShownWasTrue
<1>10. ~ dropped' => \A n \in start' \ got' :
         /\ Len(page) = Limit
         /\ \E i \in 1..Len(table) : i > offset + Limit /\ table[i] = n
  BY <1>1, <1>2 DEF PassShape, Beyond
<1>11. PassShape'
  <2>. SUFFICES ASSUME offset' > 0, ~ dropped', NEW n \in start' \ got'
                PROVE  \E i \in 1..Len(table') : i > offset' /\ table'[i] = n
    BY <1>2 DEF PassShape, Beyond
  <2>1. offset' = offset + Limit /\ table' = table
    BY <1>2, <1>10
  <2>. QED
    BY <1>10, <2>1
<1>12. NoneSkipped'
  BY <1>2, <1>10 DEF NoneSkipped
<1>. QED
  BY <1>5, <1>6, <1>7, <1>9, <1>11, <1>12 DEF ListInv

LEMMA ReadFailsKeeps ==
    ASSUME ListInv, ReadFails
    PROVE  ListInv'
<1>. USE DEF taskVars, worldVars
<1>1. TypeOK /\ PermitsTaken /\ TasksAsked
  BY DEF ListInv
<1>2. /\ pc = "idle" /\ reply' = "error" /\ offset' = 0 /\ complete' = FALSE
      /\ UNCHANGED <<start, got, pc, page, read, left, k8sResults, cancelled, shown,
                     taskVars, worldVars, resultChan, expired, had>>
      /\ faults' \in 0..MaxFaults
  BY <1>1, ListAssumption DEF ReadFails, Fault, TypeOK
<1>3. TypeOK'
  BY <1>1, <1>2 DEF TypeOK
<1>4. PermitsTaken' /\ TasksAsked'
  BY <1>1, <1>2 DEF PermitsTaken, Holding, TasksAsked, Asked, Index
<1>5. /\ AskedOnly' /\ Waits' /\ HadStates' /\ PassShape' /\ ShownWasTrue' /\ NoneSkipped'
  BY <1>2 DEF AskedOnly, Waits, HadStates, PassShape, ShownWasTrue, NoneSkipped
<1>. QED
  BY <1>3, <1>4, <1>5 DEF ListInv

\* The invariant does not speak of the deadline, nor of what is left to fail.
LEMMA UnseenKeeps ==
    ASSUME ListInv, expired' \in BOOLEAN, faults' \in 0..MaxFaults,
           UNCHANGED <<clientVars, handlerVars, taskVars, worldVars, resultChan, had>>
    PROVE  ListInv'
<1>. USE DEF clientVars, handlerVars, taskVars, worldVars
<1>1. TypeOK'
  BY DEF ListInv, TypeOK
<1>2. /\ Holding' = Holding /\ Missing' = Missing
      /\ \A i : Asked(i)' <=> Asked(i)
      /\ \A n : Index(n)' = Index(n)
      /\ \A n, o : Had(n, o)' <=> Had(n, o)
  BY DEF Asked, Holding, Missing, Index, Had
<1>3. /\ PermitsTaken' /\ TasksAsked' /\ AskedOnly' /\ Waits' /\ HadStates'
  BY <1>2 DEF ListInv, PermitsTaken, TasksAsked, AskedOnly, Waits, HadStates, Had
<1>4. PassShape' /\ ShownWasTrue' /\ NoneSkipped'
  BY DEF ListInv, PassShape, Beyond, ShownWasTrue, NoneSkipped
<1>. QED
  BY <1>1, <1>3, <1>4 DEF ListInv

-----------------------------------------------------------------------------
(* The steps of everybody else keep the invariant.                         *)

LEMMA ChangeType ==
    ASSUME TypeOK, Change
    PROVE  changes' \in 0..MaxChanges
  BY ListAssumption DEF TypeOK, Change

\* The rows and the history of the pass are all that PassShape looks at; what
\* else the invariant says is not about the rows in the table.
LEMMA RowsKeep ==
    ASSUME ListInv, changes' \in 0..MaxChanges, dropped' \in BOOLEAN,
           table' \in Seq(Names), IsInjective(table'), event' \in [Names -> Events],
           dropped => dropped',
           \A n \in Names, k \in Nat : Beyond(n, k) => dropped' \/ Beyond(n, k)',
           UNCHANGED <<object, clientVars, handlerVars, taskVars, resultChan, expired, had, faults>>
    PROVE  ListInv'
<1>. USE DEF clientVars, handlerVars, taskVars
<1>1. TypeOK /\ PassShape
  BY DEF ListInv
<1>2. TypeOK'
  BY <1>1 DEF TypeOK
<1>3. /\ Holding' = Holding /\ Missing' = Missing
      /\ \A i : Asked(i)' <=> Asked(i)
      /\ \A n : Index(n)' = Index(n)
      /\ \A n, o : Had(n, o)' <=> Had(n, o)
  BY DEF Asked, Holding, Missing, Index, Had
<1>4. /\ PermitsTaken' /\ TasksAsked' /\ AskedOnly' /\ Waits' /\ HadStates'
      /\ ShownWasTrue' /\ NoneSkipped'
  BY <1>3 DEF ListInv, PermitsTaken, TasksAsked, AskedOnly, Waits, HadStates, Had, ShownWasTrue,
              NoneSkipped
<1>5. PassShape'
  <2>1. start \subseteq Names /\ offset \in Nat /\ offset + Limit \in Nat
    BY <1>1, ListAssumption DEF TypeOK
  <2>2. \A k \in Nat, n \in start : ~ dropped' /\ Beyond(n, k) => Beyond(n, k)'
    BY <2>1
  <2>3. ~ dropped' => ~ dropped
    OBVIOUS
  <2>4. pc' = "idle" /\ offset' > 0 /\ ~ dropped' => \A n \in start' \ got' : Beyond(n, offset)'
    BY <1>1, <2>1, <2>2, <2>3 DEF PassShape
  <2>5. pc' = "collect" /\ ~ dropped' =>
          \A n \in start' \ (got' \cup Range(page)) :
             Len(page) = Limit /\ Beyond(n, offset + Limit)'
    BY <1>1, <2>1, <2>2, <2>3 DEF PassShape
  <2>. QED
    BY <1>1, <2>4, <2>5 DEF PassShape
<1>. QED
  BY <1>2, <1>4, <1>5 DEF ListInv

LEMMA InsertKeeps ==
    ASSUME ListInv, NEW n \in Names, Insert(n)
    PROVE  ListInv'
<1>1. TypeOK
  BY DEF ListInv
<1>2. /\ table \in Seq(Names) /\ IsInjective(table) /\ Len(table) \in Nat
      /\ DOMAIN table = 1..Len(table)
  BY <1>1, LenProperties DEF TypeOK
<1>3. \A j \in 1..Len(table) : table[j] # n
  BY <1>1, <1>2, RangeSeq DEF Insert
<1>4. PICK i \in 1..Len(table) + 1 : table' = InsertAt(table, i, n)
  BY DEF Insert
<1>5. PICK t : t = InsertAt(table, i, n)
  OBVIOUS
<1>6. /\ t \in Seq(Names) /\ Len(t) = Len(table) + 1
      /\ \A j \in 1..Len(table) + 1 :
           t[j] = IF j < i THEN table[j] ELSE IF j = i THEN n ELSE table[j - 1]
  <2>1. /\ InsertAt(table, i, n) \in Seq(Names) /\ Len(InsertAt(table, i, n)) = Len(table) + 1
        /\ \A j \in 1..Len(table) + 1 :
             InsertAt(table, i, n)[j] =
               IF j < i THEN table[j] ELSE IF j = i THEN n ELSE table[j - 1]
    BY ONLY <1>2, n \in Names, i \in 1..Len(table) + 1, InsertAtSeq
  <2>. QED
    BY <1>5, <2>1
<1>7. IsInjective(t)
  <2>1. DOMAIN t = 1..Len(table) + 1
    BY <1>6, LenProperties
  <2>2. ASSUME NEW j \in 1..Len(table) + 1, NEW k \in 1..Len(table) + 1, j < k, t[j] = t[k]
        PROVE  FALSE
    <3>. DEFINE old(x) == IF x < i THEN x ELSE x - 1
    <3>1. CASE j = i
      <4>1. t[j] = n /\ t[k] = table[k - 1] /\ k - 1 \in 1..Len(table)
        BY <1>2, <1>6, <2>2, <3>1
      <4>. QED
        BY <1>3, <2>2, <4>1
    <3>2. CASE k = i
      <4>1. t[k] = n /\ t[j] = table[j] /\ j \in 1..Len(table)
        BY <1>2, <1>6, <2>2, <3>2
      <4>. QED
        BY <1>3, <2>2, <4>1
    <3>3. CASE j # i /\ k # i
      <4>1. /\ old(j) \in 1..Len(table) /\ old(k) \in 1..Len(table) /\ old(j) # old(k)
        BY <1>2, <2>2, <3>3
      <4>2. t[j] = table[old(j)] /\ t[k] = table[old(k)]
        BY <1>6, <3>3
      <4>. QED
        BY <1>2, <2>2, <4>1, <4>2 DEF IsInjective
    <3>. QED
      BY <3>1, <3>2, <3>3
  <2>3. \A j, k \in 1..Len(table) + 1 : j < k \/ k < j \/ j = k
    BY <1>2
  <2>. QED
    BY <2>1, <2>2, <2>3 DEF IsInjective
<1>8. ASSUME NEW m \in Names, NEW k \in Nat, Beyond(m, k)
      PROVE  Beyond(m, k)'
  <2>1. PICK j \in 1..Len(table) : j > k /\ table[j] = m
    BY <1>8 DEF Beyond
  <2>2. j \in 1..Len(t) /\ j + 1 \in 1..Len(t)
    BY <1>2, <1>6
  <2>3. CASE j < i
    <3>1. t[j] = m
      BY <1>2, <1>6, <2>1, <2>3
    <3>. QED
      BY <1>4, <1>5, <2>1, <2>2, <3>1 DEF Beyond
  <2>4. CASE ~ (j < i)
    <3>1. t[j + 1] = m /\ j + 1 > k
      BY <1>2, <1>6, <2>1, <2>4
    <3>. QED
      BY <1>4, <1>5, <2>1, <2>2, <3>1 DEF Beyond
  <2>. QED
    BY <2>3, <2>4
<1>9. changes' \in 0..MaxChanges
  BY <1>1, ChangeType DEF Insert
<1>10. event' \in [Names -> Events] /\ dropped' \in BOOLEAN /\ dropped' = dropped
  BY <1>1 DEF Insert, TypeOK, Events
<1>11. table' \in Seq(Names) /\ IsInjective(table')
  BY <1>4, <1>5, <1>6, <1>7
<1>. QED
  BY <1>8, <1>9, <1>10, <1>11, RowsKeep DEF Insert

LEMMA DeleteKeeps ==
    ASSUME ListInv, NEW n \in Names, Delete(n)
    PROVE  ListInv'
<1>1. TypeOK
  BY DEF ListInv
<1>2. /\ table \in Seq(Names) /\ IsInjective(table) /\ Len(table) \in Nat
      /\ DOMAIN table = 1..Len(table)
  BY <1>1, LenProperties DEF TypeOK
<1>3. PICK i \in 1..Len(table) : table' = RemoveAt(table, i)
  BY DEF Delete
<1>4. PICK t : t = RemoveAt(table, i)
  OBVIOUS
<1>5. /\ t \in Seq(Names) /\ Len(t) = Len(table) - 1
      /\ \A j \in 1..Len(table) - 1 : t[j] = IF j < i THEN table[j] ELSE table[j + 1]
  BY <1>2, <1>4, RemoveAtSeq
<1>6. IsInjective(t)
  <2>. DEFINE old(x) == IF x < i THEN x ELSE x + 1
  <2>1. DOMAIN t = 1..Len(table) - 1
    BY <1>5, LenProperties
  <2>2. ASSUME NEW j \in 1..Len(table) - 1, NEW k \in 1..Len(table) - 1, t[j] = t[k]
        PROVE  j = k
    <3>1. old(j) \in 1..Len(table) /\ old(k) \in 1..Len(table) /\ (old(j) = old(k) => j = k)
      BY <1>2
    <3>2. t[j] = table[old(j)] /\ t[k] = table[old(k)]
      BY <1>5
    <3>. QED
      BY <1>2, <2>2, <3>1, <3>2 DEF IsInjective
  <2>. QED
    BY <2>1, <2>2 DEF IsInjective
<1>7. changes' \in 0..MaxChanges
  BY <1>1, ChangeType DEF Delete
<1>8. event' \in [Names -> Events] /\ dropped' = TRUE
  BY <1>1 DEF Delete, TypeOK
<1>9. table' \in Seq(Names) /\ IsInjective(table')
  BY <1>3, <1>4, <1>5, <1>6
<1>. QED
  BY <1>7, <1>8, <1>9, RowsKeep DEF Delete

\* What becomes of a Notebook is noted with the rows of the page.
LEMMA WatchKeeps ==
    ASSUME ListInv, changes' \in 0..MaxChanges, event' \in [Names -> Events],
           object' \in [Names -> Objects], Watch,
           UNCHANGED <<table, dropped, clientVars, handlerVars, taskVars, resultChan, expired, faults>>
    PROVE  ListInv'
<1>. USE DEF clientVars, handlerVars, taskVars
<1>1. TypeOK /\ AskedOnly /\ HadStates /\ ShownWasTrue
  BY DEF ListInv
<1>2. /\ Range(page) \subseteq Names /\ \A n : Contains(page, n) <=> n \in Range(page)
      /\ \A i \in 1..Len(page) : page[i] \in Range(page)
      /\ \A i : Asked(i) => i \in 1..Len(page)
  BY <1>1, PageType
<1>3. \A n \in Names : had[n] \subseteq had'[n]
  BY DEF Watch
<1>4. pc = "collect" => \A n \in Range(page) : StateOf(read[n], object'[n]) \in had'[n]
  BY <1>2 DEF Watch
<1>5. had' \in [Names -> SUBSET States]
  <2>1. \A n \in Names : StateOf(read[n], object'[n]) \in States
    BY <1>1, StateType DEF TypeOK
  <2>. QED
    BY <1>1, <2>1 DEF Watch, TypeOK
<1>6. TypeOK'
  BY <1>1, <1>5 DEF TypeOK
<1>7. /\ Holding' = Holding /\ Missing' = Missing
      /\ \A i : Asked(i)' <=> Asked(i)
      /\ \A n : Index(n)' = Index(n)
      /\ \A n \in Names : \A o : Had(n, o) => Had(n, o)'
  BY <1>3 DEF Asked, Holding, Missing, Index, Had
<1>8. PermitsTaken' /\ TasksAsked' /\ AskedOnly' /\ Waits' /\ NoneSkipped' /\ PassShape'
  BY <1>7 DEF ListInv, PermitsTaken, TasksAsked, AskedOnly, Waits, NoneSkipped, PassShape, Beyond
<1>9. HadStates'
  <2>. SUFFICES ASSUME pc = "collect"
                PROVE  /\ \A n \in Names : g[n] = "send" /\ answer[n] # "error" => Had(n, answer[n])'
                       /\ \A r \in resultChan :
                            r.object # "error" => Had(page[r.index], r.object)'
                       /\ \A i \in 1..Limit :
                            k8sResults[i] # "none" => Had(page[i], k8sResults[i])'
    BY <1>4 DEF HadStates, Had
  <2>1. \A i : Asked(i) => page[i] \in Names
    BY <1>2
  <2>. QED
    BY <1>1, <1>7, <2>1 DEF HadStates, AskedOnly
<1>10. ShownWasTrue'
  BY <1>1, <1>2, <1>3 DEF ShownWasTrue
<1>. QED
  BY <1>6, <1>8, <1>9, <1>10 DEF ListInv

LEMMA ApplyKeeps ==
    ASSUME ListInv, NEW n \in Names, Apply(n)
    PROVE  ListInv'
<1>1. TypeOK
  BY DEF ListInv
<1>2. changes' \in 0..MaxChanges
  BY <1>1, ChangeType DEF Apply
<1>3. event' \in [Names -> Events] /\ object' \in [Names -> Objects]
  BY <1>1 DEF Apply, TypeOK, Events, Objects
<1>. QED
  BY <1>2, <1>3, WatchKeeps DEF Apply

LEMMA SetObjectKeeps ==
    ASSUME ListInv, NEW n \in Names, SetObject(n)
    PROVE  ListInv'
<1>1. TypeOK
  BY DEF ListInv
<1>2. changes' \in 0..MaxChanges
  BY <1>1, ChangeType DEF SetObject
<1>3. event' \in [Names -> Events] /\ object' \in [Names -> Objects]
  BY <1>1 DEF SetObject, TypeOK
<1>. QED
  BY <1>2, <1>3, WatchKeeps DEF SetObject

-----------------------------------------------------------------------------
(* The invariant and what follows from it.                                 *)

LEMMA ListInit == Init => ListInv
<1>. SUFFICES ASSUME Init
              PROVE  ListInv
  OBVIOUS
<1>1. PICK rows \in SUBSET Names : table = SetToSeq(rows)
  BY DEF Init
<1>2. table \in Seq(Names) /\ IsInjective(table)
  <2>1. IsFiniteSet(rows)
    BY ListAssumption, FS_Subset
  <2>2. table \in Seq(rows) /\ IsInjective(table)
    BY <1>1, <2>1, SetToSeqSeq
  <2>. QED
    BY <2>2
<1>3. page = << >> /\ page \in Seq(Names) /\ Len(page) = 0
  BY DEF Init
<1>4. TypeOK
  <2>1. /\ event \in [Names -> Events] /\ read \in [Names -> Events]
        /\ object \in [Names -> Objects]
        /\ g \in [Names -> {"none", "wait", "check", "get", "send"}]
        /\ k8sResults \in [1..Limit -> Objects \cup {"none"}]
        /\ tries \in [Names -> 1..MaxAttempts] /\ answer \in [Names -> Objects \cup {"error"}]
        /\ shown \in [1..Limit -> States] /\ had \in [Names -> SUBSET States]
    BY ListAssumption DEF Init, Events, Objects, States
  <2>2. /\ offset \in Nat /\ semaphore \in 0..Permits /\ left \in 0..Limit
        /\ changes \in 0..MaxChanges /\ faults \in 0..MaxFaults
    BY ListAssumption DEF Init
  <2>3. /\ pc \in {"idle", "collect"} /\ reply \in {"none", "ok", "error"}
        /\ resultChan \subseteq K8sResult
        /\ start \subseteq Names /\ got \subseteq Names
        /\ cancelled \in BOOLEAN /\ expired \in BOOLEAN
        /\ dropped \in BOOLEAN /\ complete \in BOOLEAN
    BY DEF Init
  <2>4. Len(page) <= Limit
    BY <1>3, ListAssumption
  <2>. QED
    BY <1>2, <1>3, <2>1, <2>2, <2>3, <2>4 DEF TypeOK
<1>5. PermitsTaken
  <2>1. Holding = {}
    BY DEF Init, Holding, Working
  <2>. QED
    BY <2>1, FS_EmptySet DEF Init, PermitsTaken
<1>6. /\ TasksAsked /\ AskedOnly /\ Waits /\ HadStates /\ PassShape /\ ShownWasTrue /\ NoneSkipped
  BY DEF Init, TasksAsked, AskedOnly, Waits, HadStates, PassShape, ShownWasTrue, NoneSkipped
<1>. QED
  BY <1>4, <1>5, <1>6 DEF ListInv

LEMMA ListStep == ListInv /\ [Next]_vars => ListInv'
<1>. SUFFICES ASSUME ListInv, [Next]_vars
              PROVE  ListInv'
  OBVIOUS
<1>1. CASE Handler
  BY <1>1, ReadPageKeeps, TimeOutKeeps, ReplyKeeps, CollectKeeps DEF Handler
<1>2. CASE ReadFails
  BY <1>2, ReadFailsKeeps
<1>3. CASE Expire
  <2>1. expired' \in BOOLEAN /\ faults' \in 0..MaxFaults
    BY <1>3, ListAssumption DEF Expire, Fault, ListInv, TypeOK
  <2>. QED
    BY <1>3, <2>1, UnseenKeeps DEF Expire
<1>4. CASE \E n \in Names : Task(n)
  BY <1>4, TaskKeeps
<1>5. CASE World
  BY <1>5, InsertKeeps, ApplyKeeps, DeleteKeeps, SetObjectKeeps DEF World
<1>6. CASE UNCHANGED vars
  <2>1. expired' \in BOOLEAN /\ faults' \in 0..MaxFaults
    BY <1>6 DEF vars, ListInv, TypeOK
  <2>. QED
    BY <1>6, <2>1, UnseenKeeps DEF vars
<1>. QED
  BY <1>1, <1>2, <1>3, <1>4, <1>5, <1>6 DEF Next

LEMMA ListAlways == Spec => []ListInv
  BY ListInit, ListStep, PTL DEF Spec

\* Every variable keeps its type: in particular the semaphore never holds more
\* than its capacity nor is given back a permit nobody took, the handler waits
\* for no more answers than a page has rows, and no row is in the table twice.
THEOREM ListTypeCorrect == Spec => []TypeOK
<1>1. ListInv => TypeOK
  BY DEF ListInv
<1>. QED
  BY <1>1, ListAlways, PTL

\* One request never has more calls at Kubernetes than the semaphore has
\* permits: each is made by a goroutine that holds one of them.
THEOREM CallsAreBounded == Spec => []CallsBounded
<1>1. ListInv => CallsBounded
  <2>. SUFFICES ASSUME ListInv
                PROVE  CallsBounded
    OBVIOUS
  <2>. DEFINE calls == {n \in Names : g[n] = "get"}
  <2>1. calls \subseteq Holding
    BY DEF Holding, Working
  <2>2. Cardinality(calls) <= Cardinality(Holding) /\ Cardinality(calls) \in Nat
    BY <2>1, HoldingFinite, FS_Subset, FS_CardinalityType
  <2>3. Cardinality(Holding) = semaphore /\ semaphore \in 0..Permits
    BY DEF ListInv, PermitsTaken, TypeOK
  <2>4. Cardinality(calls) <= Permits
    BY <2>2, <2>3, ListAssumption
  <2>. QED
    BY <2>4 DEF CallsBounded
<1>. QED
  BY <1>1, ListAlways, PTL

\* What a reply says of a notebook is a state it had while the request ran,
\* whatever order the answers came in and whichever calls failed.
THEOREM ShownWasTheCase == Spec => []ShownWasTrue
<1>1. ListInv => ShownWasTrue
  BY DEF ListInv
<1>. QED
  BY <1>1, ListAlways, PTL

\* A client that follows nextOffset to the last page has seen every row that was
\* there when it began, unless a row was deleted meanwhile.
THEOREM PagingSkipsNone == Spec => []NoneSkipped
<1>1. ListInv => NoneSkipped
  BY DEF ListInv
<1>. QED
  BY <1>1, ListAlways, PTL
=============================================================================
