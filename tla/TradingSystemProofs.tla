------------------------ MODULE TradingSystemProofs ------------------------
(***************************************************************************)
(* The gateway and the engine together, for any number of orders and       *)
(* strategies, any prices and quantities, any high-water mark and limits.  *)
(* What the properties rest on is what is under way between the two: the   *)
(* orders that wait on order_egress are not in the book yet, a report FILL *)
(* that waits on exec_report_pub is about an order with nothing left, and  *)
(* pending_orders misses none that can trade.                              *)
(***************************************************************************)
EXTENDS TradingSystem, OperatorProofs

Served == 1..Len(sent)

BucketsSound ==
    \A s \in Strategy : LET b == buckets[s] IN
        b # NoBucket => b.last <= now /\ b.tokens <= Capacity * Unit

\* An order is forwarded once and enters the book once.
Journey ==
    /\ \A i \in Served : sent[i].id = i
    /\ pending \subseteq passed /\ passed \subseteq Served
    /\ Range(egress) \subseteq passed /\ arrived \subseteq passed
    /\ IsInjective(egress) /\ Range(egress) \cap arrived = {}
    /\ \A i \in Id : sides[i] = "SELL" => i \in Served /\ sent[i].side = "SELL"

Matching ==
    /\ left \in [Id -> Nat]
    /\ \A i \in resting : left[i] > 0
    /\ active # Book!NoOrder => active \in arrived /\ active \notin resting
    /\ active = Book!NoOrder => tape = <<>>
    /\ \A f \in Range(tape) : f[1] \in arrived

\* A report tells of an order in the book; FILL says that nothing is left of
\* it, which stays true however long the report is on its way.
Sound(r) ==
    /\ r.id \in arrived
    /\ r.type = "FILL" => left[r.id] = 0
    /\ r.type \notin {"FILL", "PARTIAL"} => r.qty = 0

ReportsSound == \A r \in Range(execs) : Sound(r)

PendingKept == ~ kill => Alive \subseteq pending

SystemInv ==
    TypeOK /\ BucketsSound /\ Journey /\ Matching /\ ReportsSound /\ PendingKept

-----------------------------------------------------------------------------
\* What an order adds to the ledger is a number, and so is what reports do.
LEMMA FillsType ==
    ASSUME NEW s, NEW q \in Seq(Report)
    PROVE  /\ \A r \in Report : FillOf(s, r) \in Int
           /\ [k \in DOMAIN q |-> FillOf(s, q[k])] \in Seq(Int)
           /\ FillsOf(s, q) \in Int
<1>1. \A r \in Report : FillOf(s, r) \in Int
  BY DEF Report, FillOf, Signed
<1>2. DOMAIN q = 1..Len(q) /\ Len(q) \in Nat /\ \A k \in 1..Len(q) : q[k] \in Report
  BY LenProperties
<1>3. [k \in DOMAIN q |-> FillOf(s, q[k])] \in Seq(Int)
  BY <1>1, <1>2
<1>4. QED
  BY <1>1, <1>3, SumSeqType DEF FillsOf

\* A report of no quantity adds nothing, whatever the side.
LEMMA NothingFilled ==
    ASSUME NEW s, NEW r, r.qty = 0
    PROVE  FillOf(s, r) = 0
<1>1. -0 = 0
  <2>1. \A x \in Int : -x = 0 - x
    OBVIOUS
  <2>2. 0 \in Int /\ 0 - 0 = 0
    OBVIOUS
  <2>3. QED
    BY <2>1, <2>2, Zenon
<1>2. ASSUME NEW side PROVE Signed(side, 0) = 0
  <2>1. CASE side = "BUY"
    BY <2>1 DEF Signed
  <2>2. CASE side # "BUY"
    BY <1>1, <2>2 DEF Signed
  <2>3. QED
    BY <2>1, <2>2
<1>3. QED
  BY <1>2 DEF FillOf

\* What exec_report_pub takes of some reports, and what it drops.
LEMMA PublishStep ==
    ASSUME NEW q \in Seq(Report), Publish(q), execs \in Seq(Report),
           missed \in [Strategy -> Int]
    PROVE  /\ execs' \in Seq(Report) /\ missed' \in [Strategy -> Int]
           /\ Range(execs') \subseteq Range(execs) \cup Range(q)
           /\ \E c \in 0..Len(q) :
                 /\ execs' = execs \o SubSeq(q, 1, c)
                 /\ missed' = [s \in Strategy |->
                                  missed[s] + FillsOf(s, SubSeq(q, c + 1, Len(q)))]
<1> DEFINE queued == {k \in DOMAIN q :
                         SendOutcome("PUB", FALSE, Len(execs) + k - 1, Hwm) = "queued"}
           c == Cardinality(queued)
           rest == SubSeq(q, c + 1, Len(q))
<1>1. Len(q) \in Nat /\ DOMAIN q = 1..Len(q) /\ \A k \in 1..Len(q) : q[k] \in Report
  BY LenProperties
<1>2. c \in 0..Len(q)
  <2>1. IsFiniteSet(1..Len(q)) /\ Cardinality(1..Len(q)) = Len(q)
    BY <1>1, CountUpTo
  <2>2. queued \in SUBSET (1..Len(q))
    BY <1>1
  <2> HIDE DEF queued
  <2>3. IsFiniteSet(queued) /\ c <= Cardinality(1..Len(q)) /\ c \in Nat
    BY <2>1, <2>2, FS_Subset, FS_CardinalityType
  <2>4. QED
    BY <1>1, <2>1, <2>3
<1>3. /\ execs' = execs \o SubSeq(q, 1, c)
      /\ missed' = [s \in Strategy |-> missed[s] + FillsOf(s, rest)]
  BY DEF Publish
<1> HIDE DEF c
<1>4. /\ SubSeq(q, 1, c) \in Seq(Report) /\ rest \in Seq(Report)
      /\ Len(SubSeq(q, 1, c)) = c
      /\ \A k \in 1..c : SubSeq(q, 1, c)[k] = q[k]
  BY <1>1, <1>2, SubSeqProperties
<1>5. Range(SubSeq(q, 1, c)) \subseteq Range(q)
  <2>1. DOMAIN SubSeq(q, 1, c) = 1..c
    BY <1>4, LenProperties
  <2>2. QED
    BY <1>1, <1>2, <1>4, <2>1 DEF Range
<1>6. execs' \in Seq(Report) /\ Range(execs') \subseteq Range(execs) \cup Range(q)
  <2> DEFINE p == SubSeq(q, 1, c)
  <2>1. p \in Seq(Report) /\ Range(p) \subseteq Range(q) /\ execs' = execs \o p
    BY <1>3, <1>4, <1>5
  <2> HIDE DEF p
  <2>2. execs \o p \in Seq(Report) /\ Range(execs \o p) = Range(execs) \cup Range(p)
    BY <2>1, ConcatProperties, RangeConcatenation
  <2>3. QED
    BY <2>1, <2>2
<1>7. missed' \in [Strategy -> Int]
  <2>1. \A s \in Strategy : FillsOf(s, rest) \in Int
    BY <1>4, FillsType
  <2> HIDE DEF rest
  <2>2. QED
    BY <1>3, <2>1
<1>8. QED
  BY <1>2, <1>3, <1>6, <1>7

\* The ledger of reports put together, and without the oldest.
LEMMA FillsConcat ==
    ASSUME NEW s, NEW p \in Seq(Report), NEW q \in Seq(Report)
    PROVE  FillsOf(s, p \o q) = FillsOf(s, p) + FillsOf(s, q)
<1> DEFINE w(r) == [k \in DOMAIN r |-> FillOf(s, r[k])]
<1>1. w(p) \in Seq(Int) /\ w(q) \in Seq(Int) /\ p \o q \in Seq(Report)
  BY FillsType, ConcatProperties
<1>2. w(p \o q) = w(p) \o w(q)
  <2>1. /\ Len(p) \in Nat /\ Len(q) \in Nat /\ Len(p \o q) = Len(p) + Len(q)
        /\ DOMAIN p = 1..Len(p) /\ DOMAIN q = 1..Len(q)
        /\ DOMAIN (p \o q) = 1..(Len(p) + Len(q))
        /\ \A i \in 1..(Len(p) + Len(q)) :
              (p \o q)[i] = IF i <= Len(p) THEN p[i] ELSE q[i - Len(p)]
    BY <1>1, ConcatProperties, LenProperties
  <2>2. Len(w(p)) = Len(p) /\ Len(w(q)) = Len(q)
    BY <1>1, <2>1, LenProperties
  <2> DEFINE l == w(p) \o w(q)
             r == w(p \o q)
  <2>3. /\ l \in Seq(Int) /\ Len(l) = Len(p) + Len(q)
        /\ \A i \in 1..(Len(p) + Len(q)) :
              l[i] = IF i <= Len(p) THEN w(p)[i] ELSE w(q)[i - Len(p)]
    <3> DEFINE a == w(p)
               b == w(q)
    <3>1. a \in Seq(Int) /\ b \in Seq(Int) /\ Len(a) = Len(p) /\ Len(b) = Len(q) /\ l = a \o b
      BY <1>1, <2>2
    <3> HIDE DEF a, b, l
    <3>2. /\ a \o b \in Seq(Int) /\ Len(a \o b) = Len(a) + Len(b)
          /\ \A i \in 1..(Len(a) + Len(b)) :
                (a \o b)[i] = IF i <= Len(a) THEN a[i] ELSE b[i - Len(a)]
      BY <3>1, ConcatProperties
    <3>3. /\ l \in Seq(Int) /\ Len(l) = Len(p) + Len(q)
          /\ \A i \in 1..(Len(p) + Len(q)) :
                l[i] = IF i <= Len(p) THEN a[i] ELSE b[i - Len(p)]
      BY <3>1, <3>2
    <3>4. QED
      BY <3>3 DEF a, b
  <2>4. r \in Seq(Int) /\ Len(r) = Len(p) + Len(q)
    <3>1. r \in Seq(Int)
      BY <1>1, FillsType
    <3>2. QED
      BY <2>1, <3>1, LenProperties
  <2>5. ASSUME NEW i \in 1..(Len(p) + Len(q)) PROVE r[i] = l[i]
    <3>1. i <= Len(p) => i \in 1..Len(p)
      BY <2>1
    <3>2. ~ i <= Len(p) => i - Len(p) \in 1..Len(q)
      BY <2>1
    <3>3. QED
      BY <2>1, <2>3, <3>1, <3>2
  <2> HIDE DEF l, r
  <2>6. l = r
    BY <2>1, <2>3, <2>4, <2>5, SeqEqual
  <2>7. QED
    BY <2>6 DEF l, r
<1>3. SumFunction(w(p) \o w(q)) = SumFunction(w(p)) + SumFunction(w(q))
  BY <1>1, SumConcat
<1>4. QED
  BY <1>2, <1>3 DEF FillsOf

LEMMA FillsOne ==
    ASSUME NEW s, NEW r \in Report
    PROVE  /\ <<r>> \in Seq(Report) /\ Range(<<r>>) = {r}
           /\ FillsOf(s, <<r>>) = FillOf(s, r)
           /\ FillsOf(s, <<>>) = 0
<1>1. <<r>> \in Seq(Report) /\ Range(<<r>>) = {r} /\ DOMAIN <<r>> = {1} /\ <<r>>[1] = r
  BY DEF Range
<1>2. [k \in DOMAIN <<>> |-> FillOf(s, <<>>[k])] = <<>> /\ <<>> \in Seq(Int)
  OBVIOUS
<1>3. FillsOf(s, <<>>) = 0
  BY <1>2, SumSeqType DEF FillsOf
<1>4. FillOf(s, r) \in Int
  BY <1>1, FillsType
<1>5. [k \in DOMAIN <<r>> |-> FillOf(s, <<r>>[k])] = Append(<<>>, FillOf(s, r))
  <2>1. [k \in DOMAIN <<r>> |-> FillOf(s, <<r>>[k])] = [k \in {1} |-> FillOf(s, r)]
    BY <1>1, Zenon
  <2>2. <<FillOf(s, r)>> = [k \in {1} |-> FillOf(s, r)]
    OBVIOUS
  <2>3. QED
    BY <2>1, <2>2
<1>6. SumFunction(Append(<<>>, FillOf(s, r))) = SumFunction(<<>>) + FillOf(s, r)
  BY <1>2, <1>4, SumAppend
<1>7. SumFunction(<<>>) = 0
  BY <1>2, SumSeqType
<1>8. QED
  BY <1>1, <1>3, <1>4, <1>5, <1>6, <1>7 DEF FillsOf

-----------------------------------------------------------------------------
\* The two reports of a fill, and what they add to the ledger of a strategy.
PairOf(k) == <<Say(tape[k][1], FillType(tape[k][1]), tape[k][2]),
               Say(active, FillType(active), tape[k][2])>>
Fill(s, i, q) == IF sent[i].strategy = s THEN Signed(sent[i].side, q) ELSE 0
PairFill(s, k) == Fill(s, tape[k][1], tape[k][2]) + Fill(s, active, tape[k][2])

\* What the order being matched has traded, and nobody has reported yet.
TapeOf(s) == SumFunction([k \in DOMAIN tape |-> PairFill(s, k)])

\* A report of a submission: of a fill, or of an order that is new.
Told(r) == Sound(r) /\ r.type # "CANCEL"

LEMMA PairFacts ==
    ASSUME SystemInv, active # Book!NoOrder, NEW s, NEW k \in DOMAIN tape
    PROVE  /\ PairOf(k) \in Seq(Report)
           /\ \A r \in Range(PairOf(k)) : Told(r)
           /\ PairFill(s, k) \in Int
           /\ FillsOf(s, PairOf(k)) = PairFill(s, k)
<1> DEFINE i == tape[k][1]
           a == Say(i, FillType(i), tape[k][2])
           b == Say(active, FillType(active), tape[k][2])
<1>1. /\ i \in Id /\ tape[k][2] \in Nat /\ active \in Id
      /\ i \in arrived /\ active \in arrived
  <2>1. tape[k] \in Id \X Nat /\ tape[k] \in Range(tape)
    <3>1. tape \in Seq(Id \X Nat)
      BY DEF SystemInv, TypeOK
    <3>2. DOMAIN tape = 1..Len(tape) /\ \A j \in 1..Len(tape) : tape[j] \in Id \X Nat
      BY <3>1, LenProperties
    <3>3. QED
      BY <3>2 DEF Range
  <2>2. active \in Id
    BY DEF SystemInv, TypeOK
  <2>3. QED
    BY <2>1, <2>2 DEF SystemInv, Matching
<1>2. /\ a \in Report /\ b \in Report /\ Told(a) /\ Told(b)
  BY <1>1 DEF Say, FillType, Report, ExecType, Sound, Told
<1>3. FillOf(s, a) = Fill(s, i, tape[k][2]) /\ FillOf(s, b) = Fill(s, active, tape[k][2])
  BY DEF Say, FillOf, Fill
<1>4. FillOf(s, a) \in Int /\ FillOf(s, b) \in Int
  BY <1>2, FillsType, EmptySeq
<1>5. PairOf(k) = <<a, b>>
  BY DEF PairOf
<1> HIDE DEF a, b
<1>6. <<a>> \in Seq(Report) /\ <<b>> \in Seq(Report) /\ <<a, b>> = <<a>> \o <<b>>
  <2>1. <<a>> \in Seq(Report) /\ <<b>> \in Seq(Report)
    BY <1>2
  <2>2. <<a, b>> = Append(<<a>>, b)
    OBVIOUS
  <2>3. QED
    BY <1>2, <2>1, <2>2, AppendIsConcat
<1>7. FillsOf(s, <<a, b>>) = FillOf(s, a) + FillOf(s, b)
  <2>1. FillsOf(s, <<a>> \o <<b>>) = FillsOf(s, <<a>>) + FillsOf(s, <<b>>)
    BY <1>6, FillsConcat
  <2>2. FillsOf(s, <<a>>) = FillOf(s, a) /\ FillsOf(s, <<b>>) = FillOf(s, b)
    BY <1>2, FillsOne
  <2>3. QED
    BY <1>6, <2>1, <2>2
<1>8. <<a, b>> \in Seq(Report) /\ Range(<<a, b>>) = {a, b}
  BY <1>2 DEF Range
<1>9. PairFill(s, k) = FillOf(s, a) + FillOf(s, b)
  BY <1>3 DEF PairFill
<1>10. QED
  BY <1>2, <1>4, <1>5, <1>7, <1>8, <1>9

\* _process_order reports every fill to both sides, and nothing else counts.
LEMMA ReportsFacts ==
    ASSUME SystemInv, active # Book!NoOrder, NEW s
    PROVE  /\ Reports \in Seq(Report)
           /\ \A r \in Range(Reports) : Told(r)
           /\ FillsOf(s, Reports) = TapeOf(s)
<1> DEFINE n == Len(tape)
           q == [k \in 1..n |-> PairOf(k)]
           w(m) == [k \in 1..m |-> PairFill(s, k)]
<1>1. n \in Nat /\ DOMAIN tape = 1..n /\ (n = 0 <=> tape = <<>>) /\ active \in Id
  BY LenProperties, EmptySeq DEF SystemInv, TypeOK
<1>2. CASE tape = <<>>
  <2> DEFINE r == Say(active, "NEW", 0)
  <2>1. Reports = <<r>>
    BY <1>2 DEF Reports
  <2>2. r \in Report /\ Told(r) /\ FillOf(s, r) = 0
    <3>1. active \in arrived
      BY DEF SystemInv, Matching
    <3>2. r \in Report /\ r.id = active /\ r.type = "NEW" /\ r.qty = 0
      <4>1. r = [id |-> active, type |-> "NEW", qty |-> 0] /\ "NEW" \in ExecType
        BY DEF Say, ExecType
      <4> HIDE DEF r, n, q, w
      <4>2. QED
        BY <1>1, <4>1 DEF Report
    <3> HIDE DEF r, n, q, w
    <3>3. Told(r)
      BY <3>1, <3>2 DEF Sound, Told
    <3>4. FillOf(s, r) = 0
      BY <3>2, NothingFilled
    <3>5. QED
      BY <3>2, <3>3, <3>4
  <2> HIDE DEF r
  <2>3. TapeOf(s) = 0
    <3>1. [k \in DOMAIN tape |-> PairFill(s, k)] = <<>>
      BY <1>2
    <3>2. QED
      BY <3>1, SumSeqType, EmptySeq DEF TapeOf
  <2>4. QED
    BY <2>1, <2>2, <2>3, FillsOne
<1>3. CASE tape # <<>>
  <2>1. n \in Nat \ {0}
    BY <1>1, <1>3
  <2>2. Len(q) = n
    BY <1>1
  <2>3. Reports = FlattenSeq(q)
    BY <1>3 DEF Reports, PairOf
  <2>4. \A k \in 1..n : /\ PairOf(k) \in Seq(Report)
                        /\ \A r \in Range(PairOf(k)) : Told(r)
                        /\ PairFill(s, k) \in Int
                        /\ FillsOf(s, PairOf(k)) = PairFill(s, k)
    BY <1>1, PairFacts
  <2>5. PICK f : /\ f[1] = q[1]
                 /\ \A i \in 2..n : f[i] = f[i - 1] \o q[i]
                 /\ FlattenSeq(q) = f[n]
    <3> HIDE DEF q, n
    <3>1. QED
      BY <2>1, <2>2, FlattenBySteps
  <2>6. f[1] = PairOf(1) /\ \A i \in 2..n : f[i] = f[i - 1] \o PairOf(i)
    <3>1. 1 \in 1..n /\ \A i \in 2..n : i \in 1..n
      BY <2>1
    <3>2. \A i \in 1..n : q[i] = PairOf(i)
      OBVIOUS
    <3> HIDE DEF n, q, w
    <3>3. QED
      BY <2>5, <3>1, <3>2
  <2>7. ASSUME NEW m \in 0..n
        PROVE  /\ w(m) \in Seq(Int)
               /\ m + 1 \in 1..n => w(m + 1) = Append(w(m), PairFill(s, m + 1))
    <3>1. w(m) \in Seq(Int)
      BY <1>1, <2>4
    <3>2. ASSUME m + 1 \in 1..n PROVE w(m + 1) = Append(w(m), PairFill(s, m + 1))
      BY <1>1, <2>4, <3>1, <3>2
    <3>3. QED
      BY <3>1, <3>2
  <2> DEFINE Right(m) == /\ f[m] \in Seq(Report)
                         /\ \A r \in Range(f[m]) : Told(r)
                         /\ FillsOf(s, f[m]) = SumFunction(w(m))
             Bad == {m \in Nat : m \in 1..n /\ ~ Right(m)}
  <2>8. Right(1)
    <3>1. w(0) = <<>> /\ 0 \in 0..n /\ 1 \in 1..n
      BY <2>1
    <3>2. w(1) = Append(w(0), PairFill(s, 1))
      BY <2>7, <3>1
    <3>3. SumFunction(Append(<<>>, PairFill(s, 1))) = SumFunction(<<>>) + PairFill(s, 1)
      BY <2>4, <3>1, SumAppend, EmptySeq
    <3>4. SumFunction(<<>>) = 0
      BY SumSeqType, EmptySeq
    <3>5. SumFunction(w(1)) = PairFill(s, 1)
      BY <2>4, <3>1, <3>2, <3>3, <3>4
    <3>6. QED
      BY <2>4, <2>6, <3>1, <3>5
  <2>9. ASSUME NEW m \in 1..n, m + 1 \in 1..n, Right(m)
        PROVE  Right(m + 1)
    <3>1. f[m + 1] = f[m] \o PairOf(m + 1)
      <4>1. m + 1 \in 2..n /\ (m + 1) - 1 = m
        BY <1>1, <2>9
      <4>2. \A i \in 2..n : \A j : j = i - 1 => f[i] = f[j] \o PairOf(i)
        BY <2>6, Zenon
      <4> DEFINE k == m + 1
      <4>3. k \in 2..n /\ m = k - 1
        BY <4>1
      <4> HIDE DEF n, q, w, Right, k
      <4>4. f[k] = f[m] \o PairOf(k)
        BY <4>2, <4>3
      <4>5. QED
        BY <4>4 DEF k
    <3> DEFINE a == f[m]
               b == PairOf(m + 1)
               v == w(m)
    <3>2. a \in Seq(Report) /\ b \in Seq(Report) /\ v \in Seq(Int) /\ PairFill(s, m + 1) \in Int
      BY <1>1, <2>4, <2>7, <2>9
    <3>3. SumFunction(w(m + 1)) = SumFunction(v) + PairFill(s, m + 1)
      <4>1. w(m + 1) = Append(v, PairFill(s, m + 1))
        BY <1>1, <2>7, <2>9
      <4> HIDE DEF v
      <4>2. QED
        BY <3>2, <4>1, SumAppend
    <3>4. /\ \A r \in Range(a) \cup Range(b) : Told(r)
          /\ FillsOf(s, a) = SumFunction(v) /\ FillsOf(s, b) = PairFill(s, m + 1)
      BY <2>4, <2>9
    <3> HIDE DEF a, b, v
    <3>5. a \o b \in Seq(Report) /\ Range(a \o b) = Range(a) \cup Range(b)
      BY <3>2, ConcatProperties, RangeConcatenation
    <3>6. FillsOf(s, a \o b) = FillsOf(s, a) + FillsOf(s, b)
      BY <3>2, FillsConcat
    <3>7. f[m + 1] = a \o b
      BY <3>1 DEF a, b
    <3>8. QED
      BY <3>3, <3>4, <3>5, <3>6, <3>7
  <2> HIDE DEF Right
  <2>10. Bad = {}
    <3>1. SUFFICES ASSUME Bad # {} PROVE FALSE
      OBVIOUS
    <3>2. PICK m \in Bad : \A k \in Bad : m <= k
      <4>1. Bad \in SUBSET Nat
        OBVIOUS
      <4> HIDE DEF Bad
      <4>2. QED
        BY <3>1, <4>1, LeastNumber
    <3>3. m \in 1..n /\ ~ Right(m) /\ m # 1
      BY <2>8, <3>2
    <3>4. m - 1 \in 1..n /\ m - 1 \in Nat /\ m - 1 + 1 = m
      BY <1>1, <3>3
    <3>5. Right(m - 1)
      <4>1. m - 1 \notin Bad
        BY <3>2, <3>4
      <4>2. QED
        BY <3>4, <4>1
    <3>6. Right(m)
      BY <2>9, <3>3, <3>4, <3>5
    <3>7. QED
      BY <3>3, <3>6
  <2>11. Right(n)
    <3>1. n \in 1..n /\ n \in Nat
      BY <2>1
    <3>2. QED
      BY <2>10, <3>1
  <2>12. TapeOf(s) = SumFunction(w(n))
    BY <1>1 DEF TapeOf
  <2>13. QED
    BY <2>3, <2>5, <2>11, <2>12 DEF Right
<1>4. QED
  BY <1>2, <1>3

-----------------------------------------------------------------------------
\* The rate limiter behind the other filters, as RateLimiter has it: the window
\* of a strategy is open from the start, and what it counts is what was forwarded.
Counted(s) == Cardinality({i \in passed : sent[i].strategy = s})
Limiter == INSTANCE RateLimiterProofs WITH
              opened <- [s \in Strategy |-> 0], passed <- [s \in Strategy |-> Counted(s)]

\* A bucket that is asked is never over its cap, nor ahead of the clock.
LEMMA SpentKeeps ==
    ASSUME NEW b \in Bucket \cup {NoBucket}, NEW t \in Nat,
           b # NoBucket => b.last <= t /\ b.tokens <= Capacity * Unit
    PROVE  Spent(b, t) \in Bucket /\ Spent(b, t).last = t /\ Spent(b, t).tokens <= Capacity * Unit
<1>1. Limiter!FilterAssumption /\ Limiter!TimeAssumption
  BY FilterAssumption, GatewayAssumption DEF Limiter!FilterAssumption, Limiter!TimeAssumption
<1>2. /\ Limiter!Bucket = Bucket /\ Limiter!NoBucket = NoBucket
      /\ Limiter!Spent(b, t) = Spent(b, t)
  BY DEF Limiter!Bucket, Limiter!NoBucket, Bucket, NoBucket, Limiter!Spent, Spent,
         Limiter!Refill, Refill, Limiter!Opened, Opened
<1>3. /\ Limiter!Spent(b, t) \in Limiter!Bucket
      /\ Limiter!Spent(b, t).last = t
      /\ Limiter!Spent(b, t).tokens <= Capacity * Unit
  BY <1>1, <1>2, Limiter!SpentBounds
<1>4. QED
  BY <1>2, <1>3

\* The orders served, by their number.
LEMMA ServedOrders ==
    ASSUME TypeOK, NEW i \in Served
    PROVE  /\ sent[i] \in Nos /\ sent[i].strategy \in Strategy /\ i \in Id /\ i \in DOMAIN sent
           /\ Len(sent) \in Nat /\ MaxOrders \in Nat
<1>1. sent \in Seq(Nos) /\ Len(sent) <= MaxOrders /\ MaxOrders \in Nat
  BY GatewayAssumption DEF TypeOK
<1>2. Len(sent) \in Nat /\ DOMAIN sent = 1..Len(sent) /\ \A k \in 1..Len(sent) : sent[k] \in Nos
  BY <1>1, LenProperties
<1>3. QED
  BY <1>1, <1>2 DEF Served, Nos, Id

\* An order leaves pending_orders when its FILL comes, and has nothing left by
\* then: it is none of those that can trade.
LEMMA ReconcileKeeps ==
    ASSUME SystemInv, Reconcile, UNCHANGED <<bookvars, tape, missed>>
    PROVE  SystemInv'
<1> DEFINE r == Head(execs)
           s == sent[r.id].strategy
<1>1. /\ execs \in Seq(Report) /\ execs # <<>>
      /\ execs' = Tail(execs)
      /\ UNCHANGED <<now, buckets, kill, sent, passed, egress, cancels>>
      /\ UNCHANGED <<arrived, terms, left, value, resting, active, tape, missed>>
  BY DEF SystemInv, TypeOK, Reconcile, bookvars
<1>2. /\ r \in Report /\ r \in Range(execs)
      /\ execs' \in Seq(Report) /\ Range(execs') \subseteq Range(execs)
  BY <1>1, OldestTaken
<1>3. Sound(r)
  BY <1>2 DEF SystemInv, ReportsSound
<1>4. r.id \in Served /\ r.id \in Id /\ s \in Strategy /\ r.qty \in Nat
  <2>1. r.id \in Served
    BY <1>3 DEF SystemInv, Journey, Sound
  <2>2. QED
    BY <1>2, <2>1, ServedOrders DEF SystemInv, Report
<1>5. /\ positions' = IF r.type \in {"FILL", "PARTIAL"}
                        THEN [positions EXCEPT ![s] = @ + Delta(r)] ELSE positions
      /\ pending' = IF IsFinal(r) THEN pending \ {r.id} ELSE pending
      /\ sides' = IF IsFinal(r) THEN [sides EXCEPT ![r.id] = "none"] ELSE sides
  BY DEF Reconcile
<1> HIDE DEF r, s
<1>6. Delta(r) \in Int
  BY <1>4 DEF Delta
<1>7. /\ positions' \in [Strategy -> Int]
      /\ pending' \subseteq pending
      /\ sides' \in [Id -> Side \cup {"none"}]
      /\ \A i \in Id : sides'[i] = "SELL" => sides[i] = "SELL"
  BY <1>4, <1>5, <1>6 DEF SystemInv, TypeOK
<1>8. TypeOK'
  BY <1>1, <1>2, <1>7 DEF SystemInv, TypeOK
<1>9. BucketsSound' /\ Matching'
  BY <1>1 DEF SystemInv, BucketsSound, Matching
<1>10. Journey'
  BY <1>1, <1>7 DEF SystemInv, Journey, Served
<1>11. ReportsSound'
  BY <1>1, <1>2 DEF SystemInv, ReportsSound, Sound
<1>12. PendingKept'
  <2>1. Alive' = Alive /\ kill' = kill
    BY <1>1 DEF Alive
  <2>2. r.type = "FILL" => r.id \notin Alive
    BY <1>3 DEF Sound, Alive, SystemInv, Journey, Matching
  <2>3. QED
    BY <1>5, <2>1, <2>2 DEF SystemInv, PendingKept, IsFinal
<1>13. QED
  BY <1>8, <1>9, <1>10, <1>11, <1>12 DEF SystemInv

\* The requests of the kill switch are ids of orders.
LEMMA KillRequestsFacts ==
    ASSUME SystemInv
    PROVE  KillRequests \in Seq(Id) /\ Range(KillRequests) = pending
<1>1. pending \subseteq Id /\ Id = 1..MaxOrders /\ MaxOrders \in Nat
  BY GatewayAssumption DEF SystemInv, TypeOK, Id
<1>2. IsFiniteSet(pending) /\ pending \in SUBSET Nat
  <2>1. IsFiniteSet(Id)
    BY <1>1, CountUpTo
  <2>2. pending \in SUBSET Id /\ Id \subseteq Nat
    BY <1>1
  <2>3. IsFiniteSet(pending)
    BY <2>1, <2>2, FS_Subset
  <2>4. QED
    BY <2>2, <2>3
<1>3. InOrder(pending) \in Seq(pending) /\ Range(InOrder(pending)) = pending
  BY <1>2, InOrderLists
<1>4. QED
  BY <1>1, <1>3, SeqMonotonic DEF KillRequests

LEMMA KillSwitchKeeps ==
    ASSUME SystemInv, KillSwitch, UNCHANGED <<bookvars, tape, missed>>
    PROVE  SystemInv'
<1>1. /\ kill' = TRUE /\ pending' = {} /\ cancels' = cancels \o KillRequests
      /\ UNCHANGED <<now, positions, sides, buckets, sent, passed, egress, execs>>
      /\ UNCHANGED <<arrived, terms, left, value, resting, active, tape, missed>>
  BY DEF KillSwitch, bookvars
<1>2. cancels' \in Seq(Id)
  <2>1. cancels \in Seq(Id) /\ KillRequests \in Seq(Id)
    BY KillRequestsFacts DEF SystemInv, TypeOK
  <2>2. QED
    BY <1>1, <2>1, ConcatProperties
<1>3. TypeOK'
  BY <1>1, <1>2 DEF SystemInv, TypeOK
<1>4. BucketsSound' /\ Matching' /\ ReportsSound'
  BY <1>1 DEF SystemInv, BucketsSound, Matching, ReportsSound, Sound
<1>5. Journey' /\ PendingKept'
  BY <1>1 DEF SystemInv, Journey, Served, PendingKept
<1>6. QED
  BY <1>3, <1>4, <1>5 DEF SystemInv

LEMMA ForwardCancelKeeps ==
    ASSUME SystemInv, NEW i \in Id, ForwardCancel(i), UNCHANGED <<bookvars, tape, missed>>
    PROVE  SystemInv'
<1>1. /\ cancels' = Append(cancels, i)
      /\ UNCHANGED <<now, positions, sides, pending, buckets, kill, sent, passed, egress, execs>>
      /\ UNCHANGED <<arrived, terms, left, value, resting, active, tape, missed>>
  BY DEF ForwardCancel, statevars, bookvars
<1>2. cancels' \in Seq(Id)
  BY <1>1, AppendProperties DEF SystemInv, TypeOK
<1>3. TypeOK'
  BY <1>1, <1>2 DEF SystemInv, TypeOK
<1>4. BucketsSound' /\ Matching' /\ ReportsSound'
  BY <1>1 DEF SystemInv, BucketsSound, Matching, ReportsSound, Sound
<1>5. Journey' /\ PendingKept'
  BY <1>1 DEF SystemInv, Journey, Served, PendingKept, Alive
<1>6. QED
  BY <1>3, <1>4, <1>5 DEF SystemInv

LEMMA TickKeeps ==
    ASSUME SystemInv, Clock
    PROVE  SystemInv'
<1>1. /\ now < MaxTime /\ now' = now + 1
      /\ UNCHANGED <<positions, sides, pending, buckets, kill, sent, passed, egress, cancels, execs>>
      /\ UNCHANGED <<arrived, terms, left, value, resting, active, tape, missed>>
  BY DEF Clock, Tick, statevars, bookvars
<1>2. now' \in 0..MaxTime /\ now \in Nat /\ MaxTime \in Nat
  BY <1>1, GatewayAssumption DEF SystemInv, TypeOK
<1>3. TypeOK'
  BY <1>1, <1>2 DEF SystemInv, TypeOK
<1>4. BucketsSound'
  <2> SUFFICES ASSUME NEW s \in Strategy, buckets[s] # NoBucket
               PROVE  buckets[s].last <= now' /\ buckets[s].tokens <= Capacity * Unit
    BY <1>1 DEF BucketsSound
  <2>1. buckets[s].last \in Nat /\ buckets[s].last <= now /\ buckets[s].tokens <= Capacity * Unit
    BY DEF SystemInv, BucketsSound, TypeOK, Bucket
  <2>2. QED
    BY <1>1, <1>2, <2>1
<1>5. Matching' /\ ReportsSound' /\ Journey' /\ PendingKept'
  BY <1>1 DEF SystemInv, Matching, ReportsSound, Sound, Journey, Served, PendingKept, Alive
<1>6. QED
  BY <1>3, <1>4, <1>5 DEF SystemInv

\* An order comes with the number after the last one: it is new to everybody.
LEMMA InboundOrderKeeps ==
    ASSUME SystemInv, NEW n \in Nos, InboundOrder(n), UNCHANGED <<bookvars, tape, missed>>
    PROVE  SystemInv'
<1>1. /\ n.id = Len(sent) + 1 /\ sent' = Append(sent, n)
      /\ UNCHANGED <<now, positions, kill, cancels, execs>>
      /\ UNCHANGED <<arrived, terms, left, value, resting, active, tape, missed>>
      /\ buckets' = IF FiltersOk(n)
                      THEN [buckets EXCEPT ![n.strategy] = Spent(@, now)] ELSE buckets
      /\ IF Passes(n)
           THEN /\ sides' = [sides EXCEPT ![n.id] = n.side]
                /\ pending' = pending \cup {n.id}
                /\ passed' = passed \cup {n.id}
                /\ egress' = Append(egress, n.id)
           ELSE UNCHANGED <<sides, pending, passed, egress>>
  BY DEF InboundOrder, bookvars
<1>2. /\ n \in Nos /\ n.id \in Id /\ n.strategy \in Strategy /\ n.side \in Side
      /\ MaxOrders \in Nat /\ Id = 1..MaxOrders
  BY GatewayAssumption DEF Nos, Id
<1>3. /\ sent \in Seq(Nos) /\ Len(sent) \in Nat /\ DOMAIN sent = 1..Len(sent)
      /\ sent' \in Seq(Nos) /\ Len(sent') = Len(sent) + 1
      /\ \A i \in Served : sent'[i] = sent[i]
      /\ sent'[n.id] = n
  <2>1. sent \in Seq(Nos)
    BY DEF SystemInv, TypeOK
  <2>2. QED
    BY <1>1, <1>2, <2>1, LenProperties, AppendProperties DEF Served
<1>4. Served' = Served \cup {n.id} /\ n.id \notin Served
  BY <1>1, <1>3 DEF Served
<1>5. /\ pending \subseteq passed /\ passed \subseteq Served /\ arrived \subseteq passed
      /\ Range(egress) \subseteq passed /\ IsInjective(egress)
      /\ Range(egress) \cap arrived = {} /\ egress \in Seq(Id)
  BY DEF SystemInv, Journey, TypeOK
<1>6. /\ egress' \in Seq(Id) /\ IsInjective(egress')
      /\ \/ egress' = egress /\ passed' = passed /\ pending' = pending
         \/ /\ Range(egress') = Range(egress) \cup {n.id}
            /\ passed' = passed \cup {n.id} /\ pending' = pending \cup {n.id}
  <2>1. n.id \notin Range(egress)
    BY <1>4, <1>5
  <2>2. CASE Passes(n)
    <3>1. egress' = Append(egress, n.id) /\ passed' = passed \cup {n.id} /\ pending' = pending \cup {n.id}
      BY <1>1, <2>2
    <3>2. Append(egress, n.id) \in Seq(Id)
      BY <1>2, <1>5, EntryAdded
    <3>3. Range(Append(egress, n.id)) = Range(egress) \cup {n.id} /\ IsInjective(Append(egress, n.id))
      BY <1>2, <1>5, <2>1, AppendedEntries
    <3>4. QED
      BY <3>1, <3>2, <3>3
  <2>3. CASE ~ Passes(n)
    BY <1>1, <1>5, <2>3
  <2>4. QED
    BY <2>2, <2>3
<1>7. /\ sides' \in [Id -> Side \cup {"none"}]
      /\ \A i \in Id : sides'[i] = "SELL" => sides[i] = "SELL" \/ (i = n.id /\ n.side = "SELL")
  <2>1. sides \in [Id -> Side \cup {"none"}]
    BY DEF SystemInv, TypeOK
  <2>2. QED
    BY <1>1, <1>2, <2>1
<1>8. buckets' \in [Strategy -> Bucket \cup {NoBucket}] /\ BucketsSound'
  <2> DEFINE s == n.strategy
             b == Spent(buckets[s], now)
  <2>2. /\ buckets[s] \in Bucket \cup {NoBucket} /\ now \in Nat
        /\ buckets[s] # NoBucket => buckets[s].last <= now /\ buckets[s].tokens <= Capacity * Unit
        /\ buckets \in [Strategy -> Bucket \cup {NoBucket}]
    BY <1>2, GatewayAssumption DEF SystemInv, TypeOK, BucketsSound
  <2>3. b \in Bucket /\ b.last = now /\ b.tokens <= Capacity * Unit
    BY <2>2, SpentKeeps
  <2> HIDE DEF b
  <2>4. buckets' = IF FiltersOk(n) THEN [buckets EXCEPT ![s] = b] ELSE buckets
    BY <1>1 DEF b
  <2>5. buckets' \in [Strategy -> Bucket \cup {NoBucket}]
    BY <1>2, <2>2, <2>3, <2>4
  <2>6. ASSUME NEW t \in Strategy, buckets'[t] # NoBucket
        PROVE  buckets'[t].last <= now' /\ buckets'[t].tokens <= Capacity * Unit
    <3>1. CASE FiltersOk(n) /\ t = s
      BY <1>1, <2>2, <2>3, <2>4, <3>1
    <3>2. CASE ~ (FiltersOk(n) /\ t = s)
      <4>1. buckets'[t] = buckets[t] /\ now' = now
        BY <1>1, <2>2, <2>4, <3>2
      <4>2. QED
        BY <2>6, <4>1 DEF SystemInv, BucketsSound
    <3>3. QED
      BY <3>1, <3>2
  <2>7. QED
    BY <2>5, <2>6 DEF BucketsSound
<1>9. TypeOK'
  <2>1. passed' \subseteq Id /\ pending' \subseteq Id /\ Len(sent') <= MaxOrders
    <3>1. passed \subseteq Id /\ pending \subseteq Id
      BY DEF SystemInv, TypeOK
    <3>2. Len(sent') <= MaxOrders
      BY <1>1, <1>2, <1>3
    <3>3. QED
      BY <1>2, <1>6, <3>1, <3>2
  <2>2. QED
    BY <1>1, <1>3, <1>6, <1>7, <1>8, <2>1 DEF SystemInv, TypeOK
<1>10. Journey'
  <2>1. \A i \in Served' : sent'[i].id = i
    BY <1>3, <1>4 DEF SystemInv, Journey
  <2>2. /\ pending' \subseteq passed' /\ passed' \subseteq Served'
        /\ Range(egress') \subseteq passed' /\ arrived' \subseteq passed'
        /\ Range(egress') \cap arrived' = {}
    BY <1>1, <1>4, <1>5, <1>6
  <2>3. ASSUME NEW i \in Id, sides'[i] = "SELL"
        PROVE  i \in Served' /\ sent'[i].side = "SELL"
    BY <1>3, <1>4, <1>7, <2>3 DEF SystemInv, Journey
  <2>4. QED
    BY <1>6, <2>1, <2>2, <2>3 DEF Journey
<1>11. Matching' /\ ReportsSound'
  BY <1>1 DEF SystemInv, Matching, ReportsSound, Sound
<1>12. PendingKept'
  BY <1>1, <1>6 DEF SystemInv, PendingKept, Alive
<1>13. QED
  BY <1>8, <1>9, <1>10, <1>11, <1>12 DEF SystemInv

-----------------------------------------------------------------------------
\* The oldest order on order_egress enters the book with all of its quantity,
\* and is tracked by the gateway since it was forwarded.
LEMMA EngineTakeKeeps ==
    ASSUME SystemInv, EngineTake
    PROVE  /\ SystemInv'
           /\ LET i == Head(egress) IN
                /\ i \in Id /\ i \notin arrived /\ sent[i].qty \in Nat
                /\ arrived' = arrived \cup {i} /\ left' = [left EXCEPT ![i] = sent[i].qty]
                /\ tape' = <<>> /\ tape = <<>>
<1> DEFINE i == Head(egress)
           n == sent[i]
<1>1. /\ egress # <<>> /\ egress \in Seq(Id) /\ IsInjective(egress)
      /\ Range(egress) \subseteq passed /\ passed \subseteq Served
      /\ Range(egress) \cap arrived = {}
      /\ \A k \in Served : sent[k].id = k
  BY DEF EngineTake, SystemInv, TypeOK, Journey
<1>2. /\ i \in Id /\ i \in Range(egress) /\ Tail(egress) \in Seq(Id)
      /\ Range(Tail(egress)) = Range(egress) \ {i} /\ IsInjective(Tail(egress))
  BY <1>1, OldestTaken, PoppedEntries
<1>3. i \in Served /\ i \in passed /\ i \notin arrived /\ n.id = i
  BY <1>1, <1>2
<1>4. n.qty \in Nat /\ n.qty > 0
  <2>1. n \in Nos
    BY <1>3, ServedOrders DEF SystemInv
  <2>2. Quantity \subseteq Nat \ {0}
    BY GatewayAssumption
  <2> HIDE DEF n
  <2>3. n.qty \in Quantity
    BY <2>1 DEF Nos
  <2>4. n.qty \in Nat \ {0}
    BY <2>2, <2>3, Zenon
  <2>5. QED
    BY <2>4
<1>5. /\ active = Book!NoOrder
      /\ arrived' = arrived \cup {i} /\ left' = [left EXCEPT ![i] = n.qty]
      /\ active' = i /\ resting' = resting
      /\ egress' = Tail(egress)
      /\ UNCHANGED <<now, positions, sides, pending, buckets, kill, sent, passed, cancels>>
      /\ UNCHANGED <<execs, tape, missed>>
  BY <1>3 DEF EngineTake, Book!Arrive, statevars
<1> HIDE DEF n
<1>6. left \in [Id -> Nat] /\ left' \in [Id -> Nat] /\ resting \subseteq arrived
  BY <1>2, <1>4, <1>5 DEF SystemInv, Matching, TypeOK
<1>7. TypeOK'
  BY <1>2, <1>5 DEF SystemInv, TypeOK
<1>8. BucketsSound'
  BY <1>5 DEF SystemInv, BucketsSound
<1>9. Journey'
  BY <1>2, <1>3, <1>5 DEF SystemInv, Journey, Served
<1> HIDE DEF i
<1>10. tape = <<>> /\ i # Book!NoOrder
  <2>1. i # 0
    BY <1>2 DEF Id
  <2>2. QED
    BY <1>5, <2>1 DEF SystemInv, Matching, Book!NoOrder
<1>11. Matching'
  <2>1. \A k \in resting' : left'[k] > 0
    BY <1>2, <1>3, <1>5, <1>6 DEF SystemInv, Matching
  <2>2. active' \in arrived' /\ active' \notin resting' /\ active' # Book!NoOrder
    BY <1>3, <1>5, <1>6, <1>10
  <2>3. \A f \in Range(tape') : f[1] \in arrived'
    BY <1>5 DEF SystemInv, Matching
  <2>4. QED
    BY <1>6, <2>1, <2>2, <2>3 DEF Matching, Book!NoOrder
<1>12. ReportsSound'
  <2> SUFFICES ASSUME NEW r \in Range(execs) PROVE Sound(r)'
    BY <1>5 DEF ReportsSound
  <2>1. Sound(r)
    BY DEF SystemInv, ReportsSound
  <2>2. r.id \in Id /\ r.id # i
    BY <1>3, <2>1 DEF Sound, SystemInv, TypeOK
  <2>3. left'[r.id] = left[r.id] /\ r.id \in arrived'
    BY <1>2, <1>5, <1>6, <2>1, <2>2 DEF Sound
  <2>4. QED
    BY <2>1, <2>3 DEF Sound
<1>13. PendingKept'
  <2>1. Alive' \subseteq Alive
    BY <1>2, <1>5 DEF Alive, i
  <2>2. QED
    BY <1>5, <2>1 DEF SystemInv, PendingKept
<1>14. QED
  BY <1>2, <1>3, <1>4, <1>5, <1>7, <1>8, <1>9, <1>10, <1>11, <1>12, <1>13 DEF SystemInv, i, n

\* A trade takes its quantity from both orders: what is left shrinks, and an
\* order that has nothing left does not rest.
LEMMA EngineTradeKeeps ==
    ASSUME SystemInv, EngineTrade
    PROVE  /\ SystemInv'
           /\ active \in Id /\ active' = active
           /\ \E r \in Id, q \in Nat :
                 /\ r # active /\ r \in arrived /\ active \in arrived
                 /\ left[r] >= q /\ left[active] >= q
                 /\ left' = [left EXCEPT ![r] = @ - q, ![active] = @ - q]
                 /\ tape' = Append(tape, <<r, q>>) /\ arrived' = arrived
<1>1. PICK r \in resting : /\ Book!Trade(r)
                           /\ tape' = Append(tape, <<r, left[r] - left'[r]>>)
  BY DEF EngineTrade
<1> DEFINE q == IF left[r] < left[active] THEN left[r] ELSE left[active]
<1>2. /\ left \in [Id -> Nat] /\ resting \subseteq arrived /\ arrived \subseteq Id
      /\ active # Book!NoOrder /\ active \in Id /\ active \in arrived /\ active \notin resting
      /\ r \in Id /\ r # active /\ left[active] > 0 /\ left[r] > 0
      /\ tape \in Seq(Id \X Nat)
  BY <1>1 DEF SystemInv, TypeOK, Matching, Book!Trade
<1>3. /\ q \in Nat /\ q > 0 /\ q <= left[r] /\ q <= left[active]
  BY <1>2
<1>4. /\ left' = [left EXCEPT ![r] = @ - q, ![active] = @ - q]
      /\ resting' = IF left[r] = q THEN resting \ {r} ELSE resting
      /\ UNCHANGED <<arrived, active>>
      /\ UNCHANGED <<now, positions, sides, pending, buckets, kill, sent, passed, egress>>
      /\ UNCHANGED <<cancels, execs, missed>>
  BY <1>1 DEF Book!Trade, EngineTrade, rgvars, statevars
<1> HIDE DEF q
<1>5. /\ left' \in [Id -> Nat] /\ left'[r] = left[r] - q
      /\ left'[active] = left[active] - q
      /\ \A i \in Id : left'[i] <= left[i] /\ (i \notin {r, active} => left'[i] = left[i])
  BY <1>2, <1>3, <1>4
<1>6. tape' = Append(tape, <<r, q>>)
  BY <1>1, <1>2, <1>3, <1>5
<1>7. tape' \in Seq(Id \X Nat) /\ Range(tape') = Range(tape) \cup {<<r, q>>}
  <2>1. <<r, q>> \in Id \X Nat
    BY <1>2, <1>3
  <2> DEFINE e == <<r, q>>
  <2>2. e \in Id \X Nat /\ tape \in Seq(Id \X Nat) /\ tape' = Append(tape, e)
    BY <1>2, <1>6, <2>1
  <2> HIDE DEF e
  <2>3. tape' \in Seq(Id \X Nat) /\ Range(tape') = Range(tape) \cup {e}
    BY <2>2, EntryAdded
  <2>4. QED
    BY <2>3 DEF e
<1>8. TypeOK'
  BY <1>2, <1>4, <1>7 DEF SystemInv, TypeOK
<1>9. BucketsSound' /\ Journey'
  BY <1>4 DEF SystemInv, BucketsSound, Journey, Served
<1>10. Matching'
  <2>1. \A i \in resting' : left'[i] > 0
    <3> SUFFICES ASSUME NEW i \in resting' PROVE left'[i] > 0
      OBVIOUS
    <3>1. i \in resting /\ i # active /\ i \in Id /\ left[i] > 0
      BY <1>2, <1>4 DEF SystemInv, Matching
    <3>2. CASE i = r
      BY <1>2, <1>3, <1>4, <1>5, <3>2
    <3>3. CASE i # r
      BY <1>5, <3>1, <3>3
    <3>4. QED
      BY <3>2, <3>3
  <2>2. \A f \in Range(tape') : f[1] \in arrived
    BY <1>2, <1>7 DEF SystemInv, Matching
  <2>3. QED
    BY <1>2, <1>4, <1>5, <2>1, <2>2 DEF Matching, Book!NoOrder
<1>11. ReportsSound'
  <2> SUFFICES ASSUME NEW p \in Range(execs) PROVE Sound(p)'
    BY <1>4 DEF ReportsSound
  <2>1. Sound(p) /\ p.id \in Id
    BY <1>2 DEF SystemInv, ReportsSound, Sound
  <2>2. left[p.id] = 0 => left'[p.id] = 0
    BY <1>2, <1>5, <2>1
  <2>3. QED
    BY <1>4, <2>1, <2>2 DEF Sound
<1>12. PendingKept'
  <2>1. Alive' \subseteq Alive
    BY <1>2, <1>4 DEF Alive
  <2>2. QED
    BY <1>4, <2>1 DEF SystemInv, PendingKept
<1>13. SystemInv'
  BY <1>8, <1>9, <1>10, <1>11, <1>12 DEF SystemInv
<1>14. QED
  BY <1>2, <1>3, <1>4, <1>6, <1>13

\* What an order that stops leaves behind, and reports that are sound, are all
\* the invariant sees of a settlement and of a cancel.
LEMMA PublishKeeps ==
    ASSUME SystemInv, NEW q \in Seq(Report), \A r \in Range(q) : Sound(r), Publish(q),
           UNCHANGED <<now, statevars, sent, passed, egress, arrived, left>>,
           cancels' \in Seq(Id), active' = Book!NoOrder, tape' = <<>>,
           resting' \subseteq resting \cup {i \in {active} \cap Id : left[i] > 0}
    PROVE  SystemInv'
<1>1. UNCHANGED <<now, positions, sides, pending, buckets, kill, sent, passed, egress, arrived, left>>
  BY DEF statevars
<1>2. /\ execs' \in Seq(Report) /\ missed' \in [Strategy -> Int]
      /\ Range(execs') \subseteq Range(execs) \cup Range(q)
  <2>1. execs \in Seq(Report) /\ missed \in [Strategy -> Int]
    BY DEF SystemInv, TypeOK
  <2>2. QED
    BY <2>1, PublishStep
<1>3. /\ resting' \subseteq arrived /\ \A i \in resting' : left[i] > 0
  BY DEF SystemInv, Matching, TypeOK, Id, Book!NoOrder
<1>4. TypeOK'
  <2>1. tape' \in Seq(Id \X Nat)
    BY EmptySeq
  <2>2. QED
    BY <1>1, <1>2, <1>3, <2>1 DEF SystemInv, TypeOK
<1>5. BucketsSound' /\ Journey'
  BY <1>1 DEF SystemInv, BucketsSound, Journey, Served
<1>6. Matching'
  <2>1. Range(tape') = {}
    BY DEF Range
  <2>2. QED
    BY <1>1, <1>3, <2>1 DEF SystemInv, Matching, Book!NoOrder
<1>7. ReportsSound'
  BY <1>1, <1>2 DEF SystemInv, ReportsSound, Sound
<1>8. PendingKept'
  <2>1. Alive' \subseteq Alive
    BY <1>1 DEF Alive, Id, Book!NoOrder
  <2>2. QED
    BY <1>1, <2>1 DEF SystemInv, PendingKept
<1>9. QED
  BY <1>4, <1>5, <1>6, <1>7, <1>8 DEF SystemInv

LEMMA EngineSettleKeeps ==
    ASSUME SystemInv, EngineSettle
    PROVE  SystemInv'
<1>1. /\ active # Book!NoOrder /\ active' = Book!NoOrder /\ tape' = <<>> /\ Publish(Reports)
      /\ UNCHANGED <<now, statevars, sent, passed, egress, arrived, left>>
      /\ cancels' = cancels
      /\ resting' \subseteq resting \cup (IF left[active] > 0 THEN {active} ELSE {})
  BY DEF EngineSettle, Book!Settle
<1>2. Reports \in Seq(Report) /\ \A r \in Range(Reports) : Sound(r)
  BY <1>1, ReportsFacts DEF Told
<1>3. cancels' \in Seq(Id) /\ active \in Id
  BY <1>1 DEF SystemInv, TypeOK
<1>4. resting' \subseteq resting \cup {i \in {active} \cap Id : left[i] > 0}
  BY <1>1, <1>3
<1>5. QED
  BY <1>1, <1>2, <1>3, <1>4, PublishKeeps

\* The one report of a cancel.
LEMMA CancelReport ==
    ASSUME SystemInv, NEW i \in resting
    PROVE  LET q == <<Say(i, "CANCEL", 0)>> IN
              /\ q \in Seq(Report) /\ \A r \in Range(q) : Sound(r)
              /\ \A s : FillsOf(s, q) = 0
<1> DEFINE c == Say(i, "CANCEL", 0)
<1>1. i \in arrived /\ i \in Id
  BY DEF SystemInv, TypeOK
<1>2. c = [id |-> i, type |-> "CANCEL", qty |-> 0] /\ "CANCEL" \in ExecType
  BY DEF Say, ExecType
<1> HIDE DEF c
<1>3. c \in Report /\ Sound(c) /\ c.qty = 0
  BY <1>1, <1>2 DEF Report, Sound
<1>4. <<c>> \in Seq(Report) /\ Range(<<c>>) = {c}
  BY <1>3, FillsOne
<1>5. ASSUME NEW s PROVE FillsOf(s, <<c>>) = 0
  BY <1>3, FillsOne, NothingFilled
<1>6. QED
  BY <1>3, <1>4, <1>5 DEF c

LEMMA BookCancelKeeps ==
    ASSUME SystemInv, NEW i \in resting, Book!Cancel(i), Publish(<<Say(i, "CANCEL", 0)>>),
           UNCHANGED <<now, statevars, sent, passed, egress, tape>>, cancels' \in Seq(Id)
    PROVE  SystemInv'
<1> DEFINE q == <<Say(i, "CANCEL", 0)>>
<1>1. q \in Seq(Report) /\ \A r \in Range(q) : Sound(r)
  BY CancelReport
<1>2. /\ active = Book!NoOrder /\ active' = Book!NoOrder /\ tape' = <<>>
      /\ UNCHANGED <<now, statevars, sent, passed, egress, arrived, left>>
      /\ resting' \subseteq resting
  BY DEF Book!Cancel, SystemInv, Matching
<1>3. Publish(q)
  OBVIOUS
<1> HIDE DEF q
<1>4. QED
  BY <1>1, <1>2, <1>3, PublishKeeps

LEMMA EngineCancelKeeps ==
    ASSUME SystemInv, EngineCancel
    PROVE  SystemInv'
<1> DEFINE i == Head(cancels)
<1>1. cancels # <<>> /\ cancels \in Seq(Id) /\ cancels' = Tail(cancels)
  BY DEF EngineCancel, SystemInv, TypeOK
<1>2. cancels' \in Seq(Id)
  BY <1>1, OldestTaken
<1>3. CASE i \in resting
  <2>1. /\ Book!Cancel(i) /\ Publish(<<Say(i, "CANCEL", 0)>>)
        /\ UNCHANGED <<now, statevars, sent, passed, egress, tape>>
    BY <1>3 DEF EngineCancel
  <2> HIDE DEF i
  <2>2. QED
    BY <1>2, <1>3, <2>1, BookCancelKeeps
<1>4. CASE i \notin resting
  <2>1. /\ UNCHANGED <<now, positions, sides, pending, buckets, kill, sent, passed, egress, execs>>
        /\ UNCHANGED <<arrived, terms, left, value, resting, active, tape, missed>>
    BY <1>4 DEF EngineCancel, bookvars, statevars
  <2> HIDE DEF i
  <2>2. TypeOK'
    BY <1>2, <2>1 DEF SystemInv, TypeOK
  <2>3. BucketsSound' /\ Matching' /\ ReportsSound'
    BY <2>1 DEF SystemInv, BucketsSound, Matching, ReportsSound, Sound
  <2>4. Journey' /\ PendingKept'
    BY <2>1 DEF SystemInv, Journey, Served, PendingKept, Alive
  <2>5. QED
    BY <2>2, <2>3, <2>4 DEF SystemInv
<1>5. QED
  BY <1>3, <1>4

LEMMA EngineGcKeeps ==
    ASSUME SystemInv, NEW i \in Id, EngineGc(i)
    PROVE  SystemInv'
<1>1. /\ i \in resting /\ Book!Cancel(i) /\ Publish(<<Say(i, "CANCEL", 0)>>)
      /\ UNCHANGED <<now, statevars, sent, passed, egress, tape>> /\ cancels' \in Seq(Id)
  BY DEF EngineGc, SystemInv, TypeOK
<1>2. QED
  BY <1>1, BookCancelKeeps

LEMMA SystemInit ==
    ASSUME Init
    PROVE  SystemInv
<1>1. /\ now = 0 /\ positions = [s \in Strategy |-> 0] /\ sides = [i \in Id |-> "none"]
      /\ pending = {} /\ buckets = [s \in Strategy |-> NoBucket] /\ kill = FALSE
      /\ sent = <<>> /\ passed = {} /\ egress = <<>> /\ cancels = <<>> /\ execs = <<>>
      /\ arrived = {} /\ left = [i \in Id |-> 0] /\ resting = {} /\ active = Book!NoOrder
      /\ tape = <<>> /\ missed = [s \in Strategy |-> 0]
  BY DEF Init, RgInit, Book!Init
<1>2. Range(egress) = {} /\ Range(execs) = {} /\ Range(tape) = {} /\ IsInjective(egress)
  BY <1>1 DEF Range, IsInjective
<1>3. TypeOK
  <2>1. now \in 0..MaxTime /\ MaxOrders \in Nat
    BY <1>1, GatewayAssumption
  <2>2. /\ sent \in Seq(Nos) /\ Len(sent) <= MaxOrders
        /\ egress \in Seq(Id) /\ cancels \in Seq(Id) /\ execs \in Seq(Report)
        /\ tape \in Seq(Id \X Nat)
    BY <1>1, <2>1
  <2>3. /\ positions \in [Strategy -> Int] /\ missed \in [Strategy -> Int]
        /\ sides \in [Id -> Side \cup {"none"}]
        /\ buckets \in [Strategy -> Bucket \cup {NoBucket}]
    BY <1>1
  <2>4. QED
    BY <1>1, <2>1, <2>2, <2>3 DEF TypeOK
<1>4. BucketsSound /\ Matching /\ ReportsSound
  BY <1>1, <1>2 DEF BucketsSound, Matching, ReportsSound
<1>5. Journey /\ PendingKept
  <2>1. Len(sent) = 0 /\ Served = {}
    BY <1>1 DEF Served
  <2>2. 0 \notin Id
    BY DEF Id
  <2>3. Alive = {}
    BY <1>1, <1>2, <2>2 DEF Alive, Book!NoOrder
  <2>4. Journey
    BY <1>1, <1>2, <2>1 DEF Journey
  <2>5. QED
    BY <2>3, <2>4 DEF PendingKept
<1>6. QED
  BY <1>3, <1>4, <1>5 DEF SystemInv

LEMMA SystemStep ==
    ASSUME SystemInv, [Next]_vars
    PROVE  SystemInv'
<1>1. CASE Gateway
  <2>1. UNCHANGED <<bookvars, tape, missed>> /\ RgStep
    BY <1>1 DEF Gateway
  <2>2. QED
    BY <2>1, ReconcileKeeps, KillSwitchKeeps, InboundOrderKeeps, ForwardCancelKeeps, GatewayAssumption
       DEF RgStep, InboundCancel
<1>2. CASE Clock
  BY <1>2, TickKeeps
<1>3. CASE EngineMatch
  BY <1>3, EngineTakeKeeps, EngineTradeKeeps, EngineSettleKeeps DEF EngineMatch
<1>4. CASE EngineCancel \/ \E i \in Id : EngineGc(i)
  BY <1>4, EngineCancelKeeps, EngineGcKeeps
<1>5. CASE UNCHANGED vars
  <2>1. /\ UNCHANGED <<now, positions, sides, pending, buckets, kill, sent, passed, egress>>
        /\ UNCHANGED <<cancels, execs>>
        /\ UNCHANGED <<arrived, terms, left, value, resting, active, tape, missed>>
    BY <1>5 DEF vars, rgvars, statevars, bookvars
  <2>2. TypeOK' /\ BucketsSound' /\ Matching' /\ ReportsSound'
    BY <2>1 DEF SystemInv, TypeOK, BucketsSound, Matching, ReportsSound, Sound
  <2>3. Journey' /\ PendingKept'
    BY <2>1 DEF SystemInv, Journey, Served, PendingKept, Alive
  <2>4. QED
    BY <2>2, <2>3 DEF SystemInv
<1>6. QED
  BY <1>1, <1>2, <1>3, <1>4, <1>5 DEF Next

\* What every run of the two processes keeps.
THEOREM SystemSound == Spec => []SystemInv
<1>1. Init => SystemInv
  BY SystemInit
<1>2. SystemInv /\ [Next]_vars => SystemInv'
  BY SystemStep
<1>3. QED
  BY <1>1, <1>2, PTL DEF Spec

\* Every variable of the gateway and the engine has its type, and no more than
\* MaxOrders orders are served (risk_gateway.py:127-214, matching_engine.py:67-289).
THEOREM SystemTypeCorrect == Spec => []TypeOK
<1>1. SystemInv => TypeOK
  BY DEF SystemInv
<1>2. QED
  BY <1>1, SystemSound, PTL

\* When the operator presses the kill switch, a cancel goes out for every order
\* that can still trade, however many are under way, however far the reports
\* lag behind the book and however many were lost (risk_gateway.py:156-167).
THEOREM KillNamesThem == Spec => KillNamesEveryLiveOrder
<1>1. SystemInv /\ [Next]_vars => (~ kill /\ kill' => Alive \subseteq Range(cancels'))
  <2> SUFFICES ASSUME SystemInv, [Next]_vars, ~ kill, kill'
               PROVE  Alive \subseteq Range(cancels')
    OBVIOUS
  <2>1. KillSwitch
    <3>1. \/ kill' = kill \/ KillSwitch
      BY DEF Next, Gateway, RgStep, Reconcile, InboundOrder, InboundCancel, ForwardCancel,
             Clock, Tick, EngineMatch, EngineTake, EngineTrade, EngineSettle, EngineCancel,
             EngineGc, vars, rgvars, statevars
    <3>2. QED
      BY <3>1
  <2>2. cancels \in Seq(Id) /\ KillRequests \in Seq(Id) /\ Range(KillRequests) = pending
    BY KillRequestsFacts DEF SystemInv, TypeOK
  <2>3. Range(cancels \o KillRequests) = Range(cancels) \cup pending
    BY <2>2, RangeConcatenation
  <2>4. QED
    BY <2>1, <2>3 DEF KillSwitch, SystemInv, PendingKept
<1>2. QED
  BY <1>1, SystemSound, PTL DEF Spec, KillNamesEveryLiveOrder

-----------------------------------------------------------------------------
\* What of a strategy was forwarded is a number, and grows by one with an order
\* that passes.
LEMMA CountedStep ==
    ASSUME SystemInv, NEW n \in Inbound, n.id = Len(sent) + 1, sent' = Append(sent, n),
           NEW s \in Strategy
    PROVE  /\ Counted(s) \in Nat
           /\ passed' = passed => Counted(s)' = Counted(s)
           /\ passed' = passed \cup {n.id} =>
                 Counted(s)' = Counted(s) + IF n.strategy = s THEN 1 ELSE 0
<1> DEFINE C == {i \in passed : sent[i].strategy = s}
           D == {i \in passed' : sent'[i].strategy = s}
<1>1. passed \subseteq Served /\ passed \subseteq Id /\ MaxOrders \in Nat /\ Id = 1..MaxOrders
  BY GatewayAssumption DEF SystemInv, Journey, TypeOK, Id
<1>2. IsFiniteSet(C) /\ Cardinality(C) \in Nat
  <2>1. IsFiniteSet(1..MaxOrders)
    BY <1>1, CountUpTo
  <2>2. C \in SUBSET (1..MaxOrders)
    BY <1>1
  <2> HIDE DEF C
  <2>3. QED
    BY <2>1, <2>2, FS_Subset, FS_CardinalityType
<1>3. /\ \A i \in Served : sent'[i] = sent[i]
      /\ sent'[n.id] = n /\ n.id \notin Served
  <2>1. sent \in Seq(Nos) /\ n \in Nos
    BY GatewayAssumption DEF SystemInv, TypeOK
  <2>2. QED
    BY <2>1, LenProperties, AppendProperties DEF Served
<1>4. passed' = passed => D = C
  BY <1>1, <1>3
<1>5. passed' = passed \cup {n.id} => D = C \cup (IF n.strategy = s THEN {n.id} ELSE {})
  BY <1>1, <1>3
<1>6. n.id \notin C
  BY <1>1, <1>3
<1>7. Counted(s) = Cardinality(C) /\ Counted(s)' = Cardinality(D)
  BY DEF Counted
<1> HIDE DEF C, D
<1>8. Cardinality(C \cup {n.id}) = Cardinality(C) + 1
  BY <1>2, <1>6, FS_AddElement
<1>9. passed' = passed \cup {n.id} =>
         Cardinality(D) = Cardinality(C) + IF n.strategy = s THEN 1 ELSE 0
  <2>1. CASE n.strategy = s
    BY <1>5, <1>8, <2>1
  <2>2. CASE n.strategy # s
    <3>1. passed' = passed \cup {n.id} => D = C
      BY <1>5, <2>2
    <3>2. QED
      BY <1>2, <2>2, <3>1
  <2>3. QED
    BY <2>1, <2>2
<1>10. QED
  BY <1>2, <1>4, <1>7, <1>9

\* A step of the gateway is a step of the rate limiter, or none.
LEMMA LimiterStep ==
    ASSUME SystemInv, [Next]_vars
    PROVE  [Limiter!Next]_(Limiter!vars)
<1> DEFINE zeros == [s \in Strategy |-> 0]
           count == [s \in Strategy |-> Counted(s)]
<1>1. zeros' = zeros
  OBVIOUS
<1>2. CASE \E n \in Inbound : InboundOrder(n)
  <2>1. PICK n \in Inbound : InboundOrder(n)
    BY <1>2
  <2> DEFINE s == n.strategy
  <2>2. /\ n.id = Len(sent) + 1 /\ sent' = Append(sent, n) /\ now' = now
        /\ buckets' = IF FiltersOk(n) THEN [buckets EXCEPT ![s] = Spent(@, now)] ELSE buckets
        /\ passed' = IF Passes(n) THEN passed \cup {n.id} ELSE passed
    BY <2>1 DEF InboundOrder
  <2>3. \A t \in Strategy :
           /\ Counted(t) \in Nat
           /\ passed' = passed => Counted(t)' = Counted(t)
           /\ passed' = passed \cup {n.id} =>
                 Counted(t)' = Counted(t) + IF n.strategy = t THEN 1 ELSE 0
    BY <2>2, CountedStep
  <2>4. s \in Strategy /\ buckets \in [Strategy -> Bucket \cup {NoBucket}]
    BY GatewayAssumption DEF SystemInv, TypeOK, Nos
  <2>5. CASE FiltersOk(n)
    <3>1. buckets' = [buckets EXCEPT ![s] = Limiter!Spent(@, now)]
      <4>1. \A b : Limiter!Spent(b, now) = Spent(b, now)
        BY DEF Limiter!Spent, Spent, Limiter!Refill, Refill, Limiter!Opened, Opened,
               Limiter!NoBucket, NoBucket
      <4>2. QED
        BY <2>2, <2>5, <4>1
    <3>2. count' = [count EXCEPT ![s] = IF Limiter!HasToken(buckets[s], now) THEN @ + 1 ELSE @]
      <4>1. Limiter!HasToken(buckets[s], now) <=> HasToken(buckets[s], now)
        BY DEF Limiter!HasToken, HasToken, Limiter!Refill, Refill, Limiter!Opened, Opened,
               Limiter!NoBucket, NoBucket
      <4>2. Passes(n) <=> HasToken(buckets[s], now)
        BY <2>5 DEF Passes
      <4>3. \A t \in Strategy : Counted(t)' = Counted(t) + IF Passes(n) /\ t = s THEN 1 ELSE 0
        BY <2>2, <2>3
      <4>4. QED
        BY <2>3, <2>4, <4>1, <4>2, <4>3
    <3>3. Limiter!Check(s)
      BY <1>1, <2>2, <3>1, <3>2 DEF Limiter!Check
    <3>4. QED
      BY <2>4, <3>3 DEF Limiter!Next
  <2>6. CASE ~ FiltersOk(n)
    <3>1. ~ Passes(n)
      BY <2>6 DEF Passes
    <3>2. now' = now /\ buckets' = buckets /\ count' = count
      BY <2>2, <2>3, <2>6, <3>1
    <3>3. Limiter!vars' = Limiter!vars
      BY <1>1, <3>2 DEF Limiter!vars
    <3>4. QED
      BY <3>3
  <2>7. QED
    BY <2>5, <2>6
<1>3. CASE Clock
  <2>1. now < MaxTime /\ now' = now + 1 /\ UNCHANGED <<buckets, passed, sent>>
    BY <1>3 DEF Clock, Tick, statevars
  <2>2. count' = count
    BY <2>1 DEF Counted
  <2>3. Limiter!Tick
    BY <1>1, <2>1, <2>2 DEF Limiter!Tick
  <2>4. QED
    BY <2>3 DEF Limiter!Next
<1>4. CASE UNCHANGED <<now, buckets, passed, sent>>
  <2>1. count' = count
    BY <1>4 DEF Counted
  <2>2. Limiter!vars' = Limiter!vars
    BY <1>1, <1>4, <2>1 DEF Limiter!vars
  <2>3. QED
    BY <2>2
<1>5. \/ \E n \in Inbound : InboundOrder(n)
      \/ Clock
      \/ UNCHANGED <<now, buckets, passed, sent>>
  BY DEF Next, Gateway, RgStep, Reconcile, KillSwitch, InboundCancel, ForwardCancel, EngineMatch,
         EngineTake, EngineTrade, EngineSettle, EngineCancel, EngineGc, vars, rgvars, statevars
<1>6. QED
  BY <1>2, <1>3, <1>4, <1>5

\* RISK-03 behind the other filters, for any strategies, orders and prices: no
\* more orders of a strategy go through than its bucket and the rate allow.  The
\* gateway implements RateLimiter, and its bound is the one proved there
\* (risk_gateway.py:41-57, 203-214).
THEOREM ForwardRateBounded == Spec => []ForwardRate
<1>1. Limiter!FilterAssumption /\ Limiter!TimeAssumption
  BY FilterAssumption, GatewayAssumption DEF Limiter!FilterAssumption, Limiter!TimeAssumption
<1>2. Init => Limiter!Init
  <2> SUFFICES ASSUME Init PROVE Limiter!Init
    OBVIOUS
  <2>1. now = 0 /\ buckets = [s \in Strategy |-> NoBucket] /\ passed = {}
    BY DEF Init, RgInit
  <2>2. \A s : Counted(s) = 0
    BY <2>1, FS_EmptySet DEF Counted
  <2>3. Limiter!NoBucket = NoBucket
    BY DEF Limiter!NoBucket, NoBucket
  <2>4. QED
    BY <2>1, <2>2, <2>3 DEF Limiter!Init
<1>3. SystemInv /\ [Next]_vars => [Limiter!Next]_(Limiter!vars)
  BY LimiterStep
<1>4. Spec => Limiter!Spec
  BY <1>2, <1>3, SystemSound, PTL DEF Spec, Limiter!Spec
<1>5. Limiter!Spec => []Limiter!RateBound
  BY <1>1, Limiter!RateIsBounded
<1>6. SystemInv /\ Limiter!RateBound => ForwardRate
  <2> SUFFICES ASSUME SystemInv, Limiter!RateBound, NEW s \in Strategy
               PROVE  Counted(s) * Unit <= Capacity * Unit + now * Rate
    BY DEF ForwardRate, Counted
  <2>1. Counted(s) * Unit <= Capacity * Unit + (now - 0) * Rate
    BY DEF Limiter!RateBound
  <2>2. now - 0 = now
    BY GatewayAssumption DEF SystemInv, TypeOK
  <2>3. QED
    BY <2>1, <2>2
<1>7. QED
  BY <1>4, <1>5, <1>6, SystemSound, PTL

-----------------------------------------------------------------------------
\* A strategy that only buys.
OnlyBuys(s) == \A k \in DOMAIN sent : sent[k].strategy = s => sent[k].side = "BUY"

\* The ledger at every moment: booked, reported and on its way, lost, traded and
\* not reported yet.  It is what the strategy has bought so far.
Ledger ==
    \A s \in Strategy : OnlyBuys(s) =>
        positions[s] + FillsOf(s, execs) + missed[s] + TapeOf(s) = Bought(s)

Buys(s) == {j \in arrived : sent[j].strategy = s /\ sent[j].side = "BUY"}
Done(i) == sent[i].qty - left[i]

\* What was bought is a sum over a finite set of orders.
BoughtFacts(s) ==
    /\ Buys(s) \subseteq arrived /\ IsFiniteSet(Buys(s))
    /\ \A i \in arrived : Done(i) \in Int
    /\ Bought(s) = SumFunctionOnSet([i \in Buys(s) |-> Done(i)], Buys(s))
    /\ Bought(s) \in Int

BoughtSums == \A s : BoughtFacts(s)

LEMMA BoughtIsSum == SystemInv => BoughtSums
<1> SUFFICES ASSUME SystemInv, NEW s PROVE BoughtFacts(s)
  BY DEF BoughtSums
<1>1. arrived \subseteq Served /\ arrived \subseteq Id /\ Id = 1..MaxOrders /\ MaxOrders \in Nat
  BY GatewayAssumption DEF SystemInv, TypeOK, Journey, Id
<1>2. IsFiniteSet(Buys(s)) /\ Buys(s) \subseteq arrived
  <2>1. IsFiniteSet(Id)
    BY <1>1, CountUpTo
  <2>2. Buys(s) \in SUBSET Id
    BY <1>1 DEF Buys
  <2>3. QED
    BY <2>1, <2>2, FS_Subset DEF Buys
<1>3. \A i \in arrived : Done(i) \in Int
  <2> SUFFICES ASSUME NEW i \in arrived PROVE Done(i) \in Int
    OBVIOUS
  <2>1. sent[i] \in Nos /\ left[i] \in Nat
    BY <1>1, ServedOrders DEF SystemInv, Matching
  <2>2. sent[i].qty \in Nat
    BY <2>1, GatewayAssumption DEF Nos
  <2>3. QED
    BY <2>1, <2>2 DEF Done
<1> DEFINE f == [i \in Buys(s) |-> Done(i)]
<1>4. Bought(s) = SumFunctionOnSet(f, Buys(s))
  <2>1. DOMAIN f = Buys(s)
    OBVIOUS
  <2>2. Bought(s) = SumFunction(f)
    BY DEF Bought, Traded, Buys, Done
  <2> HIDE DEF f
  <2>3. QED
    BY <2>1, <2>2, Zenon DEF SumFunction
<1>5. \A i \in Buys(s) : f[i] \in Int
  BY <1>2, <1>3
<1> HIDE DEF f
<1>6. SumFunctionOnSet(f, Buys(s)) \in Int
  BY <1>2, <1>5, SumBase
<1>7. QED
  BY <1>2, <1>3, <1>4, <1>6 DEF f, BoughtFacts

\* The terms of the ledger are numbers.
LEMMA LedgerTypes ==
    ASSUME SystemInv, NEW s \in Strategy
    PROVE  /\ positions[s] \in Int /\ FillsOf(s, execs) \in Int /\ missed[s] \in Int
           /\ TapeOf(s) \in Int
<1>1. positions[s] \in Int /\ missed[s] \in Int /\ execs \in Seq(Report)
  BY DEF SystemInv, TypeOK
<1>2. FillsOf(s, execs) \in Int
  BY <1>1, FillsType
<1>3. CASE active = Book!NoOrder
  <2>1. [k \in DOMAIN tape |-> PairFill(s, k)] = <<>>
    BY <1>3 DEF SystemInv, Matching
  <2>2. QED
    BY <1>1, <1>2, <2>1, SumSeqType, EmptySeq DEF TapeOf
<1>4. CASE active # Book!NoOrder
  <2>1. Reports \in Seq(Report) /\ FillsOf(s, Reports) = TapeOf(s)
    BY <1>4, ReportsFacts
  <2>2. QED
    BY <1>1, <1>2, <2>1, FillsType
<1>5. QED
  BY <1>3, <1>4

\* Steps that neither trade nor report leave the ledger as it is.
LEMMA LedgerSame ==
    ASSUME SystemInv, Ledger,
           UNCHANGED <<positions, sent, execs, missed, tape, arrived, left, active>>
    PROVE  Ledger'
BY DEF Ledger, OnlyBuys, FillsOf, FillOf, TapeOf, PairFill, Fill, Bought, Traded

\* What the gateway books for a report is what the report tells of.
LEMMA ReconcileLedger ==
    ASSUME SystemInv, Ledger, Reconcile, UNCHANGED <<bookvars, tape, missed>>
    PROVE  Ledger'
<1> DEFINE r == Head(execs)
<1>1. /\ execs \in Seq(Report) /\ execs # <<>> /\ execs' = Tail(execs)
      /\ UNCHANGED <<sent, arrived, left, active, tape, missed>>
      /\ positions' = IF r.type \in {"FILL", "PARTIAL"}
                        THEN [positions EXCEPT ![sent[r.id].strategy] = @ + Delta(r)]
                        ELSE positions
  BY DEF SystemInv, TypeOK, Reconcile, bookvars
<1>2. /\ r \in Report /\ r \in Range(execs) /\ <<r>> \in Seq(Report)
      /\ execs' \in Seq(Report) /\ execs = <<r>> \o execs'
  BY <1>1, OldestTaken, HeadThenTail
<1>3. Sound(r)
  BY <1>2 DEF SystemInv, ReportsSound
<1>4. r.id \in Served /\ r.id \in Id /\ r.id \in DOMAIN sent /\ r.qty \in Nat
  <2>1. r.id \in Served
    BY <1>3 DEF SystemInv, Journey, Sound
  <2>2. QED
    BY <1>2, <2>1, ServedOrders DEF SystemInv, Report
<1> HIDE DEF r
<1>5. SUFFICES ASSUME NEW s \in Strategy, OnlyBuys(s)
               PROVE  (positions[s] + FillsOf(s, execs) + missed[s] + TapeOf(s) = Bought(s))'
  BY <1>1 DEF Ledger, OnlyBuys
<1>6. positions[s] + FillsOf(s, execs) + missed[s] + TapeOf(s) = Bought(s)
  BY <1>5 DEF Ledger
<1>7. FillsOf(s, execs) = FillOf(s, r) + FillsOf(s, execs')
  <2>1. FillsOf(s, <<r>> \o execs') = FillsOf(s, <<r>>) + FillsOf(s, execs')
    BY <1>2, FillsConcat
  <2>2. FillsOf(s, <<r>>) = FillOf(s, r)
    BY <1>2, FillsOne
  <2>3. QED
    BY <1>2, <2>1, <2>2
<1>8. positions'[s] = positions[s] + FillOf(s, r)
  <2>1. positions \in [Strategy -> Int]
    BY DEF SystemInv, TypeOK
  <2>2. CASE sent[r.id].strategy = s /\ r.type \in {"FILL", "PARTIAL"}
    <3>1. sent[r.id].side = "BUY" /\ sides[r.id] # "SELL"
      BY <1>4, <1>5, <2>2 DEF OnlyBuys, SystemInv, Journey
    <3>2. Delta(r) = r.qty /\ FillOf(s, r) = r.qty
      BY <2>2, <3>1 DEF Delta, FillOf, Signed
    <3>3. positions' = [positions EXCEPT ![s] = @ + r.qty]
      BY <1>1, <2>2, <3>2
    <3>4. QED
      BY <1>4, <2>1, <3>2, <3>3
  <2>3. CASE sent[r.id].strategy # s
    <3>1. FillOf(s, r) = 0
      BY <2>3 DEF FillOf
    <3>2. positions'[s] = positions[s]
      BY <1>1, <2>1, <2>3
    <3>3. QED
      BY <2>1, <3>1, <3>2
  <2>4. CASE r.type \notin {"FILL", "PARTIAL"}
    <3>1. FillOf(s, r) = 0
      BY <1>3, <2>4, NothingFilled DEF Sound
    <3>2. QED
      BY <1>1, <2>1, <2>4, <3>1
  <2>5. QED
    BY <2>2, <2>3, <2>4
<1>9. /\ FillsOf(s, execs)' = FillsOf(s, execs') /\ TapeOf(s)' = TapeOf(s)
      /\ Bought(s)' = Bought(s) /\ missed'[s] = missed[s]
  BY <1>1 DEF FillsOf, FillOf, TapeOf, PairFill, Fill, Bought, Traded
<1>10. /\ positions[s] \in Int /\ FillOf(s, r) \in Int /\ FillsOf(s, execs') \in Int
       /\ missed[s] \in Int /\ TapeOf(s) \in Int
  BY <1>2, LedgerTypes, FillsType
<1>11. QED
  BY <1>6, <1>7, <1>8, <1>9, <1>10

\* What is published is on its way or lost, and is counted once.
LEMMA PublishLedger ==
    ASSUME SystemInv, NEW s \in Strategy, NEW q \in Seq(Report), Publish(q),
           sent' = sent
    PROVE  FillsOf(s, execs)' + missed'[s] = FillsOf(s, execs) + missed[s] + FillsOf(s, q)
<1>1. execs \in Seq(Report) /\ missed \in [Strategy -> Int]
  BY DEF SystemInv, TypeOK
<1>2. PICK c \in 0..Len(q) :
         /\ execs' = execs \o SubSeq(q, 1, c)
         /\ missed' = [t \in Strategy |->
                          missed[t] + FillsOf(t, SubSeq(q, c + 1, Len(q)))]
  BY <1>1, PublishStep
<1> DEFINE p == SubSeq(q, 1, c)
           o == SubSeq(q, c + 1, Len(q))
<1>3. p \in Seq(Report) /\ o \in Seq(Report) /\ p \o o = q
  <2>1. Len(q) \in Nat /\ \A k \in 1..Len(q) : q[k] \in Report
    BY LenProperties
  <2>2. p \in Seq(Report) /\ o \in Seq(Report)
    BY <2>1, SubSeqProperties
  <2>3. 1 \in 1..Len(q) + 1 /\ c \in 1 - 1..Len(q) /\ Len(q) \in c..Len(q)
    BY <2>1
  <2>4. p \o o = SubSeq(q, 1, Len(q))
    BY <2>3, ConcatAdjacentSubSeq
  <2>5. QED
    BY <2>2, <2>4, SubSeqFull
<1>4. execs' = execs \o p /\ missed'[s] = missed[s] + FillsOf(s, o)
  BY <1>2
<1> HIDE DEF p, o
<1>5. FillsOf(s, q) = FillsOf(s, p) + FillsOf(s, o)
  BY <1>3, FillsConcat
<1>6. FillsOf(s, execs \o p) = FillsOf(s, execs) + FillsOf(s, p)
  BY <1>1, <1>3, FillsConcat
<1>7. FillsOf(s, execs)' = FillsOf(s, execs')
  BY DEF FillsOf, FillOf
<1>8. /\ FillsOf(s, execs) \in Int /\ FillsOf(s, p) \in Int /\ FillsOf(s, o) \in Int
      /\ missed[s] \in Int
  BY <1>1, <1>3, FillsType
<1>9. FillsOf(s, execs)' = FillsOf(s, execs) + FillsOf(s, p)
  BY <1>4, <1>6, <1>7
<1>10. QED
  BY <1>4, <1>5, <1>8, <1>9

\* Nothing of an empty tape is unreported.
LEMMA EmptyTape ==
    /\ tape = <<>> => \A s : TapeOf(s) = 0
    /\ tape' = <<>> => \A s : TapeOf(s)' = 0
<1>1. ASSUME tape = <<>>, NEW s PROVE TapeOf(s) = 0
  <2>1. [k \in DOMAIN tape |-> PairFill(s, k)] = <<>>
    BY <1>1
  <2>2. QED
    BY <2>1, SumSeqType, EmptySeq DEF TapeOf
<1>2. ASSUME tape' = <<>>, NEW s PROVE TapeOf(s)' = 0
  <2>1. [k \in DOMAIN tape' |-> PairFill(s, k)'] = <<>>
    BY <1>2
  <2>2. QED
    BY <2>1, SumSeqType, EmptySeq DEF TapeOf
<1>3. QED
  BY <1>1, <1>2

\* A settlement turns the tape into reports; a cancel reports no quantity.
LEMMA ReportLedger ==
    ASSUME SystemInv, Ledger, NEW q \in Seq(Report), Publish(q),
           UNCHANGED <<positions, sent, arrived, left>>, tape' = <<>>,
           \A s \in Strategy : FillsOf(s, q) = TapeOf(s)
    PROVE  Ledger'
<1> SUFFICES ASSUME NEW s \in Strategy, OnlyBuys(s)
             PROVE  (positions[s] + FillsOf(s, execs) + missed[s] + TapeOf(s) = Bought(s))'
  BY DEF Ledger, OnlyBuys
<1>1. positions[s] + FillsOf(s, execs) + missed[s] + TapeOf(s) = Bought(s)
  BY DEF Ledger
<1>2. FillsOf(s, execs)' + missed'[s] = FillsOf(s, execs) + missed[s] + FillsOf(s, q)
  BY PublishLedger
<1>3. TapeOf(s)' = 0
  BY EmptyTape
<1>4. Bought(s)' = Bought(s)
  BY DEF Bought, Traded
<1>5. /\ positions[s] \in Int /\ FillsOf(s, execs) \in Int /\ missed[s] \in Int
      /\ TapeOf(s) \in Int /\ FillsOf(s, q) = TapeOf(s)
  BY LedgerTypes
<1>6. FillsOf(s, execs)' \in Int /\ missed'[s] \in Int
  <2>1. execs \in Seq(Report) /\ missed \in [Strategy -> Int]
    BY DEF SystemInv, TypeOK
  <2>2. execs' \in Seq(Report) /\ missed' \in [Strategy -> Int]
    BY <2>1, PublishStep
  <2>3. FillsOf(s, execs)' = FillsOf(s, execs')
    BY DEF FillsOf, FillOf
  <2>4. QED
    BY <2>2, <2>3, FillsType
<1>7. PICK x \in Int, y \in Int : x = FillsOf(s, execs)' /\ y = missed'[s]
  BY <1>6
<1>8. PICK a \in Int, b \in Int, c \in Int, d \in Int :
         /\ a = positions[s] /\ b = FillsOf(s, execs) /\ c = missed[s] /\ d = TapeOf(s)
  BY <1>5
<1>9. x + y = b + c + d
  BY <1>2, <1>5, <1>7, <1>8
<1>10. a + x + y + 0 = a + b + c + d
  BY <1>9
<1>11. positions'[s] = a
  BY <1>8
<1>12. QED
  BY <1>1, <1>3, <1>4, <1>7, <1>8, <1>10, <1>11

LEMMA SettleLedger ==
    ASSUME SystemInv, Ledger, EngineSettle
    PROVE  Ledger'
<1>1. /\ active # Book!NoOrder /\ Publish(Reports) /\ tape' = <<>>
      /\ UNCHANGED <<positions, sent, arrived, left>>
  BY DEF EngineSettle, Book!Settle, statevars
<1>2. Reports \in Seq(Report) /\ \A s \in Strategy : FillsOf(s, Reports) = TapeOf(s)
  BY <1>1, ReportsFacts
<1>3. QED
  BY <1>1, <1>2, ReportLedger

LEMMA CancelLedger ==
    ASSUME SystemInv, Ledger, EngineCancel \/ \E i \in Id : EngineGc(i)
    PROVE  Ledger'
<1>1. CASE \E i \in resting : /\ Book!Cancel(i) /\ Publish(<<Say(i, "CANCEL", 0)>>)
                              /\ UNCHANGED <<statevars, sent, tape>>
  <2>1. PICK i \in resting : /\ Book!Cancel(i) /\ Publish(<<Say(i, "CANCEL", 0)>>)
                             /\ UNCHANGED <<statevars, sent, tape>>
    BY <1>1
  <2> DEFINE q == <<Say(i, "CANCEL", 0)>>
  <2>2. q \in Seq(Report) /\ \A s : FillsOf(s, q) = 0
    BY CancelReport
  <2>3. tape = <<>> /\ tape' = <<>> /\ UNCHANGED <<positions, sent, arrived, left>>
    BY <2>1 DEF Book!Cancel, SystemInv, Matching, statevars
  <2>4. Publish(q)
    BY <2>1
  <2> HIDE DEF q
  <2>5. \A s \in Strategy : FillsOf(s, q) = TapeOf(s)
    BY <2>2, <2>3, EmptyTape
  <2>6. QED
    BY <2>2, <2>3, <2>4, <2>5, ReportLedger
<1>2. CASE UNCHANGED <<positions, sent, execs, missed, tape, arrived, left, active>>
  BY <1>2, LedgerSame
<1>3. QED
  BY <1>1, <1>2 DEF EngineCancel, EngineGc, bookvars, statevars

\* The order that enters the book has traded nothing.
LEMMA TakeLedger ==
    ASSUME SystemInv, Ledger, EngineTake
    PROVE  Ledger'
<1> DEFINE i == Head(egress)
<1>1. /\ SystemInv' /\ i \in Id /\ i \notin arrived /\ sent[i].qty \in Nat
      /\ arrived' = arrived \cup {i} /\ left' = [left EXCEPT ![i] = sent[i].qty]
      /\ tape' = <<>> /\ tape = <<>>
  BY EngineTakeKeeps
<1>2. UNCHANGED <<positions, sent, execs, missed>>
  BY DEF EngineTake, statevars
<1> HIDE DEF i
<1> SUFFICES ASSUME NEW s \in Strategy, OnlyBuys(s)
             PROVE  (positions[s] + FillsOf(s, execs) + missed[s] + TapeOf(s) = Bought(s))'
  BY <1>2 DEF Ledger, OnlyBuys
<1>3. positions[s] + FillsOf(s, execs) + missed[s] + TapeOf(s) = Bought(s)
  BY DEF Ledger
<1>4. TapeOf(s)' = 0 /\ TapeOf(s) = 0 /\ FillsOf(s, execs)' = FillsOf(s, execs)
  <2>1. TapeOf(s)' = 0
    BY <1>1, EmptyTape
  <2>2. QED
    BY <1>1, <1>2, <2>1, EmptyTape DEF FillsOf, FillOf
<1>5. Bought(s)' = Bought(s)
  <2> DEFINE B == Buys(s)
             C == Buys(s)'
             f == [k \in B |-> Done(k)]
             e == [k \in C |-> Done(k)']
  <2>1. /\ IsFiniteSet(B) /\ B \subseteq arrived
        /\ Bought(s) = SumFunctionOnSet(f, B) /\ \A k \in B : f[k] \in Int
    BY BoughtIsSum DEF BoughtSums, BoughtFacts
  <2>2. /\ IsFiniteSet(C)
        /\ Bought(s)' = SumFunctionOnSet(e, C) /\ \A k \in C : e[k] \in Int
    <3>1. SystemInv'
      BY <1>1
    <3>2. BoughtSums'
      BY <3>1, BoughtIsSum, PTL
    <3>3. \A k \in C : Done(k)' \in Int
      BY <3>2 DEF BoughtSums, BoughtFacts
    <3>4. QED
      BY <3>2, <3>3 DEF BoughtSums, BoughtFacts
  <2>3. left \in [Id -> Nat] /\ arrived \subseteq Id
    BY DEF SystemInv, Matching, TypeOK
  <2>4. /\ i \notin B /\ C \subseteq B \cup {i} /\ B \subseteq C
        /\ \A k \in B : e[k] = f[k]
        /\ i \in C => e[i] = 0
    BY <1>1, <1>2, <2>1, <2>3 DEF Buys, Done
  <2> HIDE DEF B, C, f, e
  <2>5. SumFunctionOnSet(e, B) = SumFunctionOnSet(f, B)
    BY <2>1, <2>4, SumAgree
  <2>6. CASE i \notin C
    <3>1. C = B
      BY <2>4, <2>6
    <3>2. QED
      BY <2>1, <2>2, <2>5, <3>1
  <2>7. CASE i \in C
    <3>1. C \ {i} = B /\ e[i] = 0
      BY <2>4, <2>7
    <3>2. SumFunctionOnSet(e, C) = e[i] + SumFunctionOnSet(e, C \ {i})
      BY <2>2, <2>7, SumRemove
    <3>3. SumFunctionOnSet(f, B) \in Int
      BY <2>1, SumBase
    <3>4. QED
      BY <2>1, <2>2, <2>5, <3>1, <3>2, <3>3
  <2>8. QED
    BY <2>6, <2>7
<1>6. QED
  BY <1>2, <1>3, <1>4, <1>5

\* A trade adds its quantity to the tape for both sides, and to what each has
\* bought, if its strategy is one that only buys.
LEMMA TradeLedger ==
    ASSUME SystemInv, Ledger, EngineTrade
    PROVE  Ledger'
<1>1. /\ active \in Id /\ active' = active /\ arrived' = arrived
      /\ UNCHANGED <<positions, sent, execs, missed>>
  BY EngineTradeKeeps DEF EngineTrade, rgvars, statevars
<1>2. PICK r \in Id, q \in Nat :
         /\ r # active /\ r \in arrived /\ active \in arrived
         /\ left[r] >= q /\ left[active] >= q
         /\ left' = [left EXCEPT ![r] = @ - q, ![active] = @ - q]
         /\ tape' = Append(tape, <<r, q>>)
  BY EngineTradeKeeps
<1> SUFFICES ASSUME NEW s \in Strategy, OnlyBuys(s)
             PROVE  (positions[s] + FillsOf(s, execs) + missed[s] + TapeOf(s) = Bought(s))'
  BY <1>1 DEF Ledger, OnlyBuys
<1> DEFINE B == Buys(s)
           X(i) == IF i \in B THEN q ELSE 0
<1>3. positions[s] + FillsOf(s, execs) + missed[s] + TapeOf(s) = Bought(s)
  BY DEF Ledger
<1>4. \A i \in arrived : Fill(s, i, q) = X(i)
  <2> SUFFICES ASSUME NEW i \in arrived PROVE Fill(s, i, q) = X(i)
    OBVIOUS
  <2>1. i \in DOMAIN sent
    <3>1. i \in Served
      BY DEF SystemInv, Journey
    <3>2. QED
      BY <3>1, ServedOrders DEF SystemInv
  <2>2. i \in B <=> sent[i].strategy = s
    BY <2>1 DEF OnlyBuys, Buys
  <2>3. sent[i].strategy = s => sent[i].side = "BUY"
    BY <2>1 DEF OnlyBuys
  <2>4. QED
    BY <2>2, <2>3 DEF Fill, Signed
<1>5. TapeOf(s)' = TapeOf(s) + (X(r) + X(active))
  <2> DEFINE w == [k \in DOMAIN tape |-> PairFill(s, k)]
             v == [k \in DOMAIN tape' |-> PairFill(s, k)']
             x == X(r) + X(active)
  <2>1. /\ tape \in Seq(Id \X Nat) /\ Len(tape) \in Nat /\ DOMAIN tape = 1..Len(tape)
        /\ <<r, q>> \in Id \X Nat
    <3>1. tape \in Seq(Id \X Nat)
      BY DEF SystemInv, TypeOK
    <3>2. QED
      BY <3>1, LenProperties
  <2>2. PICK m \in Nat : m = Len(tape) + 1
    BY <2>1
  <2>3. /\ DOMAIN tape' = 1..(Len(tape) + 1)
        /\ \A k \in 1..Len(tape) : tape'[k] = tape[k]
        /\ tape'[Len(tape) + 1] = <<r, q>>
    <3> DEFINE e == <<r, q>>
    <3>1. tape' = Append(tape, e) /\ e \in Id \X Nat
      BY <1>2, <2>1
    <3> HIDE DEF e
    <3>2. QED
      BY <2>1, <3>1, AppendProperties, LenProperties DEF e
  <2>4. \A k \in 1..Len(tape) : PairFill(s, k) \in Int /\ PairFill(s, k)' = PairFill(s, k)
    <3>1. active # Book!NoOrder
      BY <1>1 DEF Id, Book!NoOrder
    <3>2. QED
      BY <1>1, <2>1, <2>3, <3>1, PairFacts DEF PairFill, Fill
  <2>5. PairFill(s, m)' = x /\ x \in Int
    <3>1. tape'[m][1] = r /\ tape'[m][2] = q
      BY <2>3, <2>2
    <3>2. Fill(s, r, q) = X(r) /\ Fill(s, active, q) = X(active)
      BY <1>2, <1>4
    <3>3. PairFill(s, m)' = Fill(s, r, q) + Fill(s, active, q)
      BY <1>1, <3>1 DEF PairFill, Fill
    <3>4. QED
      BY <1>2, <3>2, <3>3
  <2> HIDE DEF x
  <2>6. w \in Seq(Int) /\ v = Append(w, x)
    <3>1. w \in Seq(Int) /\ Len(w) = Len(tape)
      BY <2>1, <2>4
    <3>2. \A k \in 1..Len(w) : v[k] = w[k]
      <4> SUFFICES ASSUME NEW k \in 1..Len(tape) PROVE v[k] = w[k]
        BY <3>1
      <4>1. k \in DOMAIN tape /\ k \in DOMAIN tape'
        BY <2>1, <2>3
      <4>2. QED
        BY <2>4, <4>1
    <3>3. v[Len(w) + 1] = x
      <4>1. m \in DOMAIN tape'
        BY <2>1, <2>3, <2>2
      <4>2. v[m] = PairFill(s, m)'
        BY <4>1
      <4> HIDE DEF w, v
      <4>3. QED
        BY <2>5, <2>2, <3>1, <4>2
    <3>4. v \in [1..(Len(w) + 1) -> Int]
      <4>1. DOMAIN v = 1..(Len(w) + 1) /\ v = [k \in DOMAIN v |-> v[k]]
        BY <2>3, <3>1
      <4> HIDE DEF w, v
      <4>2. \A k \in 1..Len(w) : w[k] \in Int
        BY <3>1
      <4>3. \A k \in 1..(Len(w) + 1) : v[k] \in Int
        BY <2>5, <3>1, <3>2, <3>3, <4>2
      <4>4. QED
        BY <4>1, <4>3
    <3>5. x \in Int
      BY <2>5
    <3> HIDE DEF w, v
    <3>6. QED
      BY <3>1, <3>2, <3>3, <3>4, <3>5, IsAppended
  <2>7. TapeOf(s) = SumFunction(w) /\ TapeOf(s)' = SumFunction(v)
    BY DEF TapeOf
  <2> HIDE DEF w, v
  <2>8. QED
    BY <2>5, <2>6, <2>7, SumAppend DEF x
<1>6. Bought(s)' = Bought(s) + X(r) + X(active) /\ Bought(s) \in Int
  <2> DEFINE f == [i \in B |-> Done(i)]
             h == [i \in B |-> Done(i) + IF i = r THEN q ELSE 0]
             e == [i \in B |-> Done(i)']
  <2>1. /\ IsFiniteSet(B) /\ B \subseteq arrived /\ Bought(s) = SumFunctionOnSet(f, B)
        /\ \A i \in B : Done(i) \in Int
    BY BoughtIsSum DEF BoughtSums, BoughtFacts
  <2>2. Bought(s)' = SumFunctionOnSet(e, B)
    <3>1. SystemInv'
      BY EngineTradeKeeps
    <3>2. BoughtSums'
      BY <3>1, BoughtIsSum, PTL
    <3>3. Bought(s)' = SumFunctionOnSet([i \in Buys(s)' |-> Done(i)'], Buys(s)')
      BY <3>2 DEF BoughtSums, BoughtFacts
    <3>4. Buys(s)' = B
      BY <1>1 DEF Buys
    <3>5. QED
      BY <3>3, <3>4
  <2>3. \A i \in B : /\ h[i] = f[i] + IF i = r THEN q ELSE 0
                     /\ e[i] = h[i] + IF i = active THEN q ELSE 0
                     /\ f[i] \in Int /\ h[i] \in Int
    <3> SUFFICES ASSUME NEW i \in B
                 PROVE  /\ Done(i)' = Done(i) + (IF i = r THEN q ELSE 0) + IF i = active THEN q ELSE 0
                        /\ Done(i) \in Int /\ Done(i) + (IF i = r THEN q ELSE 0) \in Int
      OBVIOUS
    <3>1. i \in Id /\ left[i] \in Nat /\ Done(i) \in Int /\ Done(i) = sent[i].qty - left[i]
      BY <2>1 DEF SystemInv, TypeOK, Matching, Done
    <3>2. left'[i] = left[i] - (IF i = r \/ i = active THEN q ELSE 0)
      BY <1>1, <1>2, <3>1 DEF SystemInv, Matching
    <3>3. sent[i].qty \in Nat
      <4>1. i \in Served
        BY <2>1 DEF SystemInv, Journey
      <4>2. sent[i] \in Nos /\ Quantity \subseteq Nat
        BY <4>1, ServedOrders, GatewayAssumption DEF SystemInv
      <4>3. QED
        BY <4>2 DEF Nos
    <3>4. Done(i)' = sent[i].qty - left'[i]
      BY <1>1 DEF Done
    <3>5. QED
      BY <1>2, <3>1, <3>2, <3>3, <3>4
  <2> HIDE DEF f, h, e, B
  <2>4. SumFunctionOnSet(h, B) = SumFunctionOnSet(f, B) + X(r) /\ SumFunctionOnSet(f, B) \in Int
    <3>1. \A i \in B : f[i] \in Int /\ h[i] = f[i] + IF i = r THEN q ELSE 0
      BY <2>3
    <3>2. IsFiniteSet(B) /\ q \in Int
      BY <2>1
    <3>3. /\ SumFunctionOnSet(f, B) \in Int
          /\ SumFunctionOnSet(h, B) = SumFunctionOnSet(f, B) + IF r \in B THEN q ELSE 0
      BY <3>1, <3>2, SumStep
    <3>4. QED
      BY <3>3
  <2>5. SumFunctionOnSet(e, B) = SumFunctionOnSet(h, B) + X(active)
    <3>1. \A i \in B : h[i] \in Int /\ e[i] = h[i] + IF i = active THEN q ELSE 0
      BY <2>3
    <3>2. IsFiniteSet(B) /\ q \in Int
      BY <2>1
    <3>3. SumFunctionOnSet(e, B) = SumFunctionOnSet(h, B) + IF active \in B THEN q ELSE 0
      BY <3>1, <3>2, SumStep
    <3>4. QED
      BY <3>3
  <2>6. QED
    BY <2>1, <2>2, <2>4, <2>5
<1>7. /\ FillsOf(s, execs)' = FillsOf(s, execs) /\ positions'[s] = positions[s]
      /\ missed'[s] = missed[s]
  BY <1>1 DEF FillsOf, FillOf
<1>8. X(r) \in Int /\ X(active) \in Int
  BY <1>2
<1> HIDE DEF X
<1>9. /\ positions[s] \in Int /\ FillsOf(s, execs) \in Int /\ missed[s] \in Int
      /\ TapeOf(s) \in Int
  BY LedgerTypes
<1>10. QED
  BY <1>3, <1>5, <1>6, <1>7, <1>8, <1>9

\* An order that comes is new: no report, fill or order in the book is about it.
LEMMA InboundLedger ==
    ASSUME SystemInv, Ledger, NEW n \in Inbound, InboundOrder(n),
           UNCHANGED <<bookvars, tape, missed>>
    PROVE  Ledger'
<1>1. /\ n.id = Len(sent) + 1 /\ sent' = Append(sent, n)
      /\ UNCHANGED <<positions, execs>>
      /\ UNCHANGED <<arrived, left, active, tape, missed>>
  BY DEF InboundOrder, bookvars
<1>2. /\ DOMAIN sent \subseteq DOMAIN sent'
      /\ \A k \in DOMAIN sent : sent'[k] = sent[k]
      /\ arrived \subseteq DOMAIN sent
  <2>1. sent \in Seq(Nos) /\ n \in Nos /\ arrived \subseteq Served
    BY GatewayAssumption DEF SystemInv, TypeOK, Journey
  <2>2. /\ DOMAIN sent = 1..Len(sent) /\ Len(sent) \in Nat
        /\ DOMAIN sent' = 1..(Len(sent) + 1)
        /\ \A k \in 1..Len(sent) : sent'[k] = sent[k]
    BY <1>1, <2>1, AppendProperties, LenProperties
  <2>3. QED
    BY <2>1, <2>2 DEF Served
<1> SUFFICES ASSUME NEW s \in Strategy, OnlyBuys(s)'
             PROVE  (positions[s] + FillsOf(s, execs) + missed[s] + TapeOf(s) = Bought(s))'
  BY DEF Ledger
<1>3. OnlyBuys(s)
  BY <1>2 DEF OnlyBuys
<1>4. positions[s] + FillsOf(s, execs) + missed[s] + TapeOf(s) = Bought(s)
  BY <1>3 DEF Ledger
<1>5. \A i \in arrived : \A q : Fill(s, i, q)' = Fill(s, i, q)
  BY <1>2 DEF Fill
<1>6. FillsOf(s, execs)' = FillsOf(s, execs)
  <2>1. ASSUME NEW k \in DOMAIN execs PROVE FillOf(s, execs[k])' = FillOf(s, execs[k])
    <3>1. execs[k].id \in arrived
      BY DEF SystemInv, ReportsSound, Sound, Range
    <3>2. QED
      BY <1>1, <1>2, <3>1 DEF FillOf
  <2>2. QED
    BY <1>1, <2>1 DEF FillsOf
<1>7. TapeOf(s)' = TapeOf(s)
  <2>1. ASSUME NEW k \in DOMAIN tape PROVE PairFill(s, k)' = PairFill(s, k)
    <3>1. active # Book!NoOrder
      BY DEF SystemInv, Matching
    <3>2. tape[k][1] \in arrived /\ active \in arrived
      BY <3>1 DEF SystemInv, Matching, Range
    <3>3. QED
      BY <1>1, <1>5, <3>2 DEF PairFill
  <2>2. QED
    BY <1>1, <2>1 DEF TapeOf
<1>8. Bought(s)' = Bought(s)
  BY <1>1, <1>2 DEF Bought, Traded
<1>9. QED
  BY <1>1, <1>4, <1>6, <1>7, <1>8

LEMMA LedgerInit ==
    ASSUME Init
    PROVE  Ledger
<1>1. /\ positions = [s \in Strategy |-> 0] /\ missed = [s \in Strategy |-> 0]
      /\ execs = <<>> /\ tape = <<>> /\ arrived = {}
  BY DEF Init, RgInit, Book!Init
<1>2. SystemInv
  BY SystemInit
<1> SUFFICES ASSUME NEW s \in Strategy
             PROVE  positions[s] + FillsOf(s, execs) + missed[s] + TapeOf(s) = Bought(s)
  BY DEF Ledger
<1>3. TapeOf(s) = 0
  BY <1>1, EmptyTape
<1>4. FillsOf(s, execs) = 0
  <2>1. [k \in DOMAIN execs |-> FillOf(s, execs[k])] = <<>>
    BY <1>1
  <2>2. QED
    BY <2>1, SumSeqType, EmptySeq DEF FillsOf
<1>5. Bought(s) = 0
  <2> DEFINE f == [i \in Buys(s) |-> Done(i)]
  <2>1. Bought(s) = SumFunctionOnSet(f, Buys(s))
    BY <1>2, BoughtIsSum DEF BoughtSums, BoughtFacts
  <2>2. Buys(s) = {}
    BY <1>1 DEF Buys
  <2> HIDE DEF f
  <2>3. IsFiniteSet(Buys(s)) /\ \A i \in Buys(s) : f[i] \in Int
    BY <2>2, FS_EmptySet
  <2>4. QED
    BY <2>1, <2>2, <2>3, SumBase
<1>6. QED
  BY <1>1, <1>3, <1>4, <1>5

\* The ledger of a strategy that only buys is what it bought, but for reports on
\* their way and those its socket lost, for any orders, prices and quantities,
\* any high-water mark and any pace of the two processes (risk_gateway.py:170-182).
THEOREM BuyersLedger == Spec => []BuyerLedgerExact
<1>1. Init => Ledger
  BY LedgerInit
<1>2. SystemInv /\ Ledger /\ [Next]_vars => Ledger'
  <2> SUFFICES ASSUME SystemInv, Ledger, [Next]_vars
               PROVE  Ledger'
    OBVIOUS
  <2>1. CASE \/ /\ Gateway
                /\ (KillSwitch \/ \E i \in Id : InboundCancel(i))
             \/ Clock \/ UNCHANGED vars
    <3>1. UNCHANGED <<positions, sent, execs, missed, tape, arrived, left, active>>
      BY <2>1 DEF Gateway, KillSwitch, InboundCancel, ForwardCancel, Clock, Tick, vars, rgvars,
                  statevars, bookvars
    <3>2. QED
      BY <3>1, LedgerSame
  <2>2. CASE Gateway /\ (Reconcile \/ \E n \in Inbound : InboundOrder(n))
    BY <2>2, ReconcileLedger, InboundLedger DEF Gateway
  <2>3. CASE EngineMatch
    BY <2>3, TakeLedger, TradeLedger, SettleLedger DEF EngineMatch
  <2>4. CASE EngineCancel \/ \E i \in Id : EngineGc(i)
    BY <2>4, CancelLedger
  <2>5. QED
    BY <2>1, <2>2, <2>3, <2>4 DEF Next, Gateway, RgStep
<1>3. SystemInv /\ Ledger => BuyerLedgerExact
  <2> SUFFICES ASSUME SystemInv, Ledger, active = Book!NoOrder, NEW s \in Strategy, OnlyBuys(s)
               PROVE  positions[s] + FillsOf(s, execs) + missed[s] = Bought(s)
    BY DEF BuyerLedgerExact, OnlyBuys
  <2>1. positions[s] + FillsOf(s, execs) + missed[s] + TapeOf(s) = Bought(s)
    BY DEF Ledger
  <2>2. TapeOf(s) = 0
    BY EmptyTape DEF SystemInv, Matching
  <2>3. positions[s] \in Int /\ FillsOf(s, execs) \in Int /\ missed[s] \in Int
    BY LedgerTypes
  <2>4. QED
    BY <2>1, <2>2, <2>3
<1>4. QED
  BY <1>1, <1>2, <1>3, SystemSound, PTL DEF Spec
=============================================================================
