--------------------------- MODULE DocumentProofs ---------------------------
(***************************************************************************)
(* What Document promises, for all messages, archives, amounts and rates   *)
(* of any precision: how fair the SPOT alert is, that the drafts meet the  *)
(* total, that amount and rate are those of one term, and that an invoice  *)
(* and its CDR are found in an archive and a rejection is reported.        *)
(* Rounding to the even cent moves an amount by half a cent at most: so    *)
(* the alert is off by that much, and the drafts by a cent.                *)
(***************************************************************************)
EXTENDS Document, FiniteSetTheorems, WellFoundedInduction, TLAPS

\* Half-even rounding misses the exact quotient by a half at most, and a whole
\* quotient by nothing.
LEMMA HalfEvenIsNear ==
    ASSUME NEW p \in Int, NEW q \in Nat \ {0}
    PROVE  /\ Fiscal!HalfEven(p, q) \in Int
           /\ 2 * (q * Fiscal!HalfEven(p, q) - p) <= q
           /\ 2 * (p - q * Fiscal!HalfEven(p, q)) <= q
           /\ p % q = 0 => q * Fiscal!HalfEven(p, q) = p
<1>. DEFINE low == p \div q
            rest == p % q
            high == q * low
<1>1. low \in Int /\ rest \in Int /\ 0 <= rest /\ rest < q /\ p = high + rest
  BY SMT
<1>2. high \in Int /\ q * (low + 1) = high + q
  BY <1>1
<1>3. \/ Fiscal!HalfEven(p, q) = low /\ 2 * rest <= q
      \/ Fiscal!HalfEven(p, q) = low + 1 /\ 2 * rest >= q
  BY <1>1 DEF Fiscal!HalfEven
<1>4. rest = 0 => Fiscal!HalfEven(p, q) = low
  BY <1>1 DEF Fiscal!HalfEven
<1>. HIDE DEF low, rest, high
<1>5. CASE Fiscal!HalfEven(p, q) = low /\ 2 * rest <= q
  <2>1. q * Fiscal!HalfEven(p, q) = high
    BY <1>5 DEF high
  <2>. QED  BY <1>1, <1>2, <1>5, <2>1 DEF rest
<1>6. CASE Fiscal!HalfEven(p, q) = low + 1 /\ 2 * rest >= q
  <2>1. q * Fiscal!HalfEven(p, q) = high + q
    BY <1>2, <1>6
  <2>. QED  BY <1>1, <1>2, <1>4, <1>6, <2>1 DEF rest
<1>. QED  BY <1>3, <1>5, <1>6

\* A positive factor keeps an order that is strict.
LEMMA FactorKeepsOrder ==
    ASSUME NEW k \in Nat \ {0}, NEW a \in Int, NEW b \in Int, a < b
    PROVE  k * a < k * b
<1>1. k * (b - a) = k * b - k * a
  OBVIOUS
<1>2. k * (b - a) > 0
  OBVIOUS
<1>. QED  BY <1>1, <1>2

\* Whoever is accused is more than 4.5 cents off the exact product, and at least
\* 5.5 when he declares whole cents; whoever is not is at most 5.5 off
\* (fiscal_alerts.py:112-115).  Totals, rates and amounts have any sign and any
\* number of digits.
THEOREM AlertTolerance ==
    ASSUME NEW t \in Int, NEW r \in Int, NEW d \in Int
    PROVE  LET error == Fiscal!Distance(Fiscal!Percent * d, t * r)
               cent == Fiscal!Percent * Fine
           IN  /\ Fiscal!Disagrees(t, r, d) => 2 * error > 9 * cent
               /\ Fiscal!Disagrees(t, r, d) /\ d % Fine = 0 => 2 * error >= 11 * cent
               /\ ~ Fiscal!Disagrees(t, r, d) => 2 * error <= 11 * cent
<1>. DEFINE k == Fiscal!Percent
            q == k * Fine
            p == t * r
            e == Fiscal!HalfEven(p, q)
            f == Fine * e
            declared == k * d
            expected == k * f
<1>1. Fine \in Nat \ {0} /\ k \in Nat \ {0}
  BY DocumentAssumption DEF Fiscal!Percent
<1>2. q \in Nat \ {0} /\ p \in Int
  BY <1>1
<1>3. e \in Int /\ 2 * (q * e - p) <= q /\ 2 * (p - q * e) <= q
  BY <1>2, HalfEvenIsNear
<1>. HIDE DEF p, e
<1>4. f \in Int /\ declared \in Int /\ expected \in Int
  BY <1>1, <1>3
<1>5. expected = q * e
  BY <1>1, <1>3
<1>6. 2 * (expected - p) <= q /\ 2 * (p - expected) <= q
  BY <1>3, <1>5
<1>7. Fiscal!Disagrees(t, r, d) <=> Fiscal!Distance(d, f) > 5 * Fine
  BY DEF Fiscal!Disagrees, p, e
<1>8. Fiscal!Distance(k * d, p) = IF declared < p THEN p - declared ELSE declared - p
  BY DEF Fiscal!Distance
<1>9. Fiscal!Distance(d, f) > 5 * Fine <=> f + 5 * Fine < d \/ d + 5 * Fine < f
  BY <1>1, <1>4 DEF Fiscal!Distance
<1>10. /\ k * (f + 5 * Fine) = expected + 5 * q
       /\ k * (d + 5 * Fine) = declared + 5 * q
  BY <1>1, <1>4
<1>11. f + 5 * Fine < d => expected + 5 * q < declared
  BY <1>1, <1>4, <1>10, FactorKeepsOrder
<1>12. d + 5 * Fine < f => declared + 5 * q < expected
  BY <1>1, <1>4, <1>10, FactorKeepsOrder
<1>13. ~ (f + 5 * Fine < d) => declared <= expected + 5 * q
  <2>1. CASE d < f + 5 * Fine
    BY <1>1, <1>4, <1>10, <2>1, FactorKeepsOrder
  <2>2. CASE d = f + 5 * Fine
    BY <1>4, <1>10, <2>2
  <2>. QED  BY <1>1, <1>4, <2>1, <2>2
<1>14. ~ (d + 5 * Fine < f) => expected <= declared + 5 * q
  <2>1. CASE f < d + 5 * Fine
    BY <1>1, <1>4, <1>10, <2>1, FactorKeepsOrder
  <2>2. CASE f = d + 5 * Fine
    BY <1>4, <1>10, <2>2
  <2>. QED  BY <1>1, <1>4, <2>1, <2>2
<1>15. ASSUME d % Fine = 0, f + 5 * Fine < d \/ d + 5 * Fine < f
       PROVE  expected + 6 * q <= declared \/ declared + 6 * q <= expected
  <2>. DEFINE c == Fiscal!HalfEven(d, Fine)
  <2>1. c \in Int /\ d = Fine * c
    BY <1>1, <1>15, HalfEvenIsNear
  <2>. HIDE DEF c
  <2>2. declared = q * c
    BY <1>1, <2>1
  <2>3. /\ f + 5 * Fine = Fine * (e + 5) /\ d + 5 * Fine = Fine * (c + 5)
    BY <1>1, <1>3, <2>1
  <2>4. c <= e + 5 => Fine * c <= Fine * (e + 5)
    <3>1. c < e + 5 => Fine * c < Fine * (e + 5)
      BY <1>1, <1>3, <2>1, FactorKeepsOrder
    <3>. QED  BY <1>1, <1>3, <2>1, <3>1
  <2>5. e <= c + 5 => Fine * e <= Fine * (c + 5)
    <3>1. e < c + 5 => Fine * e < Fine * (c + 5)
      BY <1>1, <1>3, <2>1, FactorKeepsOrder
    <3>. QED  BY <1>1, <1>3, <2>1, <3>1
  <2>6. e + 6 <= c \/ c + 6 <= e
    <3>1. e + 5 < c \/ c + 5 < e
      BY <1>1, <1>3, <1>4, <1>15, <2>1, <2>3, <2>4, <2>5
    <3>. QED  BY <1>3, <2>1, <3>1
  <2>7. q * (e + 6) = expected + 6 * q /\ q * (c + 6) = declared + 6 * q
    BY <1>2, <1>3, <1>5, <2>1, <2>2
  <2>. HIDE DEF k, q, f, declared, expected
  <2>8. CASE e + 6 <= c
    <3>1. e + 6 < c => q * (e + 6) < q * c
      BY <1>2, <1>3, <2>1, FactorKeepsOrder
    <3>. QED  BY <1>2, <1>3, <1>4, <2>1, <2>2, <2>7, <2>8, <3>1
  <2>9. CASE c + 6 <= e
    <3>1. c + 6 < e => q * (c + 6) < q * e
      BY <1>2, <1>3, <2>1, FactorKeepsOrder
    <3>. QED  BY <1>2, <1>3, <1>4, <1>5, <2>1, <2>7, <2>9, <3>1
  <2>. QED  BY <2>6, <2>8, <2>9
<1>. HIDE DEF k, q, f, declared, expected
<1>16. Fiscal!Disagrees(t, r, d) => 2 * Fiscal!Distance(k * d, p) > 9 * q
  BY <1>2, <1>4, <1>6, <1>7, <1>8, <1>9, <1>11, <1>12
<1>17. Fiscal!Disagrees(t, r, d) /\ d % Fine = 0 => 2 * Fiscal!Distance(k * d, p) >= 11 * q
  BY <1>2, <1>4, <1>6, <1>7, <1>8, <1>9, <1>15
<1>18. ~ Fiscal!Disagrees(t, r, d) => 2 * Fiscal!Distance(k * d, p) <= 11 * q
  BY <1>2, <1>4, <1>6, <1>7, <1>8, <1>9, <1>13, <1>14
<1>. QED  BY <1>16, <1>17, <1>18 DEF k, q, p

-----------------------------------------------------------------------------
(* The alerts of the model.                                                *)

\* What is recorded follows from the amounts that were read.
RecordFollows ==
    stage = "recorded" =>
        /\ payload = Fiscal!CanonicalPayload(amounts)
        /\ "spot_discrepancy" \in alerts <=> Fiscal!HasDiscrepancy(amounts)

FiscalIInv == terms \in Seq(Fiscal!Term) /\ amounts \in Fiscal!Amounted /\ RecordFollows

\* Every set of natural numbers that is not empty has a least element: among the
\* intervals that start at 0 and end in it, one contains no other.
LEMMA LeastElement ==
    ASSUME NEW S \in SUBSET Nat, S # {}
    PROVE  \E m \in S : \A k \in S : ~ (k < m)
<1>. DEFINE T == {0..s : s \in S}
            R == StrictSubsetOrdering(Nat)
<1>1. T # {}
  OBVIOUS
<1>2. \A s \in S : 0..s \in SUBSET Nat /\ IsFiniteSet(0..s)
  BY FS_Interval
<1>3. T \subseteq FiniteSubsetsOf(Nat)
  BY <1>2 DEF FiniteSubsetsOf
<1>4. IsWellFoundedOn(R, FiniteSubsetsOf(Nat))
  BY FS_StrictSubsetOrderingWellFounded
<1>. HIDE DEF R
<1>5. \E x \in T : \A y \in T : ~ (<<y, x>> \in R)
  BY <1>1, <1>3, <1>4, WFMin
<1>6. PICK m \in S : \A y \in T : ~ (<<y, 0..m>> \in R)
  BY <1>5
<1>7. ASSUME NEW k \in S, k < m PROVE FALSE
  <2>1. 0..k \subseteq 0..m /\ 0..k # 0..m /\ 0..k \in SUBSET Nat /\ 0..m \in SUBSET Nat
    BY <1>7
  <2>2. <<0..k, 0..m>> \in R
    BY <2>1 DEF R, StrictSubsetOrdering
  <2>. QED  BY <2>2, <1>6
<1>. QED  BY <1>7

\* FirstOf picks one of the terms it is given.
LEMMA FirstOfIsTerm ==
    ASSUME terms \in Seq(Fiscal!Term), NEW S \in SUBSET DOMAIN terms, S # {}
    PROVE  Fiscal!FirstOf(S) \in Fiscal!Term
<1>1. S \in SUBSET Nat
  OBVIOUS
<1>2. \E i \in S : \A j \in S : ~ (j < i)
  BY <1>1, LeastElement
<1>3. (CHOOSE i \in S : \A j \in S : ~ (j < i)) \in S
  BY <1>2
<1>. QED  BY <1>3 DEF Fiscal!FirstOf

\* What the lookups find in the terms is an amount and a rate, or nothing.
LEMMA FoundIsAmounted ==
    ASSUME amounts \in Fiscal!Amounted, terms \in Seq(Fiscal!Term)
    PROVE  Fiscal!Amounting(amounts, Fiscal!DetractionAmount, Fiscal!DetractionRate) \in Fiscal!Amounted
<1>1. \A t \in Fiscal!Term : /\ Fiscal!ValueOf(t.amount) \in Fiscal!OptionalOf(Int)
                             /\ t.percent \in Fiscal!OptionalOf(Int)
  BY DocumentAssumption DEF Fiscal!Term, Fiscal!OptionalOf, Fiscal!ValueOf
<1>2. Fiscal!Detractions # {} => Fiscal!FirstOf(Fiscal!Detractions) \in Fiscal!Term
  BY FirstOfIsTerm DEF Fiscal!Detractions
<1>3. Fiscal!WithAmount # {} => Fiscal!FirstOf(Fiscal!WithAmount) \in Fiscal!Term
  BY FirstOfIsTerm DEF Fiscal!WithAmount
<1>4. Fiscal!DetractionAmount \in Fiscal!OptionalOf(Int)
  BY <1>1, <1>2, <1>3 DEF Fiscal!DetractionAmount, Fiscal!OptionalOf
<1>5. Fiscal!DetractionRate \in Fiscal!OptionalOf(Int)
  BY <1>1, <1>2 DEF Fiscal!DetractionRate, Fiscal!OptionalOf
<1>. QED  BY <1>4, <1>5 DEF Fiscal!Amounted, Fiscal!Amounting

\* What a document says of its sums, and what is read of amount and rate.
LEMMA AmountingIsAmounted ==
    ASSUME NEW sums \in Sums, NEW amount \in Fiscal!OptionalOf(Int), NEW rate \in Fiscal!OptionalOf(Int)
    PROVE  Fiscal!Amounting(sums, amount, rate) \in Fiscal!Amounted
<1>1. sums \in Fiscal!Summed
  BY DocumentAssumption
<1>. QED  BY <1>1 DEF Fiscal!Summed, Fiscal!Amounting, Fiscal!Amounted

\* Before anything is read there is no payload, no alert and no draft.
LEMMA InitFiscalIInv == DocumentInit => FiscalIInv
<1>. SUFFICES ASSUME DocumentInit PROVE FiscalIInv
  OBVIOUS
<1>. USE DEF DocumentInit, Fiscal!Init
<1>1. terms \in Seq(Fiscal!Term)
  <2>1. PICK n \in 0..MaxTerms : terms \in [1..n -> Fiscal!Term]
    OBVIOUS
  <2>. QED  BY <2>1
<1>2. amounts \in Fiscal!Amounted
  BY AmountingIsAmounted DEF Fiscal!OptionalOf
<1>3. RecordFollows
  BY DEF RecordFollows
<1>. QED  BY <1>1, <1>2, <1>3 DEF FiscalIInv

\* Payload and alerts are made in one step, from what was read.
LEMMA NextFiscalIInv == FiscalIInv /\ [DocumentNext]_<<vars, fiscal>> => FiscalIInv'
<1>. SUFFICES ASSUME FiscalIInv, [DocumentNext]_<<vars, fiscal>> PROVE FiscalIInv'
  OBVIOUS
<1>. USE DEF FiscalIInv, RecordFollows
<1>1. ASSUME NEW found \in Fiscal!Amounted, Fiscal!Parsed(found) PROVE FiscalIInv'
  BY <1>1 DEF Fiscal!Parsed
<1>2. CASE ReadAmounts
  <2>1. CASE Fiscal!Parse
    BY <1>1, <2>1, FoundIsAmounted DEF Fiscal!Parse
  <2>2. CASE Fiscal!ParseText
    <3>1. PICK sums \in Sums, amount \in Fiscal!OptionalOf(Amounts), rate \in Fiscal!OptionalOf(Rates) :
             Fiscal!Parsed(Fiscal!Amounting(sums, amount, rate))
      BY <2>2 DEF Fiscal!ParseText
    <3>2. amount \in Fiscal!OptionalOf(Int) /\ rate \in Fiscal!OptionalOf(Int)
      BY DocumentAssumption DEF Fiscal!OptionalOf
    <3>. QED  BY <1>1, <3>1, <3>2, AmountingIsAmounted
  <2>. QED  BY <1>2, <2>1, <2>2 DEF ReadAmounts
<1>3. CASE ReadNothing
  <2>1. Fiscal!Blank \in Fiscal!Amounted
    BY DEF Fiscal!Blank, Fiscal!Amounted, Fiscal!OptionalOf
  <2>. QED  BY <1>1, <1>3, <2>1 DEF ReadNothing, Fiscal!ParseNothing
<1>4. CASE RecordInvoice
  <2>1. /\ payload' = Fiscal!CanonicalPayload(amounts)
        /\ alerts' = Fiscal!AlertsFor(amounts, record.cdr)
        /\ UNCHANGED <<terms, amounts>>
    BY <1>4 DEF RecordInvoice, Fiscal!Record
  <2>2. "spot_discrepancy" \in alerts' <=> Fiscal!HasDiscrepancy(amounts)
    BY <2>1 DEF Fiscal!AlertsFor
  <2>3. /\ Fiscal!CanonicalPayload(amounts') = Fiscal!CanonicalPayload(amounts)
        /\ Fiscal!HasDiscrepancy(amounts') <=> Fiscal!HasDiscrepancy(amounts)
    BY <2>1
  <2>. QED  BY <2>1, <2>2, <2>3
<1>5. CASE UNCHANGED fiscal
  <2>1. UNCHANGED <<stage, terms, amounts, payload, alerts>>
    BY <1>5 DEF fiscal
  <2>2. /\ Fiscal!CanonicalPayload(amounts') = Fiscal!CanonicalPayload(amounts)
        /\ Fiscal!HasDiscrepancy(amounts') <=> Fiscal!HasDiscrepancy(amounts)
    BY <2>1
  <2>. QED  BY <2>1, <2>2
<1>. QED  BY <1>2, <1>3, <1>4, <1>5 DEF DocumentNext, Extract

\* What is read, recorded and alerted of a message agrees.
THEOREM DocumentInvariant == DocumentSpec => []FiscalIInv
BY InitFiscalIInv, NextFiscalIInv, PTL DEF DocumentSpec

\* The alert is fair, whatever the attachments of a message hold and in whatever
\* way they were read, for all totals, rates, amounts and lists of terms, of any
\* precision (fiscal_alerts.py:110-115).
THEOREM AlertsAreFairHolds == DocumentSpec => []AlertsAreFair
<1>1. FiscalIInv => AlertsAreFair
  <2>. SUFFICES ASSUME FiscalIInv, stage = "recorded", Fiscal!Comparable
                PROVE  LET error == Fiscal!Distance(Fiscal!Percent * amounts.amount,
                                                    amounts.total * amounts.rate)
                           cent == Fiscal!Percent * Fine
                       IN  IF "spot_discrepancy" \in alerts
                           THEN /\ 2 * error > 9 * cent
                                /\ amounts.amount % Fine = 0 => 2 * error >= 11 * cent
                           ELSE 2 * error <= 11 * cent
    BY DEF AlertsAreFair, Fiscal!AlertsAreFair
  <2>1. amounts.total \in Int /\ amounts.rate \in Int /\ amounts.amount \in Int
    BY DEF FiscalIInv, Fiscal!Amounted, Fiscal!OptionalOf, Fiscal!Comparable
  <2>2. "spot_discrepancy" \in alerts
            <=> Fiscal!Disagrees(amounts.total, amounts.rate, amounts.amount)
    BY DEF FiscalIInv, RecordFollows, Fiscal!HasDiscrepancy, Fiscal!Comparable
  <2>. QED  BY <2>1, <2>2, AlertTolerance
<1>. QED  BY <1>1, DocumentInvariant, PTL

-----------------------------------------------------------------------------
(* The drafts for the accounting systems.                                  *)

\* An inequality of multiples is one of the numbers.
LEMMA FactorCancels ==
    ASSUME NEW k \in Nat \ {0}, NEW a \in Int, NEW b \in Int, k * a < k * b
    PROVE  a < b
<1>1. b < a => k * b < k * a
  BY FactorKeepsOrder
<1>2. k * a \in Int /\ k * b \in Int
  OBVIOUS
<1>3. a # b
  BY <1>2
<1>. QED  BY <1>1, <1>2, <1>3

\* Two amounts that are rounded by themselves are a cent off their sum at most.
LEMMA TwoRounded ==
    ASSUME NEW q \in Nat \ {0}, NEW x \in Int, NEW y \in Int
    PROVE  LET sum == q * (Fiscal!HalfEven(x, q) + Fiscal!HalfEven(y, q))
           IN  sum - (x + y) <= q /\ (x + y) - sum <= q
<1>. DEFINE h == Fiscal!HalfEven(x, q)
            k == Fiscal!HalfEven(y, q)
<1>1. /\ h \in Int /\ 2 * (q * h - x) <= q /\ 2 * (x - q * h) <= q
      /\ k \in Int /\ 2 * (q * k - y) <= q /\ 2 * (y - q * k) <= q
  BY HalfEvenIsNear
<1>. HIDE DEF h, k
<1>2. q * (h + k) = q * h + q * k /\ q * h \in Int /\ q * k \in Int
  BY <1>1
<1>3. q * (h + k) - (x + y) <= q /\ (x + y) - q * (h + k) <= q
  BY <1>1, <1>2
<1>. QED  BY <1>3 DEF h, k

\* Two that meet the same exact sum to a cent, one of them by half a cent, are a
\* cent off each other; else two.
LEMMA RoundedMeet ==
    ASSUME NEW q \in Nat \ {0}, NEW m \in Int, NEW n \in Int, NEW exact \in Int,
           q * m - exact <= q, exact - q * m <= q, q * n - exact <= q, exact - q * n <= q
    PROVE  /\ Fiscal!Distance(m, n) <= 2
           /\ 2 * (q * n - exact) <= q /\ 2 * (exact - q * n) <= q => Fiscal!Distance(m, n) <= 1
<1>1. /\ q * m \in Int /\ q * n \in Int /\ q * (m - n) = q * m - q * n /\ q * (n - m) = q * n - q * m
      /\ q * 3 = 3 * q /\ q * 2 = 2 * q
  OBVIOUS
<1>2. q * (m - n) < q * 3 /\ q * (n - m) < q * 3
  BY <1>1
<1>3. m - n < 3 /\ n - m < 3
  BY <1>2, FactorCancels
<1>4. ASSUME 2 * (q * n - exact) <= q, 2 * (exact - q * n) <= q
      PROVE  m - n < 2 /\ n - m < 2
  <2>1. q * (m - n) < q * 2 /\ q * (n - m) < q * 2
    BY <1>1, <1>4
  <2>. QED  BY <2>1, FactorCancels
<1>. QED  BY <1>3, <1>4 DEF Fiscal!Distance

\* The payload holds what the row has, rounded.
LEMMA PayloadIsRounded ==
    ASSUME NEW a \in Fiscal!Amounted, a.total # Nothing
    PROVE  LET p == Fiscal!CanonicalPayload(a)
           IN  /\ p.total = Fiscal!HalfEven(a.total, Fine)
               /\ p.amount = IF a.amount # Nothing THEN Fiscal!HalfEven(a.amount, Fine) ELSE Nothing
               /\ p.subtotal = IF a.subtotal # Nothing THEN Fiscal!HalfEven(a.subtotal, Fine) ELSE Nothing
               /\ p.tax = IF a.tax # Nothing THEN Fiscal!HalfEven(a.tax, Fine) ELSE Nothing
               /\ p.net = IF a.amount # Nothing THEN Fiscal!HalfEven(a.total - a.amount, Fine) ELSE Nothing
               /\ a.amount # Nothing => p.isSubject
BY DEF Fiscal!CanonicalPayload, Fiscal!Hundredths

\* What SAP and Siigo are told of a payload with a total, whatever amounts and rates
\* the row has or lacks (erp_adapters.py:65-153, fiscal_alerts.py:35-78).
LEMMA DraftsMeet ==
    ASSUME NEW a \in Fiscal!Amounted, a.total # Nothing
    PROVE  LET p == Fiscal!CanonicalPayload(a)
               sap == Erp!SapDraft(p)
               siigo == Erp!SiigoDraft(p)
               paid == sap.payment + sap.withheld
           IN  /\ Fiscal!Distance(paid, p.total) <= 1
               /\ InCents(a) => paid = p.total
               /\ siigo.payment = sap.payment
               /\ {held.value : held \in siigo.retentions} \ {0} = {sap.withheld} \ {0}
               /\ PartsAddUp(a) => Fiscal!Distance(siigo.price + siigo.tax, paid) <= 2
<1>. DEFINE p == Fiscal!CanonicalPayload(a)
            sap == Erp!SapDraft(p)
            siigo == Erp!SiigoDraft(p)
            paid == sap.payment + sap.withheld
<1>1. /\ Fine \in Nat \ {0} /\ Nothing \notin Int
      /\ a.total \in Int /\ a.amount \in Int \union {Nothing}
      /\ a.subtotal \in Int \union {Nothing} /\ a.tax \in Int \union {Nothing}
  BY DocumentAssumption DEF Fiscal!Amounted, Fiscal!OptionalOf
<1>2. \A x \in Int : Fiscal!HalfEven(x, Fine) \in Int
  BY <1>1, HalfEvenIsNear
<1>3. /\ p.total = Fiscal!HalfEven(a.total, Fine)
      /\ 2 * (Fine * p.total - a.total) <= Fine /\ 2 * (a.total - Fine * p.total) <= Fine
      /\ a.total % Fine = 0 => Fine * p.total = a.total
  BY <1>1, PayloadIsRounded, HalfEvenIsNear
<1>4. ASSUME PartsAddUp(a)
      PROVE  /\ siigo.price + siigo.tax \in Int
             /\ Fine * (siigo.price + siigo.tax) - a.total <= Fine
             /\ a.total - Fine * (siigo.price + siigo.tax) <= Fine
  <2>1. a.subtotal \in Int /\ a.tax \in Int /\ a.subtotal + a.tax = a.total
    BY <1>1, <1>4 DEF PartsAddUp
  <2>2. /\ siigo.price = Fiscal!HalfEven(a.subtotal, Fine) /\ siigo.tax = Fiscal!HalfEven(a.tax, Fine)
    BY <1>1, <1>2, <2>1, PayloadIsRounded DEF Erp!SiigoDraft, Erp!OrZero, Erp!FirstPresent
  <2>3. siigo.price \in Int /\ siigo.tax \in Int
    BY <1>2, <2>1, <2>2
  <2>4. LET sum == Fine * (Fiscal!HalfEven(a.subtotal, Fine) + Fiscal!HalfEven(a.tax, Fine))
        IN  sum - (a.subtotal + a.tax) <= Fine /\ (a.subtotal + a.tax) - sum <= Fine
    BY <1>1, <2>1, TwoRounded
  <2>. QED  BY <2>1, <2>2, <2>3, <2>4
<1>5. CASE a.amount = Nothing
  <2>1. p.net = Nothing /\ p.amount = Nothing
    BY <1>5, PayloadIsRounded
  <2>2. sap.payment = p.total /\ sap.withheld = 0 /\ siigo.payment = p.total /\ siigo.retentions = {}
    BY <1>1, <1>2, <1>3, <2>1
       DEF Erp!SapDraft, Erp!SiigoDraft, Erp!ToVendor, Erp!OrZero, Erp!FirstPresent
  <2>3. paid = p.total /\ p.total \in Int
    BY <1>1, <1>2, <1>3, <2>2
  <2>4. Fiscal!Distance(paid, p.total) <= 1
    BY <2>3 DEF Fiscal!Distance
  <2>5. {x.value : x \in siigo.retentions} \ {0} = {sap.withheld} \ {0}
    BY <2>2
  <2>6. PartsAddUp(a) => Fiscal!Distance(siigo.price + siigo.tax, paid) <= 2
    <3>1. Fine * paid - a.total <= Fine /\ a.total - Fine * paid <= Fine
      BY <1>1, <1>3, <2>3
    <3>. QED  BY <1>1, <1>4, <2>3, <3>1, RoundedMeet
  <2>. QED  BY <2>2, <2>3, <2>4, <2>5, <2>6
<1>6. CASE a.amount # Nothing
  <2>. DEFINE net == Fiscal!HalfEven(a.total - a.amount, Fine)
              held == Fiscal!HalfEven(a.amount, Fine)
  <2>1. p.net = net /\ p.amount = held /\ p.isSubject /\ net \in Int /\ held \in Int
    BY <1>1, <1>2, <1>6, PayloadIsRounded
  <2>. HIDE DEF net, held
  <2>2. /\ sap.payment = net /\ sap.withheld = held /\ siigo.payment = net
        /\ siigo.retentions = {[value |-> held, rate |-> Erp!OrZero(p.rate)]}
    BY <1>1, <1>2, <2>1
       DEF Erp!SapDraft, Erp!SiigoDraft, Erp!ToVendor, Erp!OrZero, Erp!FirstPresent
  <2>3. {x.value : x \in siigo.retentions} = {sap.withheld}
    BY <2>2
  <2>4. Fine * (net + held) - a.total <= Fine /\ a.total - Fine * (net + held) <= Fine
    <3>1. (a.total - a.amount) + a.amount = a.total /\ a.total - a.amount \in Int /\ a.amount \in Int
      BY <1>1, <1>6
    <3>. QED  BY <1>1, <3>1, TwoRounded DEF net, held
  <2>5. paid = net + held /\ paid \in Int
    BY <2>1, <2>2
  <2>6. Fiscal!Distance(paid, p.total) <= 1
    <3>1. Fine * paid - a.total <= Fine /\ a.total - Fine * paid <= Fine /\ p.total \in Int
      BY <1>1, <1>2, <1>3, <2>4, <2>5
    <3>2. Fine * p.total \in Int
      BY <1>1, <3>1
    <3>. HIDE DEF p, paid
    <3>3. Fine * p.total - a.total <= Fine /\ a.total - Fine * p.total <= Fine
      BY <1>1, <1>3, <3>2
    <3>. QED  BY <1>1, <1>3, <2>5, <3>1, <3>3, RoundedMeet
  <2>7. InCents(a) => paid = p.total
    <3>. SUFFICES ASSUME InCents(a) PROVE paid = p.total
      OBVIOUS
    <3>1. Fine * held = a.amount /\ Fine * p.total = a.total
      <4>1. a.total % Fine = 0 /\ a.amount % Fine = 0 /\ a.amount \in Int
        BY <1>1, <1>6 DEF InCents
      <4>. QED  BY <1>1, <1>3, <4>1, HalfEvenIsNear DEF held
    <3>2. 2 * (Fine * net - (a.total - a.amount)) <= Fine /\ 2 * ((a.total - a.amount) - Fine * net) <= Fine
      <4>1. a.total - a.amount \in Int
        BY <1>1, <1>6
      <4>. QED  BY <1>1, <4>1, HalfEvenIsNear DEF net
    <3>3. /\ Fine * (paid - p.total) = Fine * net + Fine * held - Fine * p.total
          /\ Fine * (p.total - paid) = Fine * p.total - Fine * net - Fine * held
          /\ p.total \in Int
      BY <1>1, <1>2, <1>3, <2>1, <2>5
    <3>4. Fine * (paid - p.total) < Fine * 1 /\ Fine * (p.total - paid) < Fine * 1
      BY <1>1, <1>6, <2>1, <3>1, <3>2, <3>3
    <3>5. paid - p.total < 1 /\ p.total - paid < 1
      BY <1>1, <2>5, <3>3, <3>4, FactorCancels
    <3>. QED  BY <2>5, <3>3, <3>5
  <2>8. PartsAddUp(a) => Fiscal!Distance(siigo.price + siigo.tax, paid) <= 2
    BY <1>4, <2>4, <2>5, RoundedMeet, <1>1
  <2>. QED  BY <2>2, <2>3, <2>6, <2>7, <2>8
<1>. QED  BY <1>5, <1>6

\* What SAP and Siigo are told of a message meets the total of its invoice, for
\* every way to read it and amounts of any precision (erp_adapters.py:65-153).
THEOREM DraftsMeetTotalHolds == DocumentSpec => []DraftsMeetTotal
<1>1. FiscalIInv => DraftsMeetTotal
  <2>. SUFFICES ASSUME FiscalIInv, stage = "recorded", payload.total # Nothing
                PROVE  DraftsMeetTotal
    BY DEF DraftsMeetTotal
  <2>1. payload = Fiscal!CanonicalPayload(amounts) /\ amounts \in Fiscal!Amounted
    BY DEF FiscalIInv, RecordFollows
  <2>2. amounts.total # Nothing
    BY <2>1 DEF Fiscal!CanonicalPayload, Fiscal!Hundredths
  <2>. QED  BY <2>1, <2>2, DraftsMeet DEF DraftsMeetTotal
<1>. QED  BY <1>1, DocumentInvariant, PTL

-----------------------------------------------------------------------------
(* The terms of payment.                                                   *)

\* What the parser of an XML leaves is what the first detraction says, and what
\* finds no invoice leaves blanks.
TermsInv ==
    stage # "new" /\ terms # << >> =>
        \/ amounts.amount = Fiscal!DetractionAmount /\ amounts.rate = Fiscal!DetractionRate
        \/ amounts.amount = Nothing /\ amounts.rate = Nothing

\* The terms are read once, together with what the lookups find in them.
LEMMA NextTermsInv == TermsInv /\ [DocumentNext]_<<vars, fiscal>> => TermsInv'
<1>. SUFFICES ASSUME TermsInv, [DocumentNext]_<<vars, fiscal>> PROVE TermsInv'
  OBVIOUS
<1>. USE DEF TermsInv
<1>1. terms' = terms
  BY DEF DocumentNext, Extract, ReadAmounts, ReadNothing, RecordInvoice, fiscal, Fiscal!Parse,
         Fiscal!ParseText, Fiscal!ParseNothing, Fiscal!Parsed, Fiscal!Record
<1>2. /\ Fiscal!DetractionAmount' = Fiscal!DetractionAmount
      /\ Fiscal!DetractionRate' = Fiscal!DetractionRate
  BY <1>1 DEF Fiscal!DetractionAmount, Fiscal!DetractionRate, Fiscal!Detractions, Fiscal!WithAmount,
              Fiscal!HasInstalments, Fiscal!FirstOf
<1>3. CASE ReadAmounts /\ Fiscal!Parse
  BY <1>2, <1>3 DEF Fiscal!Parse, Fiscal!Parsed, Fiscal!Amounting
<1>4. CASE ReadAmounts /\ Fiscal!ParseText
  BY <1>1, <1>4 DEF Fiscal!ParseText
<1>5. CASE ReadNothing
  BY <1>5 DEF ReadNothing, Fiscal!ParseNothing, Fiscal!Parsed, Fiscal!Blank
<1>6. CASE RecordInvoice
  BY <1>1, <1>2, <1>6 DEF RecordInvoice, Fiscal!Record
<1>7. CASE UNCHANGED fiscal
  BY <1>1, <1>2, <1>7 DEF fiscal
<1>. QED  BY <1>3, <1>4, <1>5, <1>6, <1>7 DEF DocumentNext, Extract, ReadAmounts

\* No amount goes with the rate of another term, however many terms an invoice has
\* and in whatever order (extractor.py, parse_xml_invoice).
THEOREM AmountAndRateAgreeHolds == DocumentSpec => []AmountAndRateAgree
<1>1. DocumentInit => TermsInv
  BY DEF DocumentInit, Fiscal!Init, TermsInv
<1>2. FiscalIInv /\ TermsInv => AmountAndRateAgree
  <2>. SUFFICES ASSUME FiscalIInv, TermsInv, stage # "new", terms # << >>,
                       amounts.amount # Nothing, amounts.rate # Nothing
                PROVE  \E i \in DOMAIN terms :
                          /\ Fiscal!IsDetraction(terms[i])
                          /\ terms[i].amount = amounts.amount /\ terms[i].percent = amounts.rate
                          /\ \A j \in 1..(i - 1) : ~ Fiscal!IsDetraction(terms[j])
    BY DEF AmountAndRateAgree
  <2>. DEFINE S == Fiscal!Detractions
              i == CHOOSE n \in S : \A j \in S : ~ (j < n)
  <2>1. amounts.amount = Fiscal!DetractionAmount /\ amounts.rate = Fiscal!DetractionRate
    BY DEF TermsInv
  <2>2. S # {}
    BY <2>1 DEF Fiscal!DetractionRate
  <2>3. S \in SUBSET Nat /\ DOMAIN terms = 1..Len(terms) /\ Len(terms) \in Nat
    BY DEF Fiscal!Detractions, FiscalIInv
  <2>4. \E n \in S : \A j \in S : ~ (j < n)
    BY <2>2, <2>3, LeastElement
  <2>5. i \in S /\ \A j \in S : ~ (j < i)
    BY <2>4
  <2>6. Fiscal!FirstOf(S) = terms[i]
    BY DEF Fiscal!FirstOf
  <2>. HIDE DEF i
  <2>7. terms[i].amount = amounts.amount /\ terms[i].percent = amounts.rate
    BY <2>1, <2>2, <2>6 DEF Fiscal!DetractionAmount, Fiscal!DetractionRate, Fiscal!ValueOf
  <2>8. i \in DOMAIN terms /\ Fiscal!IsDetraction(terms[i])
    BY <2>5 DEF Fiscal!Detractions
  <2>9. \A j \in 1..(i - 1) : ~ Fiscal!IsDetraction(terms[j])
    BY <2>3, <2>5, <2>8 DEF Fiscal!Detractions
  <2>. QED  BY <2>7, <2>8, <2>9
<1>. QED  BY <1>1, <1>2, NextTermsInv, DocumentInvariant, PTL DEF DocumentSpec

-----------------------------------------------------------------------------
(* The attachments.                                                        *)

\* The bytes of a kind are those of a member with such a name, and there are some
\* once the loop has passed one.
BytesFollow(name, b) ==
    /\ b # Nothing => b \in DocumentsNamed(name)
    /\ (\E k \in 1..(at - 1) : File.members[k].name = name) => b # Nothing

ChosenInv == pc \in {"open", "unpack"} => chosen \in Candidates

UnpackInv ==
    /\ pc = "open" => bytes = NoBytes /\ at = 1
    /\ pc = "unpack" =>
           /\ File.ext = "zip" /\ File.opens /\ at \in 1..(Len(File.members) + 1)
           /\ BytesFollow("plain", bytes.invoice) /\ BytesFollow("cdr", bytes.cdr)

Validated == pc = "validate" \/ (pc = "done" /\ record.status = "PROCESSED")

\* A message that is one archive with one invoice and one CDR, as often as they lie
\* in it.
IsPair(invoice, cdr) ==
    /\ Of("xml") = {} /\ Len(mail) = 1 /\ mail[1].opens
    /\ DocumentsNamed("plain") = {invoice} /\ DocumentsNamed("cdr") = {cdr}

PairInv ==
    \A invoice \in Invoices, cdr \in Cdrs :
        Validated /\ IsPair(invoice, cdr) => record.invoice = invoice /\ record.cdr = CdrStatus(cdr)

SourceInv ==
    pc \in {"validate", "done"} /\ Of("xml") \union Of("zip") # {} =>
        /\ record.invoice # Nothing => record.invoice \in XmlFiles \union DocumentsNamed("plain")
        /\ record.cdr = "ACCEPTED" => "accepted" \in DocumentsNamed("cdr")
        /\ record.cdr = "REJECTED" => "rejected" \in DocumentsNamed("cdr")

ExtractIInv ==
    /\ mail \in Messages /\ at \in Nat \ {0}
    /\ pc = "choose" => bytes = NoBytes /\ at = 1
    /\ ChosenInv /\ UnpackInv /\ PairInv /\ SourceInv

\* A message is a sequence of attachments and its candidates are positions in
\* it.
LEMMA MailIsSequence ==
    ASSUME ExtractIInv
    PROVE  /\ mail \in Seq(Attachment) /\ Len(mail) \in Nat /\ DOMAIN mail = 1..Len(mail)
           /\ \A i \in DOMAIN mail : mail[i] \in Attachment
           /\ Candidates \in SUBSET DOMAIN mail /\ Candidates \in SUBSET Nat
<1>1. mail \in Seq(Attachment)
  BY ExtractionAssumption DEF ExtractIInv
<1>2. Candidates \in SUBSET DOMAIN mail
  BY DEF Candidates, Of
<1>. QED  BY <1>1, <1>2

\* The first position of a set of positions is one of them.
LEMMA MinIsIn == ASSUME NEW S \in SUBSET Nat, S # {} PROVE Min(S) \in S
<1>1. PICK m \in S : \A k \in S : ~ (k < m)
  BY LeastElement
<1>2. \A k \in S : m <= k
  BY <1>1
<1>. QED  BY <1>2 DEF Min

\* An XML or a ZIP is preferred to whatever else there is.
LEMMA StructuredFirst ==
    ASSUME ExtractIInv, chosen \in Candidates
    PROVE  /\ chosen \in DOMAIN mail /\ File \in Attachment
           /\ Of("xml") \union Of("zip") # {} => File.ext \in {"xml", "zip"}
           /\ File.ext = "xml" => File.doc \in XmlFiles
           /\ File.ext = "zip" => chosen \in Of("zip")
<1>1. chosen \in DOMAIN mail /\ File \in Attachment
  BY MailIsSequence DEF File
<1>2. Of("xml") \union Of("zip") # {} => File.ext \in {"xml", "zip"}
  BY DEF Candidates, Of, File
<1>3. File.ext = "xml" => File.doc \in XmlFiles
  BY <1>1 DEF XmlFiles, Of, File
<1>4. File.ext = "zip" => chosen \in Of("zip")
  BY <1>1 DEF Of, File
<1>. QED  BY <1>1, <1>2, <1>3, <1>4

\* A member of an archive is among the documents of its name.
LEMMA MembersAreNamed ==
    ASSUME ExtractIInv, NEW i \in Of("zip"), NEW k \in DOMAIN mail[i].members
    PROVE  /\ mail[i].members[k] \in Member
           /\ mail[i].members[k].doc \in DocumentsNamed(mail[i].members[k].name)
           /\ mail[i].members[k].doc # Nothing
<1>. DEFINE z == <<mail[i], k>>
            m == mail[i].members[k]
<1>1. mail[i] \in Attachment
  BY MailIsSequence DEF Of
<1>2. m \in Member
  BY <1>1 DEF Attachment
<1>3. z \in ZipMembers /\ z[1].members[z[2]] = m
  BY DEF ZipMembers
<1>4. m.doc \in DocumentsNamed(m.name)
  BY <1>3 DEF DocumentsNamed
<1>. QED  BY <1>2, <1>4, ExtractionAssumption DEF Member

\* The one file of a pair is the archive that is read.
LEMMA PairIsOneArchive ==
    ASSUME ExtractIInv, NEW invoice, NEW cdr, IsPair(invoice, cdr)
    PROVE  /\ Of("zip") = {1} /\ Candidates = {1}
           /\ \E k \in DOMAIN mail[1].members : mail[1].members[k].name = "plain"
           /\ \E k \in DOMAIN mail[1].members : mail[1].members[k].name = "cdr"
<1>1. Of("zip") \subseteq {1}
  BY MailIsSequence DEF IsPair, Of
<1>2. PICK z \in ZipMembers : z[1].members[z[2]].name = "plain"
  BY DEF IsPair, DocumentsNamed
<1>3. PICK y \in ZipMembers : y[1].members[y[2]].name = "cdr"
  BY DEF IsPair, DocumentsNamed
<1>4. \E i \in Of("zip") : \E k \in DOMAIN mail[i].members : z = <<mail[i], k>>
  BY <1>2 DEF ZipMembers
<1>5. \E i \in Of("zip") : \E k \in DOMAIN mail[i].members : y = <<mail[i], k>>
  BY <1>3 DEF ZipMembers
<1>6. Of("zip") = {1}
  BY <1>1, <1>4
<1>7. Candidates = {1}
  BY <1>6 DEF Candidates, IsPair
<1>. QED  BY <1>2, <1>3, <1>4, <1>5, <1>6, <1>7

\* What depends on the attachments only stays while they do.
LEMMA MailStays ==
    ASSUME mail' = mail
    PROVE  /\ \A ext : Of(ext)' = Of(ext)
           /\ Candidates' = Candidates /\ XmlFiles' = XmlFiles
           /\ \A name : DocumentsNamed(name)' = DocumentsNamed(name)
           /\ \A invoice, cdr : IsPair(invoice, cdr)' <=> IsPair(invoice, cdr)
<1>1. \A ext : Of(ext)' = Of(ext)
  BY DEF Of
<1>2. ZipMembers' = ZipMembers
  BY <1>1 DEF ZipMembers
<1>3. Candidates' = Candidates /\ XmlFiles' = XmlFiles
  BY <1>1 DEF Candidates, XmlFiles
<1>4. \A name : DocumentsNamed(name)' = DocumentsNamed(name)
  BY <1>2 DEF DocumentsNamed
<1>. QED  BY <1>1, <1>3, <1>4 DEF IsPair

\* Whoever decides what the row holds while no archive is open.
LEMMA ExtractedKeeps ==
    ASSUME ExtractIInv, UNCHANGED <<mail, at>>, NEW invoice, NEW cdr, Extracted(invoice, cdr),
           \A i \in Invoices, c \in Cdrs : IsPair(i, c) => invoice = i /\ cdr = CdrStatus(c),
           Of("xml") \union Of("zip") # {} =>
               /\ invoice # Nothing => invoice \in XmlFiles \union DocumentsNamed("plain")
               /\ cdr = "ACCEPTED" => "accepted" \in DocumentsNamed("cdr")
               /\ cdr = "REJECTED" => "rejected" \in DocumentsNamed("cdr")
    PROVE  ExtractIInv'
<1>1. record'.invoice = invoice /\ record'.cdr = cdr /\ pc' = "validate"
  BY DEF Extracted
<1>2. PairInv'
  BY <1>1, MailStays DEF PairInv
<1>3. SourceInv'
  BY <1>1, MailStays DEF SourceInv
<1>. QED  BY <1>1, <1>2, <1>3 DEF ExtractIInv, ChosenInv, UnpackInv

\* An ERROR row holds nothing.
LEMMA RefusedKeeps ==
    ASSUME ExtractIInv, UNCHANGED <<mail, at>>, Finish("ERROR", Nothing, Nothing)
    PROVE  ExtractIInv'
<1>1. /\ record'.status = "ERROR" /\ record'.invoice = Nothing /\ record'.cdr = Nothing
      /\ pc' = "done"
  BY DEF Finish
<1>2. PairInv'
  BY <1>1 DEF PairInv, Validated
<1>3. SourceInv'
  BY <1>1, ExtractionAssumption DEF SourceInv
<1>. QED  BY <1>1, <1>2, <1>3 DEF ExtractIInv, ChosenInv, UnpackInv

\* What is read from a file that is not an archive says nothing of a pair.
LEMMA NoPair ==
    ASSUME ExtractIInv, pc = "open", File.ext # "zip" \/ ~ File.opens
    PROVE  \A invoice, cdr : ~ IsPair(invoice, cdr)
<1>. SUFFICES ASSUME NEW invoice, NEW cdr, IsPair(invoice, cdr) PROVE FALSE
  OBVIOUS
<1>1. chosen = 1 /\ 1 \in Of("zip")
  BY PairIsOneArchive DEF ExtractIInv, ChosenInv
<1>2. File.ext = "zip" /\ File.opens
  BY <1>1 DEF Of, File, IsPair
<1>. QED  BY <1>2

\* The attachment that is chosen is a candidate (extractor.py:109-135).
LEMMA ChooseKeeps == ASSUME ExtractIInv, Choose PROVE ExtractIInv'
<1>. USE DEF Choose
<1>1. CASE Candidates = {}
  <2>1. \A i, c : ~ IsPair(i, c)
    BY <1>1, PairIsOneArchive
  <2>2. Of("xml") \union Of("zip") = {}
    BY <1>1 DEF Candidates
  <2>. QED  BY <1>1, <2>1, <2>2, ExtractedKeeps
<1>2. CASE Candidates # {}
  <2>1. chosen' \in Candidates /\ pc' = "open"
    BY <1>2, MinIsIn, MailIsSequence
  <2>2. ChosenInv'
    BY <2>1, MailStays DEF ChosenInv
  <2>3. UnpackInv'
    BY <2>1 DEF UnpackInv, ExtractIInv, NoBytes
  <2>4. PairInv' /\ SourceInv'
    BY <2>1 DEF PairInv, SourceInv, Validated
  <2>. QED  BY <2>1, <2>2, <2>3, <2>4 DEF ExtractIInv
<1>. QED  BY <1>1, <1>2

\* The invoice of an XML file is that of the file.
LEMMA ParseXmlKeeps == ASSUME ExtractIInv, ParseXml PROVE ExtractIInv'
<1>1. /\ pc = "open" /\ File.ext = "xml" /\ Extracted(InvoiceIn(File.doc), Nothing)
      /\ UNCHANGED <<mail, at>>
  BY DEF ParseXml
<1>2. File.doc \in XmlFiles
  BY <1>1, StructuredFirst DEF ExtractIInv, ChosenInv
<1>3. InvoiceIn(File.doc) # Nothing => InvoiceIn(File.doc) \in XmlFiles
  BY <1>2 DEF InvoiceIn
<1>4. \A i, c : ~ IsPair(i, c)
  BY <1>1, NoPair
<1>. QED  BY <1>1, <1>3, <1>4, ExtractedKeeps, ExtractionAssumption

\* PDFs and other files are chosen only in a message without XML and ZIP.
LEMMA ParseTextKeeps == ASSUME ExtractIInv, ParsePdf \/ KeepOther PROVE ExtractIInv'
<1>1. pc = "open" /\ File.ext \in {"pdf", "other"} /\ UNCHANGED <<mail, at>>
  BY DEF ParsePdf, KeepOther
<1>2. Of("xml") \union Of("zip") = {}
  BY <1>1, StructuredFirst DEF ExtractIInv, ChosenInv
<1>3. \A i, c : ~ IsPair(i, c)
  BY <1>1, NoPair
<1>4. \E invoice, cdr : Extracted(invoice, cdr)
  BY DEF ParsePdf, KeepOther
<1>. QED  BY <1>1, <1>2, <1>3, <1>4, ExtractedKeeps

\* An archive that opens is read from its first member.
LEMMA OpenZipKeeps == ASSUME ExtractIInv, OpenZip PROVE ExtractIInv'
<1>. USE DEF OpenZip
<1>1. CASE ~ File.opens
  <2>1. \A i, c : ~ IsPair(i, c)
    BY <1>1, NoPair
  <2>. QED  BY <1>1, <2>1, ExtractedKeeps, ExtractionAssumption
<1>2. CASE File.opens
  <2>1. pc' = "unpack" /\ UNCHANGED <<mail, chosen, at, bytes>> /\ chosen \in Candidates
    BY <1>2 DEF ExtractIInv, ChosenInv
  <2>2. File' = File /\ bytes = NoBytes /\ at = 1
    BY <2>1 DEF File, ExtractIInv, UnpackInv
  <2>3. Len(File.members) \in Nat
    BY <2>1, StructuredFirst DEF Attachment
  <2>4. UnpackInv'
    <3>1. File'.ext = "zip" /\ File'.opens /\ at' \in 1..(Len(File'.members) + 1)
      BY <1>2, <2>1, <2>2, <2>3
    <3>2. BytesFollow("plain", bytes.invoice)' /\ BytesFollow("cdr", bytes.cdr)'
      BY <2>1, <2>2 DEF BytesFollow, NoBytes
    <3>. QED  BY <2>1, <3>1, <3>2 DEF UnpackInv
  <2>5. ChosenInv' /\ PairInv' /\ SourceInv'
    BY <2>1, MailStays DEF ChosenInv, PairInv, SourceInv, Validated
  <2>. QED  BY <2>1, <2>4, <2>5 DEF ExtractIInv
<1>. QED  BY <1>1, <1>2

\* The loop over the names of the archive.
LEMMA ReadMemberKeeps == ASSUME ExtractIInv, ReadMember PROVE ExtractIInv'
<1>. DEFINE m == File.members[at]
<1>1. /\ pc = "unpack" /\ pc' = "unpack" /\ UNCHANGED <<mail, chosen, record>> /\ at' = at + 1
      /\ at <= Len(File.members) /\ at \in Nat \ {0} /\ chosen \in Candidates
      /\ bytes' = CASE m.name = "cdr" -> [bytes EXCEPT !.cdr = m.doc]
                    [] m.name = "plain" -> [bytes EXCEPT !.invoice = m.doc]
                    [] OTHER -> bytes
  BY DEF ReadMember, ExtractIInv, ChosenInv
<1>2. File.ext = "zip" /\ File.opens /\ chosen \in Of("zip") /\ File \in Attachment
  BY <1>1, StructuredFirst DEF ExtractIInv, UnpackInv
<1>3. File' = File /\ Len(File.members) \in Nat /\ at \in DOMAIN File.members
  BY <1>1, <1>2 DEF File, Attachment
<1>4. m \in Member /\ m.doc \in DocumentsNamed(m.name) /\ m.doc # Nothing
  BY <1>2, <1>3, MembersAreNamed DEF File
<1>5. BytesFollow("plain", bytes.invoice) /\ BytesFollow("cdr", bytes.cdr)
  BY <1>1 DEF ExtractIInv, UnpackInv
<1>6. 1..(at' - 1) = 1..at /\ \A k \in 1..at : k \in 1..(at - 1) \/ k = at
  BY <1>1
<1>7. BytesFollow("plain", bytes.invoice)'
  <2>1. \/ m.name = "plain" /\ bytes'.invoice = m.doc
        \/ m.name # "plain" /\ bytes'.invoice = bytes.invoice
    BY <1>1, <1>4 DEF Member
  <2>. QED  BY <1>1, <1>3, <1>4, <1>5, <1>6, <2>1, MailStays DEF BytesFollow
<1>8. BytesFollow("cdr", bytes.cdr)'
  <2>1. \/ m.name = "cdr" /\ bytes'.cdr = m.doc
        \/ m.name # "cdr" /\ bytes'.cdr = bytes.cdr
    BY <1>1, <1>4 DEF Member
  <2>. QED  BY <1>1, <1>3, <1>4, <1>5, <1>6, <2>1, MailStays DEF BytesFollow
<1>9. UnpackInv'
  <2>1. at' \in 1..(Len(File'.members) + 1)
    BY <1>1, <1>3
  <2>. QED  BY <1>1, <1>2, <1>3, <1>7, <1>8, <2>1 DEF UnpackInv
<1>10. ChosenInv' /\ PairInv' /\ SourceInv'
  BY <1>1, MailStays DEF ChosenInv, PairInv, SourceInv, Validated
<1>. QED  BY <1>1, <1>9, <1>10 DEF ExtractIInv

\* After the last name everything in the archive has been passed.
LEMMA ParseUnpackedKeeps == ASSUME ExtractIInv, ParseUnpacked PROVE ExtractIInv'
<1>. DEFINE invoice == IF bytes.invoice = Nothing THEN Nothing ELSE InvoiceIn(bytes.invoice)
            cdr == IF bytes.cdr = Nothing THEN Nothing ELSE CdrStatus(bytes.cdr)
<1>1. /\ pc = "unpack" /\ UNCHANGED <<mail, at>> /\ Extracted(invoice, cdr)
      /\ at > Len(File.members) /\ at \in Nat \ {0} /\ chosen \in Candidates
  BY DEF ParseUnpacked, ExtractIInv, ChosenInv
<1>2. BytesFollow("plain", bytes.invoice) /\ BytesFollow("cdr", bytes.cdr)
  BY <1>1 DEF ExtractIInv, UnpackInv
<1>3. ASSUME NEW i \in Invoices, NEW c \in Cdrs, IsPair(i, c) PROVE invoice = i /\ cdr = CdrStatus(c)
  <2>1. /\ chosen = 1
        /\ \E k \in DOMAIN File.members : File.members[k].name = "plain"
        /\ \E k \in DOMAIN File.members : File.members[k].name = "cdr"
    BY <1>1, <1>3, PairIsOneArchive DEF File
  <2>2. File \in Attachment
    BY <1>1, StructuredFirst
  <2>3. DOMAIN File.members \subseteq 1..(at - 1)
    BY <1>1, <2>2 DEF Attachment
  <2>4. bytes.invoice # Nothing /\ bytes.cdr # Nothing
    BY <1>2, <2>1, <2>3 DEF BytesFollow
  <2>5. bytes.invoice = i /\ bytes.cdr = c
    BY <1>2, <1>3, <2>4 DEF BytesFollow, IsPair
  <2>. QED  BY <2>4, <2>5 DEF InvoiceIn
<1>4. invoice # Nothing => invoice \in DocumentsNamed("plain")
  BY <1>2 DEF BytesFollow, InvoiceIn
<1>5. /\ cdr = "ACCEPTED" => "accepted" \in DocumentsNamed("cdr")
      /\ cdr = "REJECTED" => "rejected" \in DocumentsNamed("cdr")
  BY <1>2, ExtractionAssumption DEF BytesFollow, CdrStatus
<1>. HIDE DEF invoice, cdr
<1>. QED  BY <1>1, <1>3, <1>4, <1>5, ExtractedKeeps

\* Validation decides the status and leaves invoice and verdict alone.
LEMMA ValidateKeeps == ASSUME ExtractIInv, Validate PROVE ExtractIInv'
<1>1. /\ pc = "validate" /\ pc' = "done" /\ UNCHANGED <<mail, at>>
      /\ record'.invoice = record.invoice /\ record'.cdr = record.cdr
  BY DEF Validate, Finish
<1>2. PairInv'
  BY <1>1, MailStays DEF ExtractIInv, PairInv, Validated
<1>3. SourceInv'
  BY <1>1, MailStays DEF ExtractIInv, SourceInv
<1>. QED  BY <1>1, <1>2, <1>3 DEF ExtractIInv, ChosenInv, UnpackInv

\* The invariant of the extraction is inductive.
LEMMA NextExtractIInv == ExtractIInv /\ [Next]_vars => ExtractIInv'
<1>. SUFFICES ASSUME ExtractIInv, [Next]_vars PROVE ExtractIInv'
  OBVIOUS
<1>1. Refuse \/ RefuseExtract => ExtractIInv'
  BY RefusedKeeps DEF Refuse, RefuseExtract
<1>2. ASSUME UNCHANGED vars PROVE ExtractIInv'
  <2>1. UNCHANGED <<pc, mail, chosen, at, bytes, record>>
    BY <1>2 DEF vars
  <2>2. File' = File
    BY <2>1 DEF File
  <2>3. ChosenInv' /\ PairInv' /\ SourceInv'
    BY <2>1, MailStays DEF ExtractIInv, ChosenInv, PairInv, SourceInv, Validated
  <2>4. UnpackInv'
    BY <2>1, <2>2, MailStays DEF ExtractIInv, UnpackInv, BytesFollow
  <2>. QED  BY <2>1, <2>3, <2>4 DEF ExtractIInv
<1>. QED  BY <1>1, <1>2, ChooseKeeps, ParseXmlKeeps, ParseTextKeeps, OpenZipKeeps, ReadMemberKeeps,
             ParseUnpackedKeeps, ValidateKeeps DEF Next

\* What the extraction of a message has found so far is in its attachments.
THEOREM ExtractionInvariant == DocumentSpec => []ExtractIInv
<1>1. DocumentInit => ExtractIInv
  BY DEF DocumentInit, Init, ExtractIInv, ChosenInv, UnpackInv, PairInv, SourceInv, Validated
<1>2. [DocumentNext]_<<vars, fiscal>> => [Next]_vars
  BY DEF DocumentNext, Extract, ReadAmounts, ReadNothing, RecordInvoice, Extracts
<1>. QED  BY <1>1, <1>2, NextExtractIInv, PTL DEF DocumentSpec

\* An invoice and its CDR in one archive are found, wherever they lie in it and
\* whatever else it holds, for archives of any length (extractor.py).
THEOREM ZipPairIsReadHolds == DocumentSpec => []ZipPairIsRead
<1>1. ExtractIInv => ZipPairIsRead
  BY DEF ExtractIInv, PairInv, Validated, IsPair, ZipPairIsRead, CdrStatus, Cdrs
<1>. QED  BY <1>1, ExtractionInvariant, PTL

\* A message with an XML or a ZIP file has no invoice and no verdict but theirs, for
\* any number of attachments (extractor.py:98).
THEOREM StructuredDataWinsHolds == DocumentSpec => []StructuredDataWins
<1>1. ExtractIInv => StructuredDataWins
  BY DEF ExtractIInv, SourceInv, StructuredDataWins
<1>. QED  BY <1>1, ExtractionInvariant, PTL

-----------------------------------------------------------------------------
(* The rejection.                                                          *)

\* Only a row that was extracted has an event, and the alerts follow its verdict.
ReportInv ==
    /\ stage \in {"new", "parsed", "recorded"}
    /\ stage # "new" => pc = "done" /\ record.status = "PROCESSED"
    /\ stage = "recorded" => ("cdr_rejected" \in alerts <=> record.cdr = "REJECTED")

\* The alerts are made of the verdict in the row, and neither changes
\* afterwards.
LEMMA NextReportInv == ReportInv /\ [DocumentNext]_<<vars, fiscal>> => ReportInv'
<1>. SUFFICES ASSUME ReportInv, [DocumentNext]_<<vars, fiscal>> PROVE ReportInv'
  OBVIOUS
<1>. USE DEF ReportInv
<1>1. CASE Extract
  <2>1. pc # "done" /\ UNCHANGED <<stage, alerts>>
    BY <1>1 DEF Extract, fiscal, Next, Choose, Refuse, ParseXml, ParsePdf, KeepOther, OpenZip,
                ReadMember, ParseUnpacked, Validate, RefuseExtract
  <2>. QED  BY <2>1
<1>2. CASE ReadAmounts \/ ReadNothing
  BY <1>2 DEF ReadAmounts, ReadNothing, Extracts, vars, Fiscal!Parse, Fiscal!ParseText,
              Fiscal!ParseNothing, Fiscal!Parsed
<1>3. CASE RecordInvoice
  BY <1>3 DEF RecordInvoice, Extracts, vars, Fiscal!Record, Fiscal!AlertsFor, Fiscal!Rejected
<1>4. CASE UNCHANGED <<vars, fiscal>>
  BY <1>4 DEF vars, fiscal
<1>. QED  BY <1>1, <1>2, <1>3, <1>4 DEF DocumentNext

\* A CDR that rejects, next to its invoice in an archive, raises the critical alert,
\* and no other CDR does (fiscal_alerts.py:90).
THEOREM RejectionIsReportedHolds == DocumentSpec => []RejectionIsReported
<1>1. DocumentInit => ReportInv
  BY DEF DocumentInit, Fiscal!Init, ReportInv
<1>2. ExtractIInv /\ ReportInv => RejectionIsReported
  <2>. SUFFICES ASSUME ExtractIInv, ReportInv, NEW invoice \in Invoices, NEW cdr \in Cdrs,
                       stage = "recorded", IsPair(invoice, cdr)
                PROVE  "cdr_rejected" \in alerts <=> cdr = "rejected"
    BY DEF RejectionIsReported, IsPair
  <2>1. record.cdr = CdrStatus(cdr)
    BY DEF ExtractIInv, PairInv, Validated, ReportInv
  <2>2. CdrStatus(cdr) = "REJECTED" <=> cdr = "rejected"
    BY DEF CdrStatus, Cdrs
  <2>. QED  BY <2>1, <2>2 DEF ReportInv
<1>. QED  BY <1>1, <1>2, NextReportInv, ExtractionInvariant, PTL DEF DocumentSpec
=============================================================================
