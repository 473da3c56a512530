-------------------------- MODULE HTTPCheckProofs --------------------------
(***************************************************************************)
(* For all thresholds: the fall and rise counters of pkg/hc/httpcheck.go   *)
(* compute the hysteresis over the history of results, the first verdict   *)
(* is in time, and the check implements CheckPromise.                      *)
(***************************************************************************)
EXTENDS HTTPCheck, TLAPS

\* The counters are the lengths of the runs that end the history.
RunLength(n, ok) ==
  /\ n \in 0..Len(results)
  /\ \A k \in 1..Len(results) : k > Len(results) - n => results[k] = ok
  /\ n < Len(results) => results[Len(results) - n] # ok

CountersAreRuns == RunLength(falls, FALSE) /\ RunLength(rises, TRUE)

\* lastCheck is the end of the history.
LastIsLast ==
  /\ results # <<>> => results[Len(results)] = lastCheck
  /\ results = <<>> => lastCheck = FALSE

\* Until the first verdict early counts the checks.
EarlyCounts ==
  /\ early >= 0 => early = Len(results) /\ ~healthy
  /\ early = -1 => got \/ chan # <<>>

\* Close is through only when the worker is gone.
CloseOrder == closing = "closed" => worker = "gone" /\ ~healthy

IInv ==
  /\ TypeOK
  /\ CountersAreRuns /\ LastIsLast
  /\ EarlyCounts
  /\ CloseOrder
  /\ HealthyIsHysteresis

\* NewHTTPCheck begins without results, counts or verdict.
LEMMA IInvInit == Init => IInv
<1> SUFFICES ASSUME Init PROVE IInv
  OBVIOUS
<1>0. /\ results = <<>> /\ Len(results) = 0
      /\ healthy = FALSE /\ lastCheck = FALSE /\ got = FALSE
      /\ falls = 0 /\ rises = 0 /\ early = 0 /\ chan = <<>>
      /\ timer = "armed" /\ worker = "waiting" /\ closing = "no"
  BY DEF Init
<1>1. TypeOK
  <2>1. early \in 0..(FallThreshold - 1)
    BY <1>0, ThresholdsPositive
  <2>2. results \in Seq(BOOLEAN)
    BY <1>0
  <2>3. QED
    BY <1>0, <2>1, <2>2 DEF TypeOK
<1>2. CountersAreRuns /\ LastIsLast
  BY <1>0 DEF CountersAreRuns, RunLength, LastIsLast
<1>3. EarlyCounts /\ CloseOrder
  BY <1>0 DEF EarlyCounts, CloseOrder
<1>4. HealthyIsHysteresis
  BY <1>0 DEF HealthyIsHysteresis, HealthyByHistory
<1>5. QED
  BY <1>1, <1>2, <1>3, <1>4 DEF IInv

\* What one more result does to the history.
LEMMA AppendFacts ==
  ASSUME results \in Seq(BOOLEAN), NEW ok \in BOOLEAN,
         results' = Append(results, ok)
  PROVE  /\ Len(results) \in Nat /\ Len(results') = Len(results) + 1
         /\ results' \in Seq(BOOLEAN)
         /\ results'[Len(results')] = ok
         /\ \A k \in 1..Len(results) : results'[k] = results[k]
OBVIOUS

\* The counters stay the lengths of the runs.
LEMMA RunsGrow ==
  ASSUME TypeOK, CountersAreRuns, LastIsLast, NEW ok \in BOOLEAN,
         results' = Append(results, ok), falls' = Falls(ok), rises' = Rises(ok)
  PROVE  CountersAreRuns'
<1>0. results \in Seq(BOOLEAN) /\ falls \in Nat /\ rises \in Nat
  BY DEF TypeOK
<1>1. /\ Len(results) \in Nat /\ Len(results') = Len(results) + 1
      /\ results'[Len(results')] = ok
      /\ \A k \in 1..Len(results) : results'[k] = results[k]
  BY <1>0, AppendFacts
<1>2. results = <<>> <=> Len(results) = 0
  BY <1>0
<1>3. /\ falls \in 0..Len(results) /\ rises \in 0..Len(results)
      /\ \A k \in 1..Len(results) : k > Len(results) - falls => results[k] = FALSE
      /\ \A k \in 1..Len(results) : k > Len(results) - rises => results[k] = TRUE
      /\ falls < Len(results) => results[Len(results) - falls] # FALSE
      /\ rises < Len(results) => results[Len(results) - rises] # TRUE
  BY DEF CountersAreRuns, RunLength
<1>4. lastCheck = TRUE => falls = 0
  <2> SUFFICES ASSUME lastCheck = TRUE, falls # 0 PROVE FALSE
    OBVIOUS
  <2>1. Len(results) \in 1..Len(results) /\ Len(results) > Len(results) - falls
    BY <1>0, <1>1, <1>3
  <2>2. results[Len(results)] = FALSE
    BY <1>3, <2>1
  <2>3. results[Len(results)] = TRUE
    BY <1>2, <2>1 DEF LastIsLast
  <2>4. QED
    BY <2>2, <2>3
<1>5. lastCheck = FALSE => rises = 0
  <2> SUFFICES ASSUME lastCheck = FALSE, rises # 0 PROVE FALSE
    OBVIOUS
  <2>1. Len(results) \in 1..Len(results) /\ Len(results) > Len(results) - rises
    BY <1>0, <1>1, <1>3
  <2>2. results[Len(results)] = TRUE
    BY <1>3, <2>1
  <2>3. results[Len(results)] = FALSE
    BY <1>2, <2>1 DEF LastIsLast
  <2>4. QED
    BY <2>2, <2>3
<1> DEFINE L == Len(results)
<1>6. CASE ok = TRUE
  <2>1. falls' = 0
    BY <1>4, <1>6 DEF Falls, TypeOK
  <2>2. rises' = rises + 1
    BY <1>0, <1>5, <1>6 DEF Rises, TypeOK
  <2>3. RunLength(falls, FALSE)'
    <3>1. falls' \in 0..Len(results') /\ Len(results') - falls' = Len(results')
      BY <1>1, <2>1
    <3>2. \A k \in 1..Len(results') : ~(k > Len(results') - falls')
      BY <1>1, <3>1
    <3>3. results'[Len(results') - falls'] # FALSE
      BY <1>1, <1>6, <3>1
    <3>4. QED
      BY <3>1, <3>2, <3>3 DEF RunLength
  <2>4. rises' \in 0..Len(results')
    BY <1>0, <1>1, <1>3, <2>2
  <2>5. ASSUME NEW k \in 1..Len(results'), k > Len(results') - rises'
        PROVE  results'[k] = TRUE
    <3>1. CASE k = Len(results')
      BY <1>1, <1>6, <3>1
    <3>2. CASE k # Len(results')
      <4>1. k \in 1..L /\ k > L - rises
        BY <1>0, <1>1, <2>2, <2>5, <3>2
      <4>2. QED
        BY <1>1, <1>3, <4>1
    <3>3. QED
      BY <3>1, <3>2
  <2>6. ASSUME rises' < Len(results') PROVE results'[Len(results') - rises'] # TRUE
    <3>1. Len(results') - rises' = L - rises /\ L - rises \in 1..L
      BY <1>0, <1>1, <1>3, <2>2, <2>6
    <3>2. rises < L
      BY <1>0, <1>1, <3>1
    <3>3. QED
      BY <1>1, <1>3, <3>1, <3>2
  <2>7. RunLength(rises, TRUE)'
    BY <2>4, <2>5, <2>6 DEF RunLength
  <2>8. QED
    BY <2>3, <2>7 DEF CountersAreRuns
<1>7. CASE ok = FALSE
  <2>1. rises' = 0
    BY <1>5, <1>7 DEF Rises, TypeOK
  <2>2. falls' = falls + 1
    BY <1>0, <1>4, <1>7 DEF Falls, TypeOK
  <2>3. RunLength(rises, TRUE)'
    <3>1. rises' \in 0..Len(results') /\ Len(results') - rises' = Len(results')
      BY <1>1, <2>1
    <3>2. \A k \in 1..Len(results') : ~(k > Len(results') - rises')
      BY <1>1, <3>1
    <3>3. results'[Len(results') - rises'] # TRUE
      BY <1>1, <1>7, <3>1
    <3>4. QED
      BY <3>1, <3>2, <3>3 DEF RunLength
  <2>4. falls' \in 0..Len(results')
    BY <1>0, <1>1, <1>3, <2>2
  <2>5. ASSUME NEW k \in 1..Len(results'), k > Len(results') - falls'
        PROVE  results'[k] = FALSE
    <3>1. CASE k = Len(results')
      BY <1>1, <1>7, <3>1
    <3>2. CASE k # Len(results')
      <4>1. k \in 1..L /\ k > L - falls
        BY <1>0, <1>1, <2>2, <2>5, <3>2
      <4>2. QED
        BY <1>1, <1>3, <4>1
    <3>3. QED
      BY <3>1, <3>2
  <2>6. ASSUME falls' < Len(results') PROVE results'[Len(results') - falls'] # FALSE
    <3>1. Len(results') - falls' = L - falls /\ L - falls \in 1..L
      BY <1>0, <1>1, <1>3, <2>2, <2>6
    <3>2. falls < L
      BY <1>0, <1>1, <3>1
    <3>3. QED
      BY <1>1, <1>3, <3>1, <3>2
  <2>7. RunLength(falls, FALSE)'
    BY <2>4, <2>5, <2>6 DEF RunLength
  <2>8. QED
    BY <2>3, <2>7 DEF CountersAreRuns
<1>8. QED
  BY <1>6, <1>7

\* Whether n results ok end a sequence can be read off the length m of the run
\* that ends it.
LEMMA RunAtEnd ==
  ASSUME NEW s \in Seq(BOOLEAN), s # <<>>, NEW n \in Nat \ {0},
         NEW ok \in BOOLEAN, NEW m \in 0..Len(s),
         \A k \in 1..Len(s) : k > Len(s) - m => s[k] = ok,
         m < Len(s) => s[Len(s) - m] # ok
  PROVE  (Len(s) >= n /\ \A k \in (Len(s) - n + 1)..Len(s) : s[k] = ok) <=> m >= n
<1>1. Len(s) \in Nat \ {0}
  OBVIOUS
<1>2. ASSUME m >= n
      PROVE  Len(s) >= n /\ \A k \in (Len(s) - n + 1)..Len(s) : s[k] = ok
  <2>1. Len(s) >= n
    BY <1>1, <1>2
  <2>2. ASSUME NEW k \in (Len(s) - n + 1)..Len(s) PROVE s[k] = ok
    <3>1. k \in 1..Len(s) /\ k > Len(s) - m
      BY <1>1, <1>2, <2>1
    <3>2. QED
      BY <3>1
  <2>3. QED
    BY <2>1, <2>2
<1>3. ASSUME ~(m >= n), Len(s) >= n,
             \A k \in (Len(s) - n + 1)..Len(s) : s[k] = ok
      PROVE  FALSE
  <2>1. m < Len(s) /\ Len(s) - m \in (Len(s) - n + 1)..Len(s)
    BY <1>1, <1>3
  <2>2. QED
    BY <1>3, <2>1
<1>4. QED
  BY <1>2, <1>3

\* The hysteresis over the history after one more result.
LEMMA HistoryGrows ==
  ASSUME results \in Seq(BOOLEAN), NEW ok \in BOOLEAN,
         results' = Append(results, ok)
  PROVE  HealthyByHistory' <=>
           \/ RunEndsAt(RiseThreshold, TRUE, Len(results))'
           \/ HealthyByHistory /\ ~RunEndsAt(FallThreshold, FALSE, Len(results))'
<1> DEFINE L == Len(results)
<1>1. /\ L \in Nat /\ Len(results') = L + 1
      /\ \A k \in 1..L : results'[k] = results[k]
  BY AppendFacts
<1>2. ASSUME NEW n \in Nat \ {0}, NEW b \in BOOLEAN, NEW i \in 1..L
      PROVE  (i >= n /\ \A k \in (i - n + 1)..i : results'[k] = b)
               <=> RunEndsAt(n, b, i)
  <2>1. i >= n => \A k \in (i - n + 1)..i : k \in 1..L
    BY <1>1
  <2>2. i >= n => \A k \in (i - n + 1)..i : results'[k] = results[k]
    BY <1>1, <2>1
  <2>3. QED
    BY <2>2 DEF RunEndsAt
<1>3. HealthyByHistory' =
        \E i \in 1..(L + 1) :
          /\ i >= RiseThreshold
          /\ \A k \in (i - RiseThreshold + 1)..i : results'[k] = TRUE
          /\ \A j \in (i + 1)..(L + 1) :
               ~(j >= FallThreshold
                 /\ \A k \in (j - FallThreshold + 1)..j : results'[k] = FALSE)
  BY <1>1 DEF HealthyByHistory, RunEndsAt
<1> DEFINE R(i) == i >= RiseThreshold
                   /\ \A k \in (i - RiseThreshold + 1)..i : results'[k] = TRUE
           F(j) == j >= FallThreshold
                   /\ \A k \in (j - FallThreshold + 1)..j : results'[k] = FALSE
<1>4. /\ \A i \in 1..L : R(i) <=> RunEndsAt(RiseThreshold, TRUE, i)
      /\ \A j \in 1..L : F(j) <=> RunEndsAt(FallThreshold, FALSE, j)
  BY <1>2, ThresholdsPositive
<1>5. /\ RunEndsAt(RiseThreshold, TRUE, Len(results))' <=> R(L + 1)
      /\ RunEndsAt(FallThreshold, FALSE, Len(results))' <=> F(L + 1)
  BY <1>1 DEF RunEndsAt
<1>6. HealthyByHistory' <=>
        \E i \in 1..(L + 1) : R(i) /\ \A j \in (i + 1)..(L + 1) : ~F(j)
  BY <1>3
<1>7. HealthyByHistory <=>
        \E i \in 1..L : R(i) /\ \A j \in (i + 1)..L : ~F(j)
  <2>1. \A i \in 1..L : \A j \in (i + 1)..L : j \in 1..L
    BY <1>1
  <2>2. QED
    BY <1>4, <2>1 DEF HealthyByHistory
<1> HIDE DEF R, F
<1>8. ASSUME R(L + 1)
      PROVE  \E i \in 1..(L + 1) : R(i) /\ \A j \in (i + 1)..(L + 1) : ~F(j)
  <2>1. L + 1 \in 1..(L + 1) /\ (L + 1 + 1)..(L + 1) = {}
    BY <1>1
  <2>2. QED
    BY <1>8, <2>1
<1>9. ASSUME HealthyByHistory, ~F(L + 1)
      PROVE  \E i \in 1..(L + 1) : R(i) /\ \A j \in (i + 1)..(L + 1) : ~F(j)
  <2>1. PICK i \in 1..L : R(i) /\ \A j \in (i + 1)..L : ~F(j)
    BY <1>7, <1>9
  <2>2. ASSUME NEW j \in (i + 1)..(L + 1) PROVE ~F(j)
    <3>1. j \in (i + 1)..L \/ j = L + 1
      BY <1>1
    <3>2. QED
      BY <1>9, <2>1, <3>1
  <2>3. i \in 1..(L + 1)
    BY <1>1
  <2>4. QED
    BY <2>1, <2>2, <2>3
<1>10. ASSUME ~R(L + 1), NEW i \in 1..(L + 1), R(i),
              \A j \in (i + 1)..(L + 1) : ~F(j)
       PROVE  HealthyByHistory /\ ~F(L + 1)
  <2>1. i \in 1..L
    BY <1>1, <1>10
  <2>2. L + 1 \in (i + 1)..(L + 1) /\ \A j \in (i + 1)..L : j \in (i + 1)..(L + 1)
    BY <1>1, <2>1
  <2>3. QED
    BY <1>7, <1>10, <2>1, <2>2
<1>11. QED
  BY <1>5, <1>6, <1>8, <1>9, <1>10

-----------------------------------------------------------------------------
(* The steps.                                                              *)

\* The end of a check.
LEMMA CheckEndsStep ==
  ASSUME IInv, NEW ok \in BOOLEAN, CheckEnds(ok)
  PROVE  IInv'
<1>0. TypeOK /\ results \in Seq(BOOLEAN) /\ closing # "closed"
  BY DEF IInv, TypeOK, CloseOrder, CheckEnds
<1>1. /\ results' = Append(results, ok) /\ results' \in Seq(BOOLEAN)
      /\ Len(results) \in Nat /\ Len(results') = Len(results) + 1
      /\ results'[Len(results')] = ok /\ results' # <<>>
  BY <1>0, AppendFacts DEF CheckEnds
<1>2. falls' = Falls(ok) /\ rises' = Rises(ok) /\ lastCheck' = ok
  BY DEF CheckEnds, Digest
<1>3. CountersAreRuns'
  BY <1>1, <1>2, RunsGrow DEF IInv
<1>4. LastIsLast'
  BY <1>1, <1>2 DEF LastIsLast
<1>5. falls' \in Nat /\ rises' \in Nat
  BY <1>0, <1>2 DEF Falls, Rises, TypeOK
<1>6. UNCHANGED <<closing, got>> /\ worker' = "waiting" /\ timer' = "armed"
  BY DEF CheckEnds
<1>7. \/ FallsOver(ok) /\ healthy' = FALSE /\ Send(FALSE) /\ early' = -1
      \/ RisesOver(ok) /\ healthy' = TRUE /\ Send(TRUE) /\ early' = -1
      \/ /\ EarlyVerdict(ok) /\ Send(FALSE) /\ early' = -1
         /\ UNCHANGED healthy
      \/ /\ ~FallsOver(ok) /\ ~RisesOver(ok) /\ ~EarlyVerdict(ok)
         /\ early' = IF ~healthy /\ early >= 0 THEN early + 1 ELSE early
         /\ UNCHANGED <<healthy, chan>>
  BY DEF CheckEnds, Digest
<1>8. early \in {-1} \cup 0..(FallThreshold - 1) /\ FallThreshold \in Nat
  BY <1>0, ThresholdsPositive DEF TypeOK
<1>9. early' \in {-1} \cup 0..(FallThreshold - 1)
  <2>1. CASE early' = -1
    BY <2>1
  <2>2. CASE ~RisesOver(ok) /\ ~EarlyVerdict(ok)
             /\ early' = IF ~healthy /\ early >= 0 THEN early + 1 ELSE early
    BY <1>8, <2>2 DEF EarlyVerdict
  <2>3. QED
    BY <1>7, <2>1, <2>2
<1>10. healthy' \in BOOLEAN /\ chan' \in {<<>>, <<TRUE>>, <<FALSE>>}
  BY <1>0, <1>7 DEF TypeOK, Send
<1>11. TypeOK'
  BY <1>0, <1>1, <1>2, <1>5, <1>6, <1>9, <1>10 DEF TypeOK
<1>12. EarlyCounts'
  <2>1. CASE early' = -1 /\ \E b \in BOOLEAN : Send(b)
    BY <2>1 DEF EarlyCounts, Send
  <2>2. CASE early' = (IF ~healthy /\ early >= 0 THEN early + 1 ELSE early)
             /\ UNCHANGED <<healthy, chan>>
    BY <1>1, <1>6, <1>8, <2>2 DEF EarlyCounts, IInv
  <2>3. QED
    BY <1>7, <2>1, <2>2
<1>13. CloseOrder'
  BY <1>0, <1>6 DEF CloseOrder
<1>14. HealthyIsHysteresis'
  <2>1. healthy <=> HealthyByHistory
    BY <1>0 DEF IInv, HealthyIsHysteresis
  <2>2. RunEndsAt(RiseThreshold, TRUE, Len(results))' <=> rises' >= RiseThreshold
    <3>1. /\ rises' \in 0..Len(results')
          /\ \A k \in 1..Len(results') : k > Len(results') - rises' => results'[k] = TRUE
          /\ rises' < Len(results') => results'[Len(results') - rises'] # TRUE
      BY <1>3 DEF CountersAreRuns, RunLength
    <3>2. QED
      BY <1>1, <3>1, RunAtEnd, ThresholdsPositive DEF RunEndsAt
  <2>3. RunEndsAt(FallThreshold, FALSE, Len(results))' <=> falls' >= FallThreshold
    <3>1. /\ falls' \in 0..Len(results')
          /\ \A k \in 1..Len(results') : k > Len(results') - falls' => results'[k] = FALSE
          /\ falls' < Len(results') => results'[Len(results') - falls'] # FALSE
      BY <1>3 DEF CountersAreRuns, RunLength
    <3>2. QED
      BY <1>1, <3>1, RunAtEnd, ThresholdsPositive DEF RunEndsAt
  <2>4. HealthyByHistory' <=>
          rises' >= RiseThreshold \/ (healthy /\ ~(falls' >= FallThreshold))
    BY <1>0, <1>1, <2>1, <2>2, <2>3, HistoryGrows
  <2>5. ~(rises' >= RiseThreshold /\ falls' >= FallThreshold)
    <3>1. rises' = 0 \/ falls' = 0
      <4>1. /\ falls' \in 0..Len(results') /\ rises' \in 0..Len(results')
            /\ \A k \in 1..Len(results') :
                 /\ k > Len(results') - falls' => results'[k] = FALSE
                 /\ k > Len(results') - rises' => results'[k] = TRUE
        BY <1>3 DEF CountersAreRuns, RunLength
      <4>2. Len(results') \in 1..Len(results')
        BY <1>1
      <4>3. falls' # 0 => Len(results') > Len(results') - falls'
        BY <1>1, <4>1
      <4>4. rises' # 0 => Len(results') > Len(results') - rises'
        BY <1>1, <4>1
      <4>5. QED
        BY <4>1, <4>2, <4>3, <4>4
    <3>2. QED
      BY <3>1, ThresholdsPositive
  <2>6. healthy' <=>
          rises' >= RiseThreshold \/ (healthy /\ ~(falls' >= FallThreshold))
    <3>1. healthy \in BOOLEAN
      BY <1>0 DEF TypeOK
    <3>2. CASE FallsOver(ok) /\ healthy' = FALSE
      BY <1>2, <2>5, <3>2 DEF FallsOver
    <3>3. CASE RisesOver(ok) /\ healthy' = TRUE
      BY <1>2, <3>3 DEF RisesOver
    <3>4. CASE ~FallsOver(ok) /\ ~RisesOver(ok) /\ healthy' = healthy
      BY <1>2, <3>1, <3>4 DEF FallsOver, RisesOver
    <3>5. EarlyVerdict(ok) => ~FallsOver(ok) /\ ~RisesOver(ok)
      BY DEF EarlyVerdict, FallsOver
    <3>6. QED
      BY <1>7, <3>2, <3>3, <3>4, <3>5
  <2>7. QED
    BY <2>4, <2>6 DEF HealthyIsHysteresis
<1>15. QED
  BY <1>3, <1>4, <1>11, <1>12, <1>13, <1>14 DEF IInv

\* Every step of worker, timer, reader and Close keeps the invariant.
LEMMA IInvStep == IInv /\ [Next]_vars => IInv'
<1> SUFFICES ASSUME IInv, [Next]_vars PROVE IInv'
  OBVIOUS
<1> USE DEF countVars
<1>0. ASSUME UNCHANGED <<countVars, results>>,
             closing' # "closed" => closing # "closed" /\ healthy' = healthy
      PROVE  CountersAreRuns' /\ LastIsLast' /\ HealthyIsHysteresis'
  <2>1. CountersAreRuns' /\ LastIsLast'
    BY <1>0 DEF IInv, CountersAreRuns, RunLength, LastIsLast
  <2>2. HealthyByHistory' = HealthyByHistory
    BY <1>0 DEF HealthyByHistory, RunEndsAt
  <2>3. QED
    BY <1>0, <2>1, <2>2 DEF IInv, HealthyIsHysteresis
<1>1. ASSUME TimerExpires PROVE IInv'
  <2>1. TypeOK'
    BY <1>1 DEF TimerExpires, IInv, TypeOK
  <2>2. EarlyCounts' /\ CloseOrder'
    BY <1>1 DEF TimerExpires, IInv, EarlyCounts, CloseOrder
  <2>3. QED
    BY <1>1, <1>0, <2>1, <2>2 DEF TimerExpires, IInv
<1>2. ASSUME TimerFires PROVE IInv'
  <2>1. TypeOK'
    BY <1>2 DEF TimerFires, IInv, TypeOK
  <2>2. EarlyCounts' /\ CloseOrder'
    BY <1>2 DEF TimerFires, IInv, EarlyCounts, CloseOrder
  <2>3. QED
    BY <1>2, <1>0, <2>1, <2>2 DEF TimerFires, IInv
<1>3. ASSUME NEW ok \in BOOLEAN, CheckEnds(ok) PROVE IInv'
  BY <1>3, CheckEndsStep
<1>4. ASSUME WorkerExits PROVE IInv'
  <2>1. TypeOK'
    BY <1>4 DEF WorkerExits, IInv, TypeOK
  <2>2. EarlyCounts' /\ CloseOrder'
    BY <1>4 DEF WorkerExits, IInv, EarlyCounts, CloseOrder
  <2>3. QED
    BY <1>4, <1>0, <2>1, <2>2 DEF WorkerExits, IInv
<1>5. ASSUME Receive PROVE IInv'
  <2>1. TypeOK'
    BY <1>5 DEF Receive, IInv, TypeOK
  <2>2. EarlyCounts' /\ CloseOrder'
    BY <1>5 DEF Receive, IInv, EarlyCounts, CloseOrder
  <2>3. QED
    BY <1>5, <1>0, <2>1, <2>2 DEF Receive, IInv
<1>6. ASSUME CloseCall PROVE IInv'
  <2>1. TypeOK'
    BY <1>6 DEF CloseCall, IInv, TypeOK
  <2>2. EarlyCounts' /\ CloseOrder'
    BY <1>6 DEF CloseCall, IInv, EarlyCounts, CloseOrder
  <2>3. QED
    BY <1>6, <1>0, <2>1, <2>2 DEF CloseCall, IInv
<1>7. ASSUME CloseReturns PROVE IInv'
  <2>1. TypeOK'
    BY <1>7 DEF CloseReturns, IInv, TypeOK
  <2>2. EarlyCounts' /\ CloseOrder'
    BY <1>7 DEF CloseReturns, IInv, EarlyCounts, CloseOrder
  <2>3. QED
    BY <1>7, <1>0, <2>1, <2>2 DEF CloseReturns, IInv
<1>8. ASSUME UNCHANGED vars PROVE IInv'
  <2>1. TypeOK'
    BY <1>8 DEF vars, IInv, TypeOK
  <2>2. EarlyCounts' /\ CloseOrder'
    BY <1>8 DEF vars, IInv, EarlyCounts, CloseOrder
  <2>3. QED
    BY <1>8, <1>0, <2>1, <2>2 DEF vars, IInv
<1>9. QED
  BY <1>1, <1>2, <1>3, <1>4, <1>5, <1>6, <1>7, <1>8 DEF Next

\* The inductive invariant holds in every state a check can reach.
THEOREM IInvInvariant == Spec => []IInv
BY IInvInit, IInvStep, PTL DEF Spec

\* The type invariant; it says that early never counts past the threshold.
THEOREM TypeCorrect == Spec => []TypeOK
<1>1. IInv => TypeOK
  BY DEF IInv
<1>2. QED
  BY <1>1, IInvInvariant, PTL

\* For every pair of thresholds and every sequence of results the counters
\* give the status that the history of results calls for.
THEOREM StatusIsHysteresis == Spec => []HealthyIsHysteresis
<1>1. IInv => HealthyIsHysteresis
  BY DEF IInv
<1>2. QED
  BY <1>1, IInvInvariant, PTL

\* Whatever the first FallThreshold checks return, their end brings a verdict.
THEOREM VerdictInTime == Spec => []FirstVerdictInTime
<1>1. IInv => FirstVerdictInTime
  BY ThresholdsPositive DEF IInv, TypeOK, EarlyCounts, FirstVerdictInTime
<1>2. QED
  BY <1>1, IInvInvariant, PTL

\* Nothing that was under way makes a closed check healthy again.
THEOREM ClosedIsUnhealthy == Spec => []ClosedStaysUnhealthy
<1>1. IInv => ClosedStaysUnhealthy
  BY DEF IInv, CloseOrder, ClosedStaysUnhealthy
<1>2. QED
  BY <1>1, IInvInvariant, PTL

\* A new check has told nothing and is unhealthy, as CheckPromise begins.
LEMMA PromiseInitially == Init => Promise!PromiseInit
BY DEF Init, Promise!PromiseInit

\* Every step of a check is one of CheckPromise or one its users do not see.
LEMMA PromiseStep ==
  IInv /\ [Next]_vars => [Promise!PromiseNext]_(Promise!promiseVars)
<1> SUFFICES ASSUME IInv, [Next]_vars
             PROVE  Promise!PromiseNext \/ UNCHANGED Promise!promiseVars
  OBVIOUS
<1> USE DEF Promise!promiseVars, countVars
<1>1. ASSUME NEW ok \in BOOLEAN, CheckEnds(ok)
      PROVE  Promise!PromiseNext \/ UNCHANGED Promise!promiseVars
  <2>1. closing' = closing /\ closing # "closed"
    BY <1>1 DEF IInv, CloseOrder, CheckEnds
  <2>2. healthy \in BOOLEAN /\ (early >= 0 \/ early = -1) /\ (early >= 0 => ~healthy)
    BY DEF IInv, TypeOK, EarlyCounts
  <2>3. CASE FallsOver(ok) /\ healthy' = FALSE /\ early' = -1
    <3>1. healthy = TRUE /\ early = -1
      BY <2>2, <2>3 DEF FallsOver
    <3>2. Promise!Flip
      BY <2>1, <2>3, <3>1 DEF Promise!Flip
    <3>3. QED
      BY <3>2 DEF Promise!PromiseNext
  <2>4. CASE RisesOver(ok) /\ healthy' = TRUE /\ early' = -1
    <3>1. healthy = FALSE
      BY <2>2, <2>4 DEF RisesOver
    <3>2. CASE early = -1
      BY <2>1, <2>4, <3>1, <3>2 DEF Promise!Flip, Promise!PromiseNext
    <3>3. CASE early # -1
      BY <2>1, <2>4, <3>3 DEF Promise!Tell, Promise!PromiseNext
    <3>4. QED
      BY <3>2, <3>3
  <2>5. CASE EarlyVerdict(ok) /\ early' = -1 /\ UNCHANGED healthy
    BY <2>1, <2>2, <2>5 DEF EarlyVerdict, Promise!Tell, Promise!PromiseNext
  <2>6. CASE /\ early' = IF ~healthy /\ early >= 0 THEN early + 1 ELSE early
             /\ UNCHANGED healthy
    <3>1. early' = -1 <=> early = -1
      BY <2>2, <2>6 DEF IInv, TypeOK
    <3>2. QED
      BY <2>1, <2>6, <3>1
  <2>7. QED
    BY <1>1, <2>3, <2>4, <2>5, <2>6 DEF CheckEnds, Digest
<1>2. ASSUME CloseReturns
      PROVE  Promise!PromiseNext \/ UNCHANGED Promise!promiseVars
  BY <1>2 DEF CloseReturns, Promise!Stop, Promise!PromiseNext
<1>3. ASSUME TimerExpires \/ TimerFires \/ WorkerExits \/ Receive
      PROVE  UNCHANGED Promise!promiseVars
  BY <1>3 DEF TimerExpires, TimerFires, WorkerExits, Receive
<1>4. ASSUME CloseCall PROVE UNCHANGED Promise!promiseVars
  BY <1>4 DEF CloseCall
<1>5. ASSUME UNCHANGED vars PROVE UNCHANGED Promise!promiseVars
  BY <1>5 DEF vars
<1>6. QED
  BY <1>1, <1>2, <1>3, <1>4, <1>5 DEF Next

\* The check as coded keeps the promise its users rely on.
THEOREM CheckKeepsPromise == Spec => ImplementsPromise
<1>1. IInv /\ [Next]_vars => [Promise!PromiseNext]_(Promise!promiseVars)
  BY PromiseStep
<1>2. QED
  BY <1>1, IInvInvariant, PromiseInitially, PTL
     DEF Spec, ImplementsPromise, Promise!PromiseSpec

=============================================================================
