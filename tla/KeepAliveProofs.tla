-------------------------- MODULE KeepAliveProofs --------------------------
(***************************************************************************)
(* Theorems about KeepAlive, for every set of thresholds: the types, that  *)
(* a daemon deletes nothing before it has observed every window, and what  *)
(* a procedure that is deleted has received.                               *)
(***************************************************************************)
EXTENDS KeepAlive, WellFoundedInduction, TLAPS

Sample == [age : 0 .. MaxWindow, rx : 0 .. MaxBytes]

\* What is capped stays within the cap.
LEMMA CappedIn ==
    ASSUME NEW cap \in Nat, NEW n \in 0 .. cap
    PROVE  Capped(n + 1, cap) \in 0 .. cap
BY DEF Capped

\* The interval between two polls is at most five minutes.
LEMMA PollIntervalIn ==
    ASSUME NEW elapsed \in Nat
    PROVE  PollInterval(elapsed) \in 0 .. 5
BY DEF PollInterval

\* Sampling the pod keeps the samples within their bounds.
LEMMA RecordedIn ==
    ASSUME samples \subseteq Sample
    PROVE  Recorded \subseteq Sample
BY ThresholdsAssumption DEF Recorded, Now, Sample

\* A minute ages a sample within its bounds.
LEMMA AgedIn ==
    ASSUME NEW s \in Sample
    PROVE  Aged(s) \in Sample
BY ThresholdsAssumption DEF Aged, Sample

\* A sample is not older than the time its store has been observed.
SampledSince == \A s \in samples : s.age <= observed

KeepAliveInv == KeepAliveTypeOK /\ SampledSince

LEMMA TypeInit == Init => KeepAliveTypeOK
BY ThresholdsAssumption DEF Init, KeepAliveTypeOK, MaxWaited

LEMMA TypeStep == KeepAliveTypeOK /\ [Next]_vars => KeepAliveTypeOK'
<1> SUFFICES ASSUME KeepAliveTypeOK, [Next]_vars PROVE KeepAliveTypeOK'
  OBVIOUS
<1> USE ThresholdsAssumption
<1>1. samples \subseteq Sample
  BY DEF KeepAliveTypeOK, Sample
<1>2. Recorded \subseteq Sample
  BY <1>1, RecordedIn
<1>3. PollInterval(waited) \in 0 .. 5
  <2>1. waited \in Nat
    BY DEF KeepAliveTypeOK, MaxWaited
  <2> QED  BY <2>1, PollIntervalIn
<1>4. ASSUME Sleep PROVE sleep' \in 0 .. 5 /\ due' \in BOOLEAN
  BY <1>3, <1>4 DEF Sleep
<1>5. CASE PollKeeps
  BY <1>5, <1>2, <1>4 DEF PollKeeps, Sleep, KeepAliveTypeOK, Sample
<1>6. CASE PollUnavailable
  <2>1. blind' \in 0 .. MaxWindow
    BY <1>6 DEF PollUnavailable
  <2> QED  BY <1>6, <1>4, <2>1 DEF PollUnavailable, Sleep, KeepAliveTypeOK
<1>7. CASE PollStops
  BY <1>7, <1>2 DEF PollStops, KeepAliveTypeOK, Sample
<1>8. CASE PollFails
  BY <1>8, <1>2, <1>4 DEF PollFails, Sleep, KeepAliveTypeOK, Sample
<1>9. CASE PollFindsNone
  BY <1>9 DEF PollFindsNone, KeepAliveTypeOK
<1>10. CASE Query
  BY <1>10, <1>2 DEF Query, KeepAliveTypeOK, Sample
<1>11. CASE JobEnds
  BY <1>11 DEF JobEnds, KeepAliveTypeOK
<1>12. CASE Restart
  BY <1>12 DEF Restart, KeepAliveTypeOK, MaxWaited
<1>13. CASE Receive
  <2>1. ASSUME NEW s \in samples
        PROVE  [s EXCEPT !.rx = IF s.age < MaxWindow
                                THEN Capped(@ + 1, MaxBytes) ELSE @] \in Sample
    <3>1. s \in Sample
      BY <1>1
    <3>2. Capped(s.rx + 1, MaxBytes) \in 0 .. MaxBytes
      BY <3>1, CappedIn DEF Sample
    <3> QED  BY <3>1, <3>2 DEF Sample
  <2>2. samples' \subseteq Sample
    BY <1>13, <2>1 DEF Receive
  <2>3. Capped(received[0] + 1, MaxBytes) \in 0 .. MaxBytes
    BY CappedIn DEF KeepAliveTypeOK
  <2>4. received' \in [0 .. MaxWindow - 1 -> 0 .. MaxBytes]
    BY <1>13, <2>3 DEF Receive, KeepAliveTypeOK
  <2>5. due' \in BOOLEAN
    BY <1>13 DEF Receive
  <2> QED  BY <1>13, <2>2, <2>4, <2>5 DEF Receive, KeepAliveTypeOK, Sample
<1>14. CASE Tick
  <2>1. /\ jobAge' \in 0 .. MaxWindow
        /\ observed' \in 0 .. MaxWindow
        /\ blind' \in 0 .. MaxWindow
    BY <1>14, CappedIn DEF Tick, KeepAliveTypeOK
  <2>2. waited' \in 0 .. MaxWaited
    BY <1>14, CappedIn DEF Tick, KeepAliveTypeOK, MaxWaited
  <2>3. sleep' \in 0 .. 5 /\ due' \in BOOLEAN
    BY <1>14 DEF Tick, KeepAliveTypeOK
  <2>4. samples' \subseteq Sample
    BY <1>14, <1>1, AgedIn DEF Tick
  <2>5. received' \in [0 .. MaxWindow - 1 -> 0 .. MaxBytes]
    BY <1>14 DEF Tick, KeepAliveTypeOK
  <2> QED
    BY <1>14, <2>1, <2>2, <2>3, <2>4, <2>5 DEF Tick, KeepAliveTypeOK, Sample
<1>15. CASE UNCHANGED vars
  BY <1>15 DEF vars, KeepAliveTypeOK
<1> QED
  BY <1>5, <1>6, <1>7, <1>8, <1>9, <1>10, <1>11, <1>12, <1>13, <1>14, <1>15
  DEF Next

\* The variables have their types in every reachable state, whatever the
\* thresholds of the procedure.
THEOREM KeepAliveTypeCorrect == Spec => []KeepAliveTypeOK
<1>1. Safe => []KeepAliveTypeOK
  BY TypeInit, TypeStep, PTL DEF Safe
<1> QED  BY <1>1, PTL DEF Spec

----------------------------------------------------------------------------
LEMMA SinceStep == KeepAliveInv /\ [Next]_vars => SampledSince'
<1> SUFFICES ASSUME KeepAliveInv, [Next]_vars, NEW s \in samples'
             PROVE  s.age <= observed'
  BY DEF SampledSince
<1> USE ThresholdsAssumption
<1>1. KeepAliveTypeOK /\ \A r \in samples : r.age <= observed
  BY DEF KeepAliveInv, SampledSince
<1>2. ASSUME samples' = Recorded, observed' = observed
      PROVE  s.age <= observed'
  <2>1. CASE s \in samples
    BY <1>1, <1>2, <2>1
  <2>2. CASE s = Now
    BY <1>1, <1>2, <2>2 DEF Now, KeepAliveTypeOK
  <2> QED  BY <1>2, <2>1, <2>2 DEF Recorded
<1>3. ASSUME samples' = samples, observed' = observed
      PROVE  s.age <= observed'
  BY <1>1, <1>3
<1>4. CASE PollKeeps \/ PollStops \/ PollFails \/ Query
  BY <1>2, <1>4 DEF PollKeeps, PollStops, PollFails, Query, Sleep
<1>5. CASE PollUnavailable \/ PollFindsNone \/ JobEnds \/ UNCHANGED vars
  BY <1>3, <1>5 DEF PollUnavailable, PollFindsNone, JobEnds, Sleep, vars
<1>6. CASE Restart
  BY <1>6 DEF Restart
<1>7. CASE Receive
  <2>1. PICK r \in samples :
          s = [r EXCEPT !.rx = IF r.age < MaxWindow
                               THEN Capped(@ + 1, MaxBytes) ELSE @]
    BY <1>7 DEF Receive
  <2>2. s.age = r.age
    BY <1>1, <2>1 DEF KeepAliveTypeOK
  <2> QED  BY <1>1, <1>7, <2>2 DEF Receive
<1>8. CASE Tick
  <2>1. PICK r \in samples : s = Aged(r)
    BY <1>8 DEF Tick
  <2>2. /\ r \in Sample
        /\ r.age <= observed
        /\ observed \in 0 .. MaxWindow
    BY <1>1 DEF KeepAliveTypeOK, Sample
  <2>3. s.age = Capped(r.age + 1, MaxWindow)
    BY <2>1, <2>2 DEF Aged, Capped, Sample
  <2>4. observed' = Capped(observed + 1, MaxWindow)
    BY <1>8 DEF Tick
  <2> QED  BY <2>2, <2>3, <2>4 DEF Capped, Sample
<1> QED  BY <1>4, <1>5, <1>6, <1>7, <1>8 DEF Next

\* A window that is ready was observed from its beginning.
LEMMA ReadyObserved ==
    ASSUME KeepAliveInv, NEW t \in Thresholds, WindowReady(t.window)
    PROVE  observed >= t.window
<1>1. t.window \in 1 .. MaxWindow
  BY ThresholdsAssumption
<1>2. PICK s \in Recorded : s.age >= t.window
  BY DEF WindowReady
<1>3. s # Now
  BY <1>1, <1>2 DEF Now
<1>4. s \in samples /\ s \in Sample
  BY <1>3 DEF Recorded, KeepAliveInv, KeepAliveTypeOK, Sample
<1>5. s.age <= observed
  BY <1>4 DEF KeepAliveInv, SampledSince
<1> QED
  BY <1>1, <1>2, <1>4, <1>5
  DEF Sample, KeepAliveInv, KeepAliveTypeOK

LEMMA FailsOpenStep ==
    KeepAliveInv /\ [Next]_vars
      => [Deleted => \A t \in Thresholds : observed >= t.window]_vars
<1> SUFFICES ASSUME KeepAliveInv, [Next]_vars, Deleted, NEW t \in Thresholds
             PROVE  observed >= t.window
  OBVIOUS
<1>1. PollStops \/ PollFails
  BY DEF Deleted, Next, vars, PollKeeps, PollUnavailable, PollFindsNone,
         Query, JobEnds, Restart, Receive, Tick
<1>2. WindowReady(t.window)
  BY <1>1 DEF PollStops, PollFails, Idle
<1> QED  BY <1>2, ReadyObserved

\* A daemon deletes an idle job only when it has itself observed the job for the
\* whole of every window, whatever the thresholds and however often it restarts:
\* no sample is older than the store, and a ready window needs an old sample.
THEOREM FailsOpenSafe == Spec => FailsOpen
<1>1. Init => KeepAliveInv
  BY TypeInit DEF Init, KeepAliveInv, SampledSince
<1>2. KeepAliveInv /\ [Next]_vars => KeepAliveInv'
  BY TypeStep, SinceStep DEF KeepAliveInv
<1>3. Safe => FailsOpen
  BY <1>1, <1>2, FailsOpenStep, PTL DEF Safe, FailsOpen
<1> QED  BY <1>3, PTL DEF Spec

----------------------------------------------------------------------------
(* Numbers and sums                                                        *)

LEMMA HasLeast ==
    ASSUME NEW S \in SUBSET Nat, S # {}
    PROVE  \E n \in S : \A m \in S : n <= m
<1> DEFINE R == OpToRel(<, Nat)
<1>1. PICK n \in S : \A m \in S : <<m, n>> \notin R
  <2> HIDE DEF R
  <2> QED
    BY NatLessThanWellFounded, WFMin DEF R
<1>2. \A m \in S : ~(m < n)
  BY <1>1 DEF OpToRel
<1> QED
  BY <1>2

\* Induction: a set that has 0 and every successor has every number.
LEMMA HasEveryNumber ==
    ASSUME NEW S, 0 \in S, \A n \in Nat : n \in S => n + 1 \in S
    PROVE  \A n \in Nat : n \in S
<1>1. SUFFICES ASSUME Nat \ S # {} PROVE FALSE
  OBVIOUS
<1>2. PICK n \in Nat \ S : \A m \in Nat \ S : n <= m
  BY <1>1, HasLeast
<1>3. n - 1 \in Nat /\ n - 1 \notin Nat \ S
  BY <1>2
<1> QED
  BY <1>2, <1>3

\* The greatest of numbers that are bounded.
LEMMA MaxBounded ==
    ASSUME NEW S \in SUBSET Nat, NEW n \in S, NEW bound \in Nat, \A m \in S : m <= bound
    PROVE  Max(S) \in S /\ n <= Max(S)
<1> DEFINE T == {b \in Nat : \A m \in S : m <= b}
<1>1. PICK b \in T : \A c \in T : b <= c
  BY HasLeast
<1>2. b \in S
  <2>1. SUFFICES ASSUME b \notin S PROVE FALSE
    OBVIOUS
  <2>2. \A m \in S : m \in Nat /\ m <= b /\ m # b
    BY <1>1, <2>1
  <2>3. \A m \in S : m <= b - 1
    BY <1>1, <2>2
  <2>4. b - 1 \in Nat
    BY <1>1, <2>2
  <2> QED
    BY <1>1, <2>3, <2>4
<1>3. \A m \in S : b >= m
  BY <1>1
<1>4. Max(S) \in S /\ \A m \in S : Max(S) >= m
  BY <1>2, <1>3 DEF Max
<1> QED
  BY <1>4

Minutes == 0 .. MaxWindow - 1

\* SumOf is what its recursion says.
LEMMA SumIs ==
    ASSUME NEW bytes \in [Minutes -> Nat]
    PROVE  /\ SumOf(bytes) \in [0 .. MaxWindow -> Nat]
           /\ SumOf(bytes)[0] = 0
           /\ \A n \in Minutes : SumOf(bytes)[n + 1] = SumOf(bytes)[n] + bytes[n]
<1> USE ThresholdsAssumption DEF Minutes
<1> DEFINE Sums(k) == {g \in [0 .. k -> Nat] :
                         g[0] = 0 /\ \A n \in 0 .. k - 1 : g[n + 1] = g[n] + bytes[n]}
           S == {k \in Nat : k <= MaxWindow => Sums(k) # {}}
<1>1. 0 \in S
  <2>1. [i \in 0 .. 0 |-> 0] \in Sums(0)
    OBVIOUS
  <2> QED
    BY <2>1
<1>2. ASSUME NEW k \in Nat, k \in S PROVE k + 1 \in S
  <2>1. ASSUME k + 1 <= MaxWindow PROVE Sums(k + 1) # {}
    <3>1. PICK g \in Sums(k) : TRUE
      <4> HIDE DEF Sums
      <4>1. k <= MaxWindow
        BY <2>1
      <4> QED
        BY <1>2, <4>1
    <3> DEFINE h == [i \in 0 .. k + 1 |-> IF i = k + 1 THEN g[k] + bytes[k] ELSE g[i]]
    <3>2. h \in [0 .. k + 1 -> Nat]
      BY <2>1, <3>1
    <3>3. h[0] = 0
      BY <3>1
    <3>4. ASSUME NEW n \in 0 .. k PROVE h[n + 1] = h[n] + bytes[n]
      BY <3>1, <3>4
    <3>5. 0 .. (k + 1) - 1 = 0 .. k
      OBVIOUS
    <3>6. h \in Sums(k + 1)
      <4> HIDE DEF h
      <4> QED
        BY <3>2, <3>3, <3>4, <3>5
    <3> QED
      BY <3>6
  <2> HIDE DEF Sums
  <2>2. k + 1 \in Nat
    OBVIOUS
  <2> QED
    BY <2>1, <2>2
<1>3. MaxWindow \in S
  <2> HIDE DEF S
  <2> QED
    BY <1>1, <1>2, HasEveryNumber
<1>4. PICK g \in Sums(MaxWindow) : TRUE
  <2> HIDE DEF Sums
  <2> QED
    BY <1>3
<1> DEFINE Next0(sum) == [n \in 0 .. MaxWindow |-> IF n = 0 THEN 0 ELSE sum[n - 1] + bytes[n - 1]]
<1>5. g = Next0(g)
  <2>1. ASSUME NEW n \in 0 .. MaxWindow PROVE g[n] = Next0(g)[n]
    <3>1. CASE n = 0
      BY <1>4, <3>1
    <3>2. CASE n # 0
      <4>1. n - 1 \in 0 .. MaxWindow - 1 /\ n = (n - 1) + 1
        BY <3>2
      <4>2. g[n] = g[n - 1] + bytes[n - 1]
        BY <1>4, <4>1
      <4> QED
        BY <3>2, <4>2
    <3> QED
      BY <3>1, <3>2
  <2> QED
    BY <1>4, <2>1
<1>6. SumOf(bytes) = CHOOSE sum : sum = Next0(sum)
  BY DEF SumOf
<1>7. SumOf(bytes) = Next0(SumOf(bytes))
  <2> HIDE DEF Next0
  <2> QED
    BY <1>5, <1>6
<1>8. ASSUME NEW n \in Minutes PROVE SumOf(bytes)[n + 1] = SumOf(bytes)[n] + bytes[n]
  <2>1. n + 1 \in 0 .. MaxWindow /\ n + 1 # 0 /\ (n + 1) - 1 = n
    BY <1>8
  <2>2. SumOf(bytes)[n + 1] = Next0(SumOf(bytes))[n + 1]
    BY <1>7
  <2> QED
    BY <2>1, <2>2
<1>9. SumOf(bytes)[0] = 0
  <2>1. SumOf(bytes)[0] = Next0(SumOf(bytes))[0]
    BY <1>7
  <2> QED
    BY <2>1
<1>10. DOMAIN SumOf(bytes) = 0 .. MaxWindow /\ SumOf(bytes) = [n \in 0 .. MaxWindow |-> SumOf(bytes)[n]]
  <2>1. Next0(SumOf(bytes)) = [n \in DOMAIN Next0(SumOf(bytes)) |-> Next0(SumOf(bytes))[n]]
    OBVIOUS
  <2>2. DOMAIN Next0(SumOf(bytes)) = 0 .. MaxWindow
    OBVIOUS
  <2> HIDE DEF Next0
  <2> QED
    BY <1>7, <2>1, <2>2
<1>11. \A n \in 0 .. MaxWindow : SumOf(bytes)[n] \in Nat
  <2> HIDE DEF Sums
  <2> DEFINE P == {k \in Nat : k <= MaxWindow => SumOf(bytes)[k] \in Nat}
  <2>1. 0 \in P
    BY <1>9
  <2>2. ASSUME NEW k \in Nat, k \in P PROVE k + 1 \in P
    <3>1. SUFFICES ASSUME k + 1 <= MaxWindow PROVE SumOf(bytes)[k + 1] \in Nat
      OBVIOUS
    <3>2. k \in Minutes /\ bytes[k] \in Nat /\ SumOf(bytes)[k] \in Nat
      BY <2>2, <3>1
    <3>3. SumOf(bytes)[k + 1] = SumOf(bytes)[k] + bytes[k]
      BY <1>8, <3>2
    <3> QED
      BY <3>2, <3>3
  <2>3. \A k \in Nat : k \in P
    <3> HIDE DEF P
    <3> QED
      BY <2>1, <2>2, HasEveryNumber
  <2> QED
    BY <2>3
<1> QED
  BY <1>8, <1>9, <1>10, <1>11

LEMMA SumIn ==
    ASSUME NEW bytes \in [Minutes -> Nat], NEW n \in 0 .. MaxWindow
    PROVE  SumOf(bytes)[n] \in Nat
<1>1. SumOf(bytes) \in [0 .. MaxWindow -> Nat]
  BY SumIs
<1> QED
  BY <1>1

LEMMA SumFirst ==
    ASSUME NEW bytes \in [Minutes -> Nat]
    PROVE  0 \in Minutes /\ SumOf(bytes)[0] = 0 /\ SumOf(bytes)[0 + 1] = bytes[0]
<1>1. 0 \in Minutes
  BY ThresholdsAssumption DEF Minutes
<1>2. SumOf(bytes)[0] = 0 /\ SumOf(bytes)[0 + 1] = SumOf(bytes)[0] + bytes[0]
  BY <1>1, SumIs
<1> QED
  BY <1>1, <1>2

\* More minutes have no fewer bytes.
LEMMA SumGrows ==
    ASSUME NEW bytes \in [Minutes -> Nat], NEW m \in 0 .. MaxWindow, NEW n \in m .. MaxWindow
    PROVE  SumOf(bytes)[m] <= SumOf(bytes)[n]
<1> USE ThresholdsAssumption
<1> DEFINE S == {k \in Nat : m + k <= MaxWindow => SumOf(bytes)[m] <= SumOf(bytes)[m + k]}
<1>1. 0 \in S
  <2>1. SumOf(bytes)[m] \in Nat /\ m + 0 = m
    BY SumIn
  <2> QED
    BY <2>1
<1>2. ASSUME NEW k \in Nat, k \in S PROVE k + 1 \in S
  <2>1. SUFFICES ASSUME m + (k + 1) <= MaxWindow
                 PROVE  SumOf(bytes)[m] <= SumOf(bytes)[m + (k + 1)]
    OBVIOUS
  <2>2. /\ m + k \in Minutes /\ m + (k + 1) = (m + k) + 1
        /\ SumOf(bytes)[m] <= SumOf(bytes)[m + k]
    BY <1>2, <2>1 DEF Minutes
  <2>3. SumOf(bytes)[(m + k) + 1] = SumOf(bytes)[m + k] + bytes[m + k]
    BY <2>2, SumIs
  <2>4. SumOf(bytes)[m] \in Nat /\ SumOf(bytes)[m + k] \in Nat /\ bytes[m + k] \in Nat
    BY <2>2, SumIn DEF Minutes
  <2> QED
    BY <2>2, <2>3, <2>4
<1>3. n - m \in S
  <2> HIDE DEF S
  <2>1. n - m \in Nat
    OBVIOUS
  <2> QED
    BY <1>1, <1>2, <2>1, HasEveryNumber
<1>4. m + (n - m) = n
  OBVIOUS
<1> QED
  BY <1>3, <1>4

\* A minute later the bytes are those of one minute more, and none were
\* received yet in the new one.
LEMMA SumShifts ==
    ASSUME NEW bytes \in [Minutes -> Nat], NEW later \in [Minutes -> Nat], later[0] = 0,
           \A m \in Minutes : m # 0 => later[m] = bytes[m - 1],
           NEW n \in Minutes
    PROVE  SumOf(later)[n + 1] = SumOf(bytes)[n]
<1> USE ThresholdsAssumption DEF Minutes
<1> DEFINE S == {k \in Nat : k <= MaxWindow - 1 => SumOf(later)[k + 1] = SumOf(bytes)[k]}
<1>1. 0 \in S
  <2>1. SumOf(later)[0 + 1] = SumOf(bytes)[0]
    BY SumFirst
  <2> QED
    BY <2>1
<1>2. ASSUME NEW k \in Nat, k \in S PROVE k + 1 \in S
  <2>1. SUFFICES ASSUME k + 1 <= MaxWindow - 1
                 PROVE  SumOf(later)[(k + 1) + 1] = SumOf(bytes)[k + 1]
    OBVIOUS
  <2>2. /\ k \in Minutes /\ k + 1 \in Minutes /\ k + 1 # 0 /\ (k + 1) - 1 = k
        /\ SumOf(later)[k + 1] = SumOf(bytes)[k]
    BY <1>2, <2>1
  <2>3. later[k + 1] = bytes[k]
    BY <2>2
  <2>4. SumOf(later)[(k + 1) + 1] = SumOf(later)[k + 1] + later[k + 1]
    BY <2>2, SumIs
  <2>5. SumOf(bytes)[k + 1] = SumOf(bytes)[k] + bytes[k]
    BY <2>2, SumIs
  <2> QED
    BY <2>2, <2>3, <2>4, <2>5
<1>3. n \in S
  <2> HIDE DEF S
  <2>1. \A k \in Nat : k \in S
    BY <1>1, <1>2, HasEveryNumber
  <2> QED
    BY <2>1
<1> QED
  BY <1>3

\* A byte more now is a byte more in every window, or none when it is capped.
LEMMA SumReceives ==
    ASSUME NEW bytes \in [Minutes -> Nat], NEW more \in [Minutes -> Nat],
           more[0] <= bytes[0] + 1, \A m \in Minutes : m # 0 => more[m] = bytes[m],
           NEW n \in Minutes
    PROVE  SumOf(more)[n + 1] <= SumOf(bytes)[n + 1] + 1
<1> USE ThresholdsAssumption DEF Minutes
<1> DEFINE S == {k \in Nat : k <= MaxWindow - 1 => SumOf(more)[k + 1] <= SumOf(bytes)[k + 1] + 1}
<1>1. 0 \in S
  <2>1. SumOf(more)[0 + 1] = more[0] /\ SumOf(bytes)[0 + 1] = bytes[0]
    BY SumFirst
  <2> QED
    BY <2>1
<1>2. ASSUME NEW k \in Nat, k \in S PROVE k + 1 \in S
  <2>1. SUFFICES ASSUME k + 1 <= MaxWindow - 1
                 PROVE  SumOf(more)[(k + 1) + 1] <= SumOf(bytes)[(k + 1) + 1] + 1
    OBVIOUS
  <2>2. /\ k \in Minutes /\ k + 1 \in Minutes /\ k + 1 \in 0 .. MaxWindow /\ k + 1 # 0
        /\ SumOf(more)[k + 1] <= SumOf(bytes)[k + 1] + 1
    BY <1>2, <2>1
  <2>3. more[k + 1] = bytes[k + 1] /\ bytes[k + 1] \in Nat
    BY <2>2
  <2>4. /\ SumOf(more)[(k + 1) + 1] = SumOf(more)[k + 1] + more[k + 1]
        /\ SumOf(bytes)[(k + 1) + 1] = SumOf(bytes)[k + 1] + bytes[k + 1]
    BY <2>2, SumIs
  <2>5. SumOf(more)[k + 1] \in Nat /\ SumOf(bytes)[k + 1] \in Nat
    BY <2>2, SumIn
  <2>6. \A x, y, b \in Nat : x <= y + 1 => x + b <= (y + b) + 1
    OBVIOUS
  <2> QED
    BY <2>2, <2>3, <2>4, <2>5, <2>6
<1>3. n \in S
  <2> HIDE DEF S
  <2>1. \A k \in Nat : k \in S
    BY <1>1, <1>2, HasEveryNumber
  <2> QED
    BY <2>1
<1> QED
  BY <1>3

----------------------------------------------------------------------------
(* What the polls of a window have seen                                    *)

\* The longest time between two polls of the waiter until now, in minutes.
Gap == Unseen + 1

\* Minutes to the next poll of a waiter that sleeps.
NextPoll == IF sleep = 0 THEN 1 ELSE sleep

\* The sample was taken before the first byte of its minute.
Covers(s) == s.rx = MaxBytes \/ s.rx >= SumOf(received)[s.age + 1]
HasSeen(w) == \E s \in samples : s.age \in w - Gap .. w - 1 /\ Covers(s)

\* While the statistics could be read, one of the first minutes of every window
\* that was observed began with a poll; or it is the one that begins now, or
\* that the waiter will wake up in.
PolledInv ==
    \A w \in 1 .. MaxWindow : w <= observed /\ w <= blind =>
        \/ HasSeen(w)
        \/ due /\ w <= Gap /\ received[0] = 0
        \/ ~due /\ w + NextPoll <= Gap

SleepInv == ~due => /\ sleep <= PollInterval(waited)
                    /\ sleep = 0 => PollInterval(waited) = 0

SeenInv == KeepAliveInv /\ PolledInv /\ SleepInv

\* What the lemmas below need of the types.
LEMMA SeenTypes ==
    ASSUME KeepAliveTypeOK
    PROVE  /\ PollInterval(waited) \in 0 .. 5 /\ Unseen \in 0 .. 4 /\ Gap \in 1 .. 5
           /\ received \in [Minutes -> Nat] /\ 0 \in Minutes
           /\ NextPoll \in 1 .. 5
           /\ \A s \in samples : s.age \in 0 .. MaxWindow /\ s.rx \in 0 .. MaxBytes
<1>1. PollInterval(waited) \in 0 .. 5
  BY PollIntervalIn DEF KeepAliveTypeOK, MaxWaited
<1>2. Unseen \in 0 .. 4 /\ Gap \in 1 .. 5
  BY <1>1 DEF Unseen, Gap
<1>3. received \in [Minutes -> Nat] /\ 0 \in Minutes
  BY ThresholdsAssumption DEF KeepAliveTypeOK, Minutes
<1>4. NextPoll \in 1 .. 5
  BY DEF KeepAliveTypeOK, NextPoll
<1>5. \A s \in samples : s.age \in 0 .. MaxWindow /\ s.rx \in 0 .. MaxBytes
  BY DEF KeepAliveTypeOK
<1> QED
  BY <1>1, <1>2, <1>3, <1>4, <1>5

\* Samples that are added take nothing away.
LEMMA SeenStays ==
    ASSUME samples \subseteq samples', UNCHANGED <<waited, received>>, NEW w, HasSeen(w)
    PROVE  HasSeen(w)'
BY DEF HasSeen, Gap, Unseen, Covers

\* A poll before the first byte of a minute covers it.
LEMMA SeenNow ==
    ASSUME SeenInv, received[0] = 0, NEW w \in 1 .. MaxWindow, w <= Gap,
           Now \in samples', UNCHANGED <<waited, received>>
    PROVE  HasSeen(w)'
<1>1. Now.age = 0 /\ Now.rx = 0
  BY DEF Now
<1>2. SumOf(received)[0 + 1] = 0
  BY SeenTypes, SumFirst DEF SeenInv, KeepAliveInv
<1>3. Gap' = Gap /\ Gap \in 1 .. 5
  BY SeenTypes DEF Gap, Unseen, SeenInv, KeepAliveInv
<1>4. 0 \in w - Gap .. w - 1
  BY <1>3, ThresholdsAssumption
<1>5. Covers(Now)'
  BY <1>1, <1>2 DEF Covers
<1> QED
  BY <1>1, <1>3, <1>4, <1>5 DEF HasSeen

\* A poll that keeps the job: the waiter sleeps again.
LEMMA PolledSeen ==
    ASSUME SeenInv, due, samples' = Recorded, Sleep, UNCHANGED blind
    PROVE  PolledInv' /\ SleepInv'
<1>1. UNCHANGED <<waited, received, observed>> /\ ~due' /\ sleep' = PollInterval(waited)
  BY DEF Sleep
<1>2. SleepInv'
  BY <1>1, SeenTypes DEF SleepInv, SeenInv, KeepAliveInv
<1>3. ASSUME NEW w \in 1 .. MaxWindow, w <= observed, w <= blind PROVE HasSeen(w)'
  <2>1. CASE HasSeen(w)
    BY <1>1, <2>1, SeenStays DEF Recorded
  <2>2. CASE w <= Gap /\ received[0] = 0
    BY <1>1, <1>3, <2>2, SeenNow DEF Recorded
  <2> QED
    BY <1>3, <2>1, <2>2 DEF SeenInv, PolledInv
<1>4. PolledInv'
  BY <1>1, <1>3 DEF PolledInv
<1> QED
  BY <1>2, <1>4

\* Whatever leaves the waiter, the time and the bytes alone takes nothing away.
LEMMA StillSeen ==
    ASSUME SeenInv, samples \subseteq samples',
           UNCHANGED <<waited, sleep, due, observed, received, blind>>
    PROVE  PolledInv' /\ SleepInv'
<1>1. ASSUME NEW w \in 1 .. MaxWindow, HasSeen(w) PROVE HasSeen(w)'
  BY <1>1, SeenStays
<1>2. UNCHANGED <<Gap, NextPoll>>
  BY DEF Gap, Unseen, NextPoll
<1>3. PolledInv'
  BY <1>1, <1>2 DEF SeenInv, PolledInv
<1> QED
  BY <1>3 DEF SeenInv, SleepInv

\* A byte counts in every sample before it.
LEMMA ReceiveSeen ==
    ASSUME SeenInv, Receive
    PROVE  PolledInv' /\ SleepInv'
<1> USE ThresholdsAssumption
<1>1. KeepAliveTypeOK /\ ~due /\ UNCHANGED <<waited, sleep, observed, blind>> /\ due' = (sleep = 0)
  BY DEF SeenInv, KeepAliveInv, Receive
<1>2. UNCHANGED <<Gap, NextPoll>>
  BY <1>1 DEF Gap, Unseen, NextPoll
<1>3. SleepInv'
  BY <1>1 DEF SeenInv, SleepInv
<1> DEFINE Counts(s) == [s EXCEPT !.rx = IF s.age < MaxWindow THEN Capped(@ + 1, MaxBytes) ELSE @]
<1>4. samples' = {Counts(s) : s \in samples}
  BY DEF Receive
<1>5. received \in [Minutes -> Nat] /\ 0 \in Minutes
  BY <1>1, SeenTypes
<1>6. /\ received' \in [Minutes -> Nat] /\ received'[0] <= received[0] + 1
      /\ \A m \in Minutes : m # 0 => received'[m] = received[m]
  <2>1. received' = [received EXCEPT ![0] = Capped(received[0] + 1, MaxBytes)]
    BY DEF Receive
  <2>2. received[0] \in 0 .. MaxBytes
    BY <1>1, <1>5 DEF KeepAliveTypeOK, Minutes
  <2>3. Capped(received[0] + 1, MaxBytes) \in Nat /\ Capped(received[0] + 1, MaxBytes) <= received[0] + 1
    BY <2>2 DEF Capped
  <2> QED
    BY <1>5, <2>1, <2>3
<1>7. ASSUME NEW w \in 1 .. MaxWindow, HasSeen(w) PROVE HasSeen(w)'
  <2>1. PICK s \in samples : s.age \in w - Gap .. w - 1 /\ Covers(s)
    BY <1>7 DEF HasSeen
  <2>2. s \in Sample /\ s.age \in 0 .. MaxWindow /\ s.rx \in 0 .. MaxBytes
    BY <1>1 DEF KeepAliveTypeOK, Sample
  <2>3. s.age < MaxWindow /\ s.age \in Minutes
    BY <1>1, <2>1, <2>2, SeenTypes DEF Minutes
  <2>4. PICK r : r = Counts(s)
    OBVIOUS
  <2>5. r.age = s.age /\ r.rx = Capped(s.rx + 1, MaxBytes)
    BY <2>2, <2>3, <2>4 DEF Sample
  <2>6. r \in samples'
    BY <1>4, <2>4
  <2>7. Covers(r)'
    <3>1. CASE s.rx = MaxBytes
      BY <2>2, <2>5, <3>1 DEF Capped, Covers
    <3>2. CASE s.rx >= SumOf(received)[s.age + 1]
      <4>1. /\ SumOf(received')[s.age + 1] <= SumOf(received)[s.age + 1] + 1
        BY <1>5, <1>6, <2>3, SumReceives
      <4>2. s.age + 1 \in 0 .. MaxWindow
        BY <2>3 DEF Minutes
      <4>3. SumOf(received')[s.age + 1] \in Nat /\ SumOf(received)[s.age + 1] \in Nat
        BY <1>5, <1>6, <4>2, SumIn
      <4>4. r.rx = MaxBytes \/ r.rx >= SumOf(received')[s.age + 1]
        BY <2>2, <2>5, <3>2, <4>1, <4>3 DEF Capped
      <4> QED
        BY <2>5, <4>4 DEF Covers
    <3> QED
      BY <2>1, <3>1, <3>2 DEF Covers
  <2> QED
    BY <1>2, <2>1, <2>5, <2>6, <2>7 DEF HasSeen
<1>8. PolledInv'
  <2> SUFFICES ASSUME NEW w \in 1 .. MaxWindow, w <= observed, w <= blind
               PROVE  HasSeen(w)' \/ (~due' /\ w + NextPoll <= Gap)
    BY <1>1, <1>2 DEF PolledInv
  <2>1. HasSeen(w) \/ w + NextPoll <= Gap
    BY <1>1 DEF SeenInv, PolledInv
  <2>2. ASSUME w + NextPoll <= Gap PROVE ~due'
    <3>1. SUFFICES ASSUME sleep = 0 PROVE FALSE
      BY <1>1
    <3>2. Gap = 1
      BY <1>1, <3>1 DEF SeenInv, SleepInv, Gap, Unseen
    <3> QED
      BY <2>2, <3>1, <3>2 DEF NextPoll
  <2> QED
    BY <1>7, <2>1, <2>2
<1> QED
  BY <1>3, <1>8

\* The waiter only slows down with time.
LEMMA IntervalGrows ==
    ASSUME waited \in 0 .. MaxWaited
    PROVE  /\ PollInterval(Capped(waited + 1, MaxWaited)) >= PollInterval(waited)
           /\ PollInterval(Capped(waited + 1, MaxWaited)) \in 0 .. 5
<1>1. PollInterval(waited) = 5 \/ waited < 120
  BY DEF PollInterval
<1>2. CASE waited = 120
  BY <1>2 DEF PollInterval, Capped, MaxWaited
<1>3. CASE waited < 120
  <2>1. Capped(waited + 1, MaxWaited) = waited + 1
    BY <1>3 DEF Capped, MaxWaited
  <2>2. PollInterval(waited + 1) >= PollInterval(waited) /\ PollInterval(waited + 1) \in 0 .. 5
    BY <1>3 DEF PollInterval, MaxWaited
  <2> QED
    BY <2>1, <2>2
<1> QED
  BY <1>2, <1>3 DEF MaxWaited

\* A minute later a window is a minute longer, and what it has seen a minute
\* older; the shortest window begins now.
LEMMA TickSeen ==
    ASSUME SeenInv, Tick
    PROVE  PolledInv' /\ SleepInv'
<1> USE ThresholdsAssumption
<1>1. /\ KeepAliveTypeOK /\ ~due /\ waited' = Capped(waited + 1, MaxWaited)
      /\ sleep' = (IF sleep = 0 THEN 0 ELSE sleep - 1) /\ due' = (sleep <= 1)
      /\ observed' = Capped(observed + 1, MaxWindow) /\ blind' = Capped(blind + 1, MaxWindow)
      /\ samples' = {Aged(s) : s \in samples}
      /\ received' = [m \in Minutes |-> IF m = 0 THEN 0 ELSE received[m - 1]]
  BY DEF SeenInv, KeepAliveInv, Tick, Minutes
<1>2. /\ PollInterval(waited') >= PollInterval(waited)
      /\ PollInterval(waited') \in 0 .. 5 /\ PollInterval(waited) \in 0 .. 5
  BY <1>1, IntervalGrows, SeenTypes DEF KeepAliveTypeOK
<1>3. Gap' >= Gap /\ Gap' \in 1 .. 5 /\ Gap \in 1 .. 5 /\ PollInterval(waited') <= Gap'
  BY <1>2 DEF Gap, Unseen
<1>4. sleep \in 0 .. 5 /\ sleep <= PollInterval(waited)
  BY <1>1 DEF SeenInv, SleepInv, KeepAliveTypeOK
<1>10. /\ sleep <= 1 => due'
       /\ sleep > 1 => ~due' /\ sleep' = sleep - 1 /\ NextPoll = sleep /\ NextPoll' = sleep - 1
  <2>1. sleep <= 1 => due'
    BY <1>1
  <2>2. ASSUME sleep > 1 PROVE ~due' /\ sleep' = sleep - 1
    <3>1. ~(sleep <= 1) /\ sleep # 0
      BY <1>4, <2>2
    <3>2. ~due'
      BY <1>1, <3>1, Zenon
    <3> QED
      BY <1>1, <3>1, <3>2
  <2>3. ASSUME sleep > 1 PROVE NextPoll = sleep /\ NextPoll' = sleep - 1
    BY <1>4, <2>2, <2>3 DEF NextPoll
  <2> QED
    BY <2>1, <2>2, <2>3
<1>5. SleepInv'
  BY <1>2, <1>4, <1>10 DEF SleepInv
<1>6. /\ received \in [Minutes -> Nat] /\ received' \in [Minutes -> Nat] /\ received'[0] = 0
      /\ \A m \in Minutes : m # 0 => received'[m] = received[m - 1]
  <2>1. received \in [Minutes -> Nat] /\ 0 \in Minutes
    BY <1>1, SeenTypes
  <2>2. ASSUME NEW m \in Minutes PROVE (IF m = 0 THEN 0 ELSE received[m - 1]) \in Nat
    <3>1. m # 0 => m - 1 \in Minutes
      BY DEF Minutes
    <3> QED
      BY <2>1, <3>1
  <2> QED
    BY <1>1, <2>1, <2>2
<1>7. ASSUME NEW w \in 1 .. MaxWindow - 1, HasSeen(w) PROVE HasSeen(w + 1)'
  <2>1. PICK s \in samples : s.age \in w - Gap .. w - 1 /\ Covers(s)
    BY <1>7 DEF HasSeen
  <2>2. s \in Sample /\ s.age \in 0 .. MaxWindow /\ s.rx \in 0 .. MaxBytes
    BY <1>1 DEF KeepAliveTypeOK, Sample
  <2>3. s.age + 1 < MaxWindow /\ s.age + 1 \in Minutes
    BY <1>3, <2>1, <2>2 DEF Minutes
  <2>4. PICK r : r = Aged(s)
    OBVIOUS
  <2>5. r.age = s.age + 1 /\ r.rx = s.rx
    BY <2>2, <2>3, <2>4 DEF Aged, Sample
  <2>6. r \in samples'
    BY <1>1, <2>4
  <2>7. SumOf(received')[(s.age + 1) + 1] = SumOf(received)[s.age + 1]
    BY <1>6, <2>3, SumShifts
  <2>8. Covers(r)'
    BY <2>1, <2>5, <2>7 DEF Covers
  <2>9. r.age \in (w + 1) - Gap' .. (w + 1) - 1
    BY <1>3, <2>1, <2>2, <2>5
  <2> QED
    BY <2>6, <2>8, <2>9 DEF HasSeen
<1>8. ASSUME NEW w \in 0 .. MaxWindow - 1, w = 0 \/ w + NextPoll <= Gap
      PROVE  \/ due' /\ w + 1 <= Gap'
             \/ ~due' /\ (w + 1) + NextPoll' <= Gap'
  <2>1. CASE sleep <= 1
    <3>1. NextPoll = 1
      BY <1>4, <2>1 DEF NextPoll
    <3>2. w + 1 <= Gap'
      BY <1>3, <1>8, <3>1
    <3> QED
      BY <1>10, <2>1, <3>2
  <2>2. CASE sleep > 1
    <3>1. NextPoll = sleep /\ NextPoll' = sleep - 1 /\ ~due'
      BY <1>10, <2>2
    <3>2. sleep <= Gap'
      BY <1>2, <1>3, <1>4
    <3> QED
      BY <1>3, <1>4, <1>8, <3>1, <3>2
  <2> QED
    BY <1>4, <2>1, <2>2
<1>9. PolledInv'
  <2> SUFFICES ASSUME NEW w \in 1 .. MaxWindow, w <= observed', w <= blind'
               PROVE  \/ HasSeen(w)'
                      \/ due' /\ w <= Gap' /\ received'[0] = 0
                      \/ ~due' /\ w + NextPoll' <= Gap'
    BY DEF PolledInv
  <2> DEFINE v == w - 1
  <2>1. v \in 0 .. MaxWindow - 1 /\ w = v + 1
    OBVIOUS
  <2>2. v <= observed /\ v <= blind
    BY <1>1 DEF Capped, KeepAliveTypeOK
  <2>3. v = 0 \/ HasSeen(v) \/ v + NextPoll <= Gap
    <3>1. SUFFICES ASSUME v # 0 PROVE HasSeen(v) \/ v + NextPoll <= Gap
      OBVIOUS
    <3>2. v \in 1 .. MaxWindow
      BY <2>1, <3>1
    <3> HIDE DEF v
    <3> QED
      BY <1>1, <2>2, <3>2 DEF SeenInv, PolledInv
  <2>4. CASE HasSeen(v) /\ v # 0
    <3>1. v \in 1 .. MaxWindow - 1
      BY <2>1, <2>4
    <3> HIDE DEF v
    <3> QED
      BY <1>7, <2>1, <2>4, <3>1
  <2>5. CASE v = 0 \/ v + NextPoll <= Gap
    <3> HIDE DEF v
    <3> QED
      BY <1>6, <1>8, <2>1, <2>5
  <2> QED
    BY <2>3, <2>4, <2>5
<1> QED
  BY <1>5, <1>9

LEMMA SeenStep == SeenInv /\ [Next]_vars => PolledInv' /\ SleepInv'
<1> SUFFICES ASSUME SeenInv, [Next]_vars PROVE PolledInv' /\ SleepInv'
  OBVIOUS
<1>1. CASE PollKeeps \/ PollFails
  BY <1>1, PolledSeen DEF PollKeeps, PollFails
<1>2. CASE PollUnavailable
  <2>1. blind' = 0 /\ ~due' /\ sleep' = PollInterval(waited) /\ waited' = waited
    BY <1>2 DEF PollUnavailable, Sleep
  <2>2. PolledInv'
    BY <2>1 DEF PolledInv
  <2>3. SleepInv'
    BY <2>1, SeenTypes DEF SleepInv, SeenInv, KeepAliveInv
  <2> QED
    BY <2>2, <2>3
<1>3. CASE PollStops \/ PollFindsNone \/ Query \/ JobEnds \/ UNCHANGED vars
  BY <1>3, StillSeen DEF PollStops, PollFindsNone, Query, JobEnds, vars, Recorded
<1>4. CASE Restart
  <2>1. observed' = 0 /\ due'
    BY <1>4 DEF Restart
  <2> QED
    BY <2>1 DEF PolledInv, SleepInv
<1>5. CASE Receive
  BY <1>5, ReceiveSeen
<1>6. CASE Tick
  BY <1>6, TickSeen
<1> QED
  BY <1>1, <1>2, <1>3, <1>4, <1>5, <1>6 DEF Next

\* The delta of a window counts every sample in it.
LEMMA DeltaCounts ==
    ASSUME KeepAliveTypeOK, NEW w \in 1 .. MaxWindow, NEW s \in Recorded, s.age < w
    PROVE  RxDelta(w) \in Nat /\ s.rx <= RxDelta(w)
<1> DEFINE S == {r.rx : r \in {q \in Recorded : q.age < w}}
<1>1. Recorded \subseteq Sample
  BY RecordedIn DEF KeepAliveTypeOK, Sample
<1>2. S \in SUBSET Nat /\ MaxBytes \in Nat /\ \A n \in S : n <= MaxBytes
  BY <1>1, ThresholdsAssumption DEF Sample
<1>3. s.rx \in S
  OBVIOUS
<1>4. RxDelta(w) = Max(S)
  BY DEF RxDelta
<1> HIDE DEF S
<1> QED
  BY <1>2, <1>3, <1>4, MaxBounded

LEMMA BusyStep ==
    SeenInv /\ [Next]_vars
      => [Deleted => \A t \in Thresholds :
            blind >= t.window => ReceivedIn(t.window - Unseen) < t.bytes]_vars
<1> SUFFICES ASSUME SeenInv, [Next]_vars, Deleted, NEW t \in Thresholds, blind >= t.window
             PROVE  ReceivedIn(t.window - Unseen) < t.bytes
  OBVIOUS
<1> USE ThresholdsAssumption
<1> DEFINE w == t.window
<1>1. (PollStops \/ PollFails) /\ due /\ Idle
  BY DEF Deleted, Next, vars, PollKeeps, PollUnavailable, PollFindsNone,
         Query, JobEnds, Restart, Receive, Tick, PollStops, PollFails
<1>2. KeepAliveTypeOK /\ KeepAliveInv
  BY DEF SeenInv, KeepAliveInv
<1>3. WindowReady(w) /\ RxDelta(w) < t.bytes
  BY <1>1 DEF Idle
<1>4. w \in 1 .. MaxWindow /\ t.bytes \in 0 .. MaxBytes /\ MaxBytes \in Nat
  OBVIOUS
<1>5. w <= observed /\ w <= blind
  BY <1>2, <1>3, <1>4, ReadyObserved DEF KeepAliveTypeOK
<1> HIDE DEF w
<1>6. HasSeen(w) \/ (w <= Gap /\ received[0] = 0)
  BY <1>1, <1>4, <1>5 DEF SeenInv, PolledInv
<1>7. /\ Gap \in 1 .. 5 /\ Unseen = Gap - 1 /\ received \in [Minutes -> Nat]
      /\ SumOf(received)[0 + 1] = received[0]
  BY <1>2, SeenTypes, SumFirst DEF Gap
<1>8. CASE HasSeen(w)
  <2>1. PICK s \in samples : s.age \in w - Gap .. w - 1 /\ Covers(s)
    BY <1>8 DEF HasSeen
  <2>2. s.age \in 0 .. MaxWindow /\ s.rx \in 0 .. MaxBytes
    BY <1>2, <2>1, SeenTypes
  <2>3. RxDelta(w) \in Nat /\ s.rx <= RxDelta(w)
    BY <1>2, <1>4, <1>7, <2>1, <2>2, DeltaCounts DEF Recorded
  <2>4. s.rx < t.bytes /\ s.rx # MaxBytes
    BY <1>3, <1>4, <2>2, <2>3
  <2>5. s.rx >= SumOf(received)[s.age + 1]
    BY <2>1, <2>4 DEF Covers
  <2>6. CASE w - Unseen > 0
    <3>1. w - Unseen \in 0 .. MaxWindow /\ s.age + 1 \in w - Unseen .. MaxWindow
      BY <1>4, <1>7, <2>1, <2>2, <2>6
    <3>2. SumOf(received)[w - Unseen] <= SumOf(received)[s.age + 1]
      BY <1>7, <3>1, SumGrows
    <3>3. SumOf(received)[w - Unseen] \in Nat /\ SumOf(received)[s.age + 1] \in Nat
      BY <1>7, <3>1, SumIn
    <3> QED
      BY <1>4, <2>2, <2>4, <2>5, <2>6, <3>2, <3>3 DEF ReceivedIn, w
  <2>7. CASE ~(w - Unseen > 0)
    BY <1>4, <2>2, <2>4, <2>7 DEF ReceivedIn, w
  <2> QED
    BY <2>6, <2>7
<1>9. CASE w <= Gap /\ received[0] = 0
  <2>1. RxDelta(w) \in Nat
    <3>1. Now \in Recorded /\ Now.age < w
      BY <1>4 DEF Recorded, Now
    <3> QED
      BY <1>2, <1>4, <3>1, DeltaCounts
  <2>2. w - Unseen <= 1
    BY <1>4, <1>7, <1>9
  <2>3. ReceivedIn(w - Unseen) = 0
    BY <1>4, <1>7, <1>9, <2>2 DEF ReceivedIn
  <2> QED
    BY <1>3, <1>4, <2>1, <2>3 DEF w
<1> QED
  BY <1>6, <1>8, <1>9

\* A procedure is deleted only if each port received less than it asks for in
\* its window after the first poll in it, for every set of thresholds and
\* windows, whatever restarts, queries, outages that end before the window and
\* failed deletions came before: the polls slow down with the waiter, but each
\* window still has a sample from one of its first minutes, taken before the
\* first byte of that minute.
THEOREM BusyRecentlyKeptSafe == Spec => BusyRecentlyKept
<1>1. Init => SeenInv
  <2>1. Init => PolledInv /\ SleepInv
    BY DEF Init, PolledInv, SleepInv
  <2> QED
    BY <2>1, TypeInit DEF Init, SeenInv, KeepAliveInv, SampledSince
<1>2. SeenInv /\ [Next]_vars => SeenInv'
  BY TypeStep, SinceStep, SeenStep DEF SeenInv, KeepAliveInv
<1>3. Safe => BusyRecentlyKept
  BY <1>1, <1>2, BusyStep, PTL DEF Safe, BusyRecentlyKept
<1> QED
  BY <1>3, PTL DEF Spec

=============================================================================
