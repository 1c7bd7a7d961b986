--------------------------- MODULE ObserverProofs ---------------------------
(***************************************************************************)
(* Proofs about ObserverCommit, for any number of buffers, any interval,   *)
(* block sizes and word sizes, and either behaviour of RttEvent.           *)
(***************************************************************************)
EXTENDS ObserverCommit, TLAPS

-----------------------------------------------------------------------------
(* The inductive invariant *)

Busy == {"woken", "read", "reset", "resetEvent", "resetFlag"}

\* `commiting' passes the stages from one thread to the other and back: the
\* event is up only in between, and never while the audio thread fills them.
Handover ==
    /\ ev => commiting
    /\ cpc # "thrown"
    /\ cpc \in Busy => commiting /\ apc \in {"block", "commit"}
    /\ cpc = "resetFlag" => ~ev
    /\ apc = "mark" => ~commiting
    /\ apc \in Filling => commiting /\ ~ev
    /\ apc \notin Filling => at = 1
    /\ apc = "signal" => at = NumHists + 1

\* While commit() fills the stages, those before `at' are up to date; once it
\* is done, all agree.
StagesAgree ==
    /\ apc = "stage" => \A h \in Hists : h < at => staged[h] = Moment
    /\ apc = "signal" => \A h \in Hists : staged[h] = Moment
    /\ commiting /\ apc \notin Filling => \A g, h \in Hists : staged[g] = staged[h]

\* What the consumer has read is what the stages still hold.
ReadMatches ==
    /\ cpc \in Busy => \A h \in Hists : h < reading => got[h] = staged[h]
    /\ cpc \in {"reset", "resetEvent", "resetFlag"} => reading = NumHists + 1
    /\ cpc \in {"idle", "wait", "woken"} => reading = 1

\* Why the stages are never written and read at the same time.
IInv == /\ TypeOK
        /\ InForce => Handover /\ StagesAgree /\ ReadMatches

\* As long as the frame count fits a uint32_t, the audio thread measures no more
\* than the time since the last commit, as far as an interval; from the moment
\* a commit is due until it is made, lastUpdate is the frame count.
ClockIsLate ==
    ~outgrown =>
        /\ total < U32
        /\ apc = "block" => \/ sinceCommit > Interval
                            \/ (total - lastUpdate) % ULong <= sinceCommit
        /\ apc # "block" => sinceCommit > Interval /\ lastUpdate = total

-----------------------------------------------------------------------------
(* Guarantees beyond those that the runs check *)

\* Nothing that is committed is forgotten, even when cancel() comes between two
\* steps of the others: the stages are being filled, the event is up, or the
\* consumer is on its way to reset().
CommitNotStranded == commiting => apc \in Filling \/ ev \/ cpc \in Busy

\* The steps that are left until a commit is released, the audio thread's and
\* the consumer's.
AudioLeft ==
    IF apc = "stage" THEN NumHists + 3 - at
    ELSE IF apc = "signal" THEN 1
    ELSE 0

ConsumerLeft ==
    IF cpc = "idle" THEN NumHists + 7
    ELSE IF cpc = "wait" THEN NumHists + 6
    ELSE IF cpc = "woken" THEN NumHists + 5
    ELSE IF cpc = "read" THEN NumHists + 5 - reading
    ELSE IF cpc = "reset" THEN 3
    ELSE IF cpc = "resetEvent" THEN 2
    ELSE IF cpc = "resetFlag" THEN 1
    ELSE 0

Left == AudioLeft + ConsumerLeft

\* On the way from commit() to reset() each step of the consumer brings the
\* release nearer or is the release, and so does each step of the audio thread
\* until it has signalled; after that its blocks do not disturb the consumer.
ReleaseComesNearer ==
    [][ InForce /\ InForce' /\ commiting =>
            /\ Consumer => ~commiting' \/ Left' < Left
            /\ Audio => IF apc \in Filling THEN Left' < Left ELSE Left' = Left ]_vars

\* The frames since lastUpdate, as the audio thread computes them.
Elapsed == (total - Started) % ULong

\* A block that ends without a commit brings the next one nearer, across the
\* wrap-around of both counters, unless lastUpdate has come out as the value
\* that stands for `never' (it is then set anew after the next block).
DueComesNearer ==
    [][ NotDue /\ lastUpdate' # Unset /\ (\A n \in BlockSizes : Interval + n < ULong)
            => Elapsed' > Elapsed ]_vars

-----------------------------------------------------------------------------

\* Frame count 0 is a stamp, and there is a first buffer.
LEMMA NothingType == Nothing \in [Hists -> Stamps] /\ 1 \in 1..NumHists + 1
<1>1. 0 \in Stamps
  BY ConstantsAssumption DEF Stamps
<1>2. Nothing \in [Hists -> Stamps]
  BY <1>1 DEF Nothing
<1> QED BY <1>2, ConstantsAssumption

\* The moment of a block is a stamp.
LEMMA MomentType == TypeOK => Moment \in Stamps
<1> SUFFICES ASSUME TypeOK PROVE Moment \in Stamps
  OBVIOUS
<1>1. total \in Nat /\ StampSpan \in Nat \ {0}
  BY ConstantsAssumption DEF TypeOK, Counts
<1>2. total % StampSpan \in 0..StampSpan - 1
  BY <1>1
<1> QED BY <1>2 DEF Moment, Stamps

\* The initial state is well typed.
LEMMA TypeInit == Init => TypeOK
<1> SUFFICES ASSUME Init PROVE TypeOK
  OBVIOUS
<1>1. /\ total \in Counts /\ lastUpdate \in 0..U32 - 1
      /\ sinceCommit \in 0..CommitCap /\ sinceFail \in 0..FailCap
  BY ConstantsAssumption DEF Init, Counts, Unset
<1>2. /\ staged \in [Hists -> Stamps] /\ at \in 1..NumHists + 1
      /\ got \in [Hists -> Stamps] /\ reading \in 1..NumHists + 1
  BY NothingType DEF Init
<1> QED BY <1>1, <1>2 DEF Init, TypeOK

\* A block moves the frame count and the ages within their types.
LEMMA TickType ==
    ASSUME TypeOK, NEW commitAge \in Nat, NEW failAge \in Nat, Tick(commitAge, failAge)
    PROVE  /\ total' \in Counts
           /\ sinceCommit' \in 0..CommitCap /\ sinceFail' \in 0..FailCap
           /\ outgrown' \in BOOLEAN
<1>1. PICK n \in BlockSizes :
          /\ total' = (total + n) % ULong
          /\ sinceCommit' = Older(commitAge + n, CommitCap)
          /\ sinceFail' = Older(failAge + n, FailCap)
          /\ outgrown' = (outgrown \/ (total + n >= U32 /\ ULong > U32))
  BY DEF Tick
<1>2. n \in Nat /\ total \in Nat /\ ULong \in Nat \ {0}
  BY ConstantsAssumption DEF TypeOK, Counts
<1>3. (total + n) % ULong \in 0..ULong - 1
  BY <1>2
<1> QED BY <1>1, <1>2, <1>3, ConstantsAssumption DEF Older, Counts, TypeOK

\* The values assigned to lastUpdate fit a uint32_t.
LEMMA ClockType ==
    ASSUME TypeOK
    PROVE  /\ Started \in 0..U32 - 1
           /\ total % U32 \in 0..U32 - 1
           /\ (lastUpdate + Interval) % U32 \in 0..U32 - 1
<1>1. total \in Nat /\ lastUpdate + Interval \in Nat /\ U32 \in Nat \ {0}
  BY ConstantsAssumption DEF TypeOK, Counts
<1>2. total % U32 \in 0..U32 - 1 /\ (lastUpdate + Interval) % U32 \in 0..U32 - 1
  BY <1>1
<1> QED BY <1>2 DEF Started, TypeOK

\* Every step keeps the types.
LEMMA TypeStep == TypeOK /\ [Next]_vars => TypeOK'
<1> SUFFICES ASSUME TypeOK, [Next]_vars
             PROVE  TypeOK'
  OBVIOUS
<1> USE ConstantsAssumption
<1>a. sinceCommit \in Nat /\ sinceFail \in Nat /\ 0 \in Nat
  BY DEF TypeOK
<1>1. CASE NotDue
  BY <1>1, <1>a, TickType, ClockType DEF NotDue, TypeOK, consumer
<1>2. CASE IsDue
  BY <1>2, ClockType DEF IsDue, TypeOK, consumer, ages
<1>3. CASE CommitRefused
  BY <1>3, <1>a, TickType, ClockType DEF CommitRefused, TypeOK, consumer
<1>4. CASE CommitTest \/ CommitMark \/ CommitStaged
  BY <1>4 DEF CommitTest, CommitMark, CommitStaged, TypeOK, consumer, clock, ages
<1>5. CASE CommitStage
  <2>1. staged' \in [Hists -> Stamps]
    BY <1>5, MomentType DEF CommitStage, TypeOK
  <2>2. at' \in 1..NumHists + 1
    BY <1>5 DEF CommitStage, TypeOK
  <2> QED BY <1>5, <2>1, <2>2 DEF CommitStage, TypeOK, consumer, clock, ages
<1>6. CASE CommitSignal
  BY <1>6, <1>a, TickType DEF CommitSignal, TypeOK, consumer
<1>7. CASE CallWait \/ WaitReturns \/ ReadAll \/ ResetTest \/ ResetEvent
  BY <1>7 DEF CallWait, WaitReturns, ReadAll, ResetTest, ResetEvent, TypeOK, clock, ages
<1>8. CASE Wake
  <2>1. ev' \in BOOLEAN
    BY <1>8 DEF Wake
  <2> QED BY <1>8, <2>1 DEF Wake, TypeOK, clock, ages
<1>9. CASE Read
  <2>1. reading \in Hists
    BY <1>9 DEF Read, TypeOK, Hists
  <2>2. reading' \in 1..NumHists + 1
    BY <1>9 DEF Read, TypeOK
  <2>3. got' \in [Hists -> Stamps]
    BY <1>9, <2>1 DEF Read, TypeOK
  <2> QED BY <1>9, <2>2, <2>3 DEF Read, TypeOK, clock, ages
<1>10. CASE ResetFlag
  <2>1. Nothing \in [Hists -> Stamps] /\ 1 \in 1..NumHists + 1
    BY NothingType
  <2> QED BY <1>10, <2>1 DEF ResetFlag, TypeOK, clock, ages
<1>11. CASE CancelFlag \/ CancelSignal
  BY <1>11 DEF CancelFlag, CancelSignal, TypeOK, clock, ages, consumer
<1>12. CASE UNCHANGED vars
  BY <1>12 DEF vars, TypeOK, clock, ages, consumer
<1> QED BY <1>1, <1>2, <1>3, <1>4, <1>5, <1>6, <1>7, <1>8, <1>9, <1>10, <1>11, <1>12
        DEF Next, Audio, Consumer

\* The observer's fields and the clock keep their types, whatever the threads do.
THEOREM TypeCorrect == Spec => []TypeOK
BY TypeInit, TypeStep, PTL DEF Spec

-----------------------------------------------------------------------------
(* The inductive invariant *)

\* Nothing is committed, waited for or read at the start.
LEMMA InvInit == Init => IInv
BY TypeInit DEF Init, IInv, Handover, StagesAgree, ReadMatches, Busy, Filling

\* The invariant is kept by every step, until cancel() is called.
LEMMA InvStep == IInv /\ [Next]_vars => IInv'
<1> SUFFICES ASSUME IInv, [Next]_vars
             PROVE  IInv'
  OBVIOUS
<1>t. TypeOK /\ TypeOK'
  BY TypeStep DEF IInv
<1> DEFINE Good == Handover /\ StagesAgree /\ ReadMatches
<1> SUFFICES ASSUME InForce'
             PROVE  Good'
  BY <1>t DEF IInv
<1>f. InForce
  BY DEF InForce, Next, Audio, NotDue, IsDue, CommitRefused, CommitTest, CommitMark,
         CommitStage, CommitStaged, CommitSignal, Consumer, CallWait, Wake, WaitReturns,
         Read, ReadAll, ResetTest, ResetEvent, ResetFlag, CancelFlag, CancelSignal, vars
<1>g. Handover /\ StagesAgree /\ ReadMatches
  BY <1>f DEF IInv
<1> USE ConstantsAssumption DEF Busy, Filling
<1>1. CASE NotDue
  <2>1. apc = "block" /\ UNCHANGED <<commiting, ev, staged, at, apc, got, reading, cpc>>
    BY <1>1 DEF NotDue, consumer
  <2> QED BY <1>g, <2>1 DEF Handover, StagesAgree, ReadMatches
<1>2. CASE IsDue
  <2>1. /\ apc = "block" /\ apc' = "commit"
        /\ UNCHANGED <<commiting, ev, staged, at, got, reading, cpc>>
    BY <1>2 DEF IsDue, consumer
  <2> QED BY <1>g, <2>1 DEF Handover, StagesAgree, ReadMatches
<1>3. CASE CommitRefused
  <2>1. /\ apc = "commit" /\ apc' = "block"
        /\ UNCHANGED <<commiting, ev, staged, at, got, reading, cpc>>
    BY <1>3 DEF CommitRefused, consumer
  <2> QED BY <1>g, <2>1 DEF Handover, StagesAgree, ReadMatches
<1>4. CASE CommitTest
  <2>1. /\ apc = "commit" /\ ~commiting /\ apc' = "mark"
        /\ UNCHANGED <<commiting, ev, staged, at, got, reading, cpc>>
    BY <1>4 DEF CommitTest, consumer
  <2> QED BY <1>g, <2>1 DEF Handover, StagesAgree, ReadMatches
<1>5. CASE CommitMark
  <2>1. /\ apc = "mark" /\ commiting' /\ apc' = "stage"
        /\ UNCHANGED <<ev, staged, at, got, reading, cpc>>
    BY <1>5 DEF CommitMark, consumer
  <2>2. at = 1 /\ ~ev
    BY <1>g, <2>1 DEF Handover
  <2> QED BY <1>g, <2>1, <2>2 DEF Handover, StagesAgree, ReadMatches, Hists
<1>6. CASE CommitStage
  <2>1. /\ apc = "stage" /\ at <= NumHists /\ at' = at + 1
        /\ staged' = [staged EXCEPT ![at] = Moment]
        /\ UNCHANGED <<total, Moment, commiting, ev, apc, got, reading, cpc>>
    BY <1>6 DEF CommitStage, consumer, clock, ages, Moment
  <2>2. \A h \in Hists : h < at' => staged'[h] = Moment
    BY <1>t, <1>g, <2>1 DEF StagesAgree, TypeOK, Hists
  <2>3. cpc \notin Busy
    BY <1>g, <2>1 DEF Handover
  <2> QED BY <1>g, <2>1, <2>2, <2>3 DEF Handover, StagesAgree, ReadMatches
<1>7. CASE CommitStaged
  <2>1. /\ apc = "stage" /\ at > NumHists /\ apc' = "signal"
        /\ UNCHANGED <<total, Moment, commiting, ev, staged, at, got, reading, cpc>>
    BY <1>7 DEF CommitStaged, consumer, clock, ages, Moment
  <2>2. at = NumHists + 1 /\ \A h \in Hists : h < at
    BY <1>t, <2>1 DEF TypeOK, Hists
  <2> QED BY <1>g, <2>1, <2>2 DEF Handover, StagesAgree, ReadMatches
<1>8. CASE CommitSignal
  <2>1. /\ apc = "signal" /\ apc' = "block" /\ ev' /\ at' = 1
        /\ UNCHANGED <<commiting, staged, got, reading, cpc>>
    BY <1>8 DEF CommitSignal, consumer
  <2> QED BY <1>g, <2>1 DEF Handover, StagesAgree, ReadMatches
<1>9. CASE CallWait
  <2>1. /\ cpc = "idle" /\ cpc' = "wait"
        /\ UNCHANGED <<total, Moment, commiting, ev, staged, at, apc, got, reading>>
    BY <1>9 DEF CallWait, clock, ages, Moment
  <2> QED BY <1>g, <2>1 DEF Handover, StagesAgree, ReadMatches
<1>10. CASE Wake
  <2>1. /\ cpc = "wait" /\ cpc' = "woken" /\ ev
        /\ UNCHANGED <<total, Moment, commiting, staged, at, apc, got, reading>>
    BY <1>10 DEF Wake, clock, ages, Moment
  <2>2. commiting /\ apc \in {"block", "commit"} /\ reading = 1
    BY <1>t, <1>g, <2>1 DEF Handover, ReadMatches, TypeOK
  <2> QED BY <1>g, <2>1, <2>2 DEF Handover, StagesAgree, ReadMatches, Hists
<1>11. CASE WaitReturns
  <2>1. /\ cpc = "woken" /\ commiting /\ cpc' = "read"
        /\ UNCHANGED <<total, Moment, commiting, ev, staged, at, apc, got, reading>>
    BY <1>11, <1>g DEF WaitReturns, Handover, clock, ages, Moment
  <2> QED BY <1>g, <2>1 DEF Handover, StagesAgree, ReadMatches
<1>12. CASE Read
  <2>1. /\ cpc = "read" /\ reading <= NumHists /\ reading' = reading + 1
        /\ got' = [got EXCEPT ![reading] = staged[reading]]
        /\ UNCHANGED <<total, Moment, commiting, ev, staged, at, apc, cpc>>
    BY <1>12 DEF Read, clock, ages, Moment
  <2>2. \A h \in Hists : h < reading' => got'[h] = staged[h]
    BY <1>t, <1>g, <2>1 DEF ReadMatches, TypeOK, Hists
  <2> QED BY <1>g, <2>1, <2>2 DEF Handover, StagesAgree, ReadMatches
<1>13. CASE ReadAll
  <2>1. /\ cpc = "read" /\ reading > NumHists /\ cpc' = "reset"
        /\ UNCHANGED <<total, Moment, commiting, ev, staged, at, apc, got, reading>>
    BY <1>13 DEF ReadAll, clock, ages, Moment
  <2>2. reading = NumHists + 1
    BY <1>t, <2>1 DEF TypeOK
  <2> QED BY <1>g, <2>1, <2>2 DEF Handover, StagesAgree, ReadMatches
<1>14. CASE ResetTest
  <2>1. /\ cpc = "reset" /\ cpc' = "resetEvent"
        /\ UNCHANGED <<total, Moment, commiting, ev, staged, at, apc, got, reading>>
    BY <1>14, <1>g DEF ResetTest, Handover, clock, ages, Moment
  <2> QED BY <1>g, <2>1 DEF Handover, StagesAgree, ReadMatches
<1>15. CASE ResetEvent
  <2>1. /\ cpc = "resetEvent" /\ cpc' = "resetFlag" /\ ~ev'
        /\ UNCHANGED <<total, Moment, commiting, staged, at, apc, got, reading>>
    BY <1>15 DEF ResetEvent, clock, ages, Moment
  <2> QED BY <1>g, <2>1 DEF Handover, StagesAgree, ReadMatches
<1>16. CASE ResetFlag
  <2>1. /\ cpc = "resetFlag" /\ cpc' = "idle" /\ ~commiting' /\ reading' = 1
        /\ UNCHANGED <<total, Moment, ev, staged, at, apc>>
    BY <1>16 DEF ResetFlag, clock, ages, Moment
  <2> QED BY <1>g, <2>1 DEF Handover, StagesAgree, ReadMatches
<1>17. ~CancelFlag /\ ~CancelSignal
  BY DEF CancelFlag, CancelSignal, InForce
<1>18. CASE UNCHANGED vars
  <2>1. UNCHANGED <<total, Moment, commiting, ev, staged, at, apc, got, reading, cpc>>
    BY <1>18 DEF vars, clock, ages, consumer, Moment
  <2> QED BY <1>g, <2>1 DEF Handover, StagesAgree, ReadMatches
<1> QED BY <1>1, <1>2, <1>3, <1>4, <1>5, <1>6, <1>7, <1>8, <1>9, <1>10, <1>11, <1>12,
           <1>13, <1>14, <1>15, <1>16, <1>17, <1>18 DEF Next, Audio, Consumer

\* `commiting' and the event never let the audio thread fill a stage while the
\* consumer is between waitForCommit() and reset().
THEOREM InvCorrect == Spec => []IInv
BY InvInit, InvStep, PTL DEF Spec

\* What the invariant says about a consumer that reads.
LEMMA InvSafe == IInv => NoTornRead /\ ResetNeverThrows
<1> SUFFICES ASSUME IInv, InForce
             PROVE  /\ \A g, h \in 1..reading - 1 :
                          cpc \in {"read", "reset"} => got[g] = got[h] /\ got[g] = staged[g]
                    /\ cpc # "thrown"
  BY DEF NoTornRead, ResetNeverThrows
<1>1. TypeOK /\ Handover /\ StagesAgree /\ ReadMatches
  BY DEF IInv
<1>2. ASSUME NEW g \in 1..reading - 1, NEW h \in 1..reading - 1, cpc \in {"read", "reset"}
      PROVE  got[g] = got[h] /\ got[g] = staged[g]
  <2>1. g \in Hists /\ h \in Hists /\ g < reading /\ h < reading
    BY <1>1, ConstantsAssumption DEF TypeOK, Hists
  <2>2. commiting /\ apc \notin Filling
    BY <1>1, <1>2 DEF Handover, Busy, Filling
  <2> QED BY <1>1, <1>2, <2>1, <2>2 DEF StagesAgree, ReadMatches, Busy
<1> QED BY <1>1, <1>2 DEF Handover

\* A consumer reads one snapshot of all observed buffers, and it does not
\* change under its hands.
THEOREM SnapshotTheorem == Spec => []NoTornRead
BY InvCorrect, InvSafe, PTL

\* reset() does not throw at a consumer that keeps to the protocol.
THEOREM ResetTheorem == Spec => []ResetNeverThrows
BY InvCorrect, InvSafe, PTL

-----------------------------------------------------------------------------
(* The spacing of commits *)

\* An unsigned difference grows with its minuend, or wraps around and shrinks: it
\* grows if it stays below the number of values.
LEMMA UnsignedGrows ==
    ASSUME NEW m \in Nat \ {0}, NEW x \in 0..m - 1, NEW y \in 0..m - 1, NEW n \in 0..m - 1
    PROVE  /\ (((x + n) % m) - y) % m <= ((x - y) % m) + n
           /\ ((x - y) % m) + n < m => (((x + n) % m) - y) % m = ((x - y) % m) + n
<1>1. \A z \in 0..m - 1 : z % m = z
  OBVIOUS
<1>2. \A z \in m..2 * m - 1 : z % m = z - m
  OBVIOUS
<1>3. \A z \in -m..-1 : z % m = z + m
  OBVIOUS
<1>4. PICK s \in 0..m - 1 : s = (x + n) % m /\ (s = x + n \/ s = x + n - m)
  <2>1. CASE x + n < m
    BY <1>1, <2>1
  <2>2. CASE ~(x + n < m)
    BY <1>2, <2>2
  <2> QED BY <2>1, <2>2
<1>5. (x - y) % m = IF x >= y THEN x - y ELSE x - y + m
  <2>1. x >= y => x - y \in 0..m - 1
    OBVIOUS
  <2>2. ~(x >= y) => x - y \in -m..-1
    OBVIOUS
  <2> QED BY <1>1, <1>3, <2>1, <2>2
<1>6. (s - y) % m = IF s >= y THEN s - y ELSE s - y + m
  <2>1. s >= y => s - y \in 0..m - 1
    OBVIOUS
  <2>2. ~(s >= y) => s - y \in -m..-1
    OBVIOUS
  <2> QED BY <1>1, <1>3, <2>1, <2>2
<1> DEFINE a == (x - y) % m
           b == (s - y) % m
<1>7. a = (IF x >= y THEN x - y ELSE x - y + m) /\ b = (IF s >= y THEN s - y ELSE s - y + m)
  BY <1>5, <1>6
<1> HIDE DEF a, b
<1>8. b <= a + n /\ (a + n < m => b = a + n)
  BY <1>4, <1>7
<1> QED BY <1>4, <1>8 DEF a, b

\* What a block does to the clock, if lastUpdate is then from.
LEMMA TickLate ==
    ASSUME TypeOK, CommitCap > Interval, ~outgrown => total < U32,
           NEW age \in Nat, NEW failAge \in Nat, Tick(age, failAge), ~outgrown',
           NEW from \in 0..U32 - 1, age > Interval \/ (total - from) % ULong <= age
    PROVE  /\ ~outgrown /\ total' < U32
           /\ sinceCommit' > Interval \/ (total' - from) % ULong <= sinceCommit'
<1> USE ConstantsAssumption
<1>1. PICK n \in BlockSizes :
          /\ total' = (total + n) % ULong
          /\ sinceCommit' = Older(age + n, CommitCap)
          /\ outgrown' = (outgrown \/ (total + n >= U32 /\ ULong > U32))
  BY DEF Tick
<1>2. /\ n \in Nat /\ ULong \in Nat \ {0} /\ total \in 0..ULong - 1 /\ total + n \in Nat
      /\ from \in 0..ULong - 1 /\ Interval < ULong
  BY DEF TypeOK, Counts
<1>3. ~outgrown /\ (total + n < U32 \/ ULong = U32)
  <2>1. ~outgrown /\ ~(total + n >= U32 /\ ULong > U32)
    BY <1>1, Zenon
  <2> QED BY <1>2, <2>1
<1>4. total' < U32
  <2>1. (total + n) % ULong \in 0..ULong - 1
    BY <1>2
  <2>2. \A z \in 0..ULong - 1 : z % ULong = z
    BY <1>2
  <2>3. CASE total + n < U32
    <3>1. total + n \in 0..ULong - 1
      BY <1>2, <2>3
    <3> QED BY <1>1, <2>2, <2>3, <3>1
  <2>4. CASE ULong = U32
    BY <1>1, <2>1, <2>4
  <2> QED BY <1>3, <2>3, <2>4
<1>5. CASE age + n > Interval
  BY <1>1, <1>2, <1>3, <1>4, <1>5 DEF Older
<1>6. CASE ~(age + n > Interval)
  <2>1. n \in 0..ULong - 1 /\ (total - from) % ULong <= age
    BY <1>2, <1>6
  <2>2. (total' - from) % ULong <= ((total - from) % ULong) + n
    BY <1>1, <1>2, <2>1, UnsignedGrows
  <2>3. sinceCommit' = age + n
    BY <1>1, <1>6, <1>2 DEF Older
  <2>4. (total - from) % ULong \in Int /\ (total' - from) % ULong \in Int
    <3>1. total' \in Int
      BY <1>1, <1>2
    <3>2. \A z \in Int : z % ULong \in Int
      BY <1>2
    <3> QED BY <1>2, <3>1, <3>2
  <2>5. (total' - from) % ULong <= sinceCommit'
    BY <1>2, <2>1, <2>2, <2>3, <2>4
  <2> QED BY <1>3, <1>4, <2>5
<1> QED BY <1>5, <1>6

\* The clock starts as one that is long overdue and has no lastUpdate.
LEMMA LateInit == CommitCap > Interval /\ Init => ClockIsLate
BY ConstantsAssumption DEF Init, ClockIsLate

\* Before the first commit after the observer was added, no time is measured.
LEMMA StartedLate ==
    ASSUME TypeOK, ClockIsLate, ~outgrown, apc = "block"
    PROVE  /\ Started \in 0..U32 - 1
           /\ sinceCommit > Interval \/ (total - Started) % ULong <= sinceCommit
           /\ total % U32 = total
<1> USE ConstantsAssumption
<1>1. total \in 0..U32 - 1 /\ total % U32 = total
  BY DEF ClockIsLate, TypeOK, Counts
<1>2. (total - total) % ULong = 0 /\ 0 <= sinceCommit
  BY <1>1 DEF TypeOK
<1>3. CASE lastUpdate = Unset
  BY <1>1, <1>2, <1>3 DEF Started
<1>4. CASE lastUpdate # Unset
  BY <1>1, <1>4 DEF Started, ClockIsLate, TypeOK
<1> QED BY <1>3, <1>4

\* The clock stays late, whatever becomes of a commit.
LEMMA LateStep ==
    CommitCap > Interval /\ TypeOK /\ ClockIsLate /\ [Next]_vars => ClockIsLate'
<1> SUFFICES ASSUME CommitCap > Interval, TypeOK, ClockIsLate, [Next]_vars, ~outgrown'
             PROVE  ClockIsLate'
  BY DEF ClockIsLate
<1> USE ConstantsAssumption
<1>t. total < U32 \/ outgrown
  BY DEF ClockIsLate
<1>a. sinceCommit \in Nat /\ sinceFail \in Nat /\ 0 \in Nat
  BY DEF TypeOK
<1>1. CASE NotDue
  <2>1. apc = "block" /\ apc' = "block" /\ lastUpdate' = Started /\ Tick(sinceCommit, sinceFail)
    BY <1>1 DEF NotDue
  <2>2. ~outgrown
    BY <2>1 DEF Tick, TypeOK
  <2>3. Started \in 0..U32 - 1 /\ (sinceCommit > Interval \/ (total - Started) % ULong <= sinceCommit)
    BY <2>1, <2>2, StartedLate
  <2>4. /\ total' < U32
        /\ sinceCommit' > Interval \/ (total' - Started) % ULong <= sinceCommit'
    BY <1>a, <1>t, <2>1, <2>3, TickLate
  <2> QED BY <2>1, <2>4 DEF ClockIsLate
<1>2. CASE IsDue
  <2>1. /\ apc = "block" /\ Due /\ apc' = "commit" /\ lastUpdate' = total % U32
        /\ total' = total /\ sinceCommit' = sinceCommit /\ outgrown' = outgrown
    BY <1>2 DEF IsDue, ages
  <2>2. sinceCommit > Interval \/ (total - Started) % ULong <= sinceCommit
    BY <2>1, StartedLate
  <2>3. (total - Started) % ULong \in Int
    <3>1. Started \in Int /\ total \in Int
      BY <2>1, StartedLate DEF TypeOK, Counts
    <3>2. \A z \in Int : z % ULong \in Int
      OBVIOUS
    <3> QED BY <3>1, <3>2
  <2>4. sinceCommit > Interval
    BY <1>a, <2>1, <2>2, <2>3 DEF Due
  <2>5. total % U32 = total
    BY <2>1, StartedLate
  <2> QED BY <1>t, <2>1, <2>4, <2>5 DEF ClockIsLate
<1>3. CASE CommitRefused
  <2>1. apc = "commit" /\ apc' = "block" /\ Tick(sinceCommit, 0)
    BY <1>3 DEF CommitRefused
  <2>2. ~outgrown
    BY <2>1 DEF Tick, TypeOK
  <2>3. sinceCommit > Interval
    BY <2>1, <2>2 DEF ClockIsLate
  <2>4. total' < U32
    <3>1. 0 \in 0..U32 - 1
      OBVIOUS
    <3> QED BY <1>a, <1>t, <2>1, <2>3, <3>1, TickLate
  <2>5. sinceCommit' > Interval
    BY <1>a, <2>1, <2>3 DEF Tick, Older
  <2> QED BY <2>1, <2>4, <2>5 DEF ClockIsLate
<1>4. CASE CommitSignal
  <2>1. apc = "signal" /\ apc' = "block" /\ lastUpdate' = lastUpdate /\ Tick(0, sinceFail)
    BY <1>4 DEF CommitSignal
  <2>2. ~outgrown
    BY <2>1 DEF Tick, TypeOK
  <2>3. lastUpdate = total /\ lastUpdate \in 0..U32 - 1
    BY <2>1, <2>2 DEF ClockIsLate, TypeOK
  <2>4. (total - lastUpdate) % ULong <= 0
    BY <2>3
  <2>5. /\ total' < U32
        /\ sinceCommit' > Interval \/ (total' - lastUpdate) % ULong <= sinceCommit'
    BY <1>a, <1>t, <2>1, <2>3, <2>4, TickLate
  <2> QED BY <2>1, <2>5 DEF ClockIsLate
<1>5. CASE CommitTest \/ CommitMark \/ CommitStage \/ CommitStaged
  <2>1. UNCHANGED <<total, sinceCommit, outgrown, lastUpdate>> /\ apc # "block" /\ apc' # "block"
    BY <1>5 DEF CommitTest, CommitMark, CommitStage, CommitStaged, clock, ages
  <2> QED BY <2>1 DEF ClockIsLate
<1>6. CASE Consumer \/ CancelFlag \/ CancelSignal \/ UNCHANGED vars
  <2>1. UNCHANGED <<total, sinceCommit, outgrown, lastUpdate, apc>>
    BY <1>6 DEF Consumer, CallWait, Wake, WaitReturns, Read, ReadAll, ResetTest, ResetEvent,
                ResetFlag, CancelFlag, CancelSignal, vars, clock, ages
  <2> QED BY <2>1 DEF ClockIsLate
<1> QED BY <1>1, <1>2, <1>3, <1>4, <1>5, <1>6 DEF Next, Audio

\* Commits are more than one interval apart, for any interval, block lengths and
\* word sizes, whether or not there is a cancel(), as long as the frame count
\* fits the uint32_t lastUpdate.
THEOREM SpacingTheorem ==
    ASSUME CommitCap > Interval
    PROVE  Spec => []CommitSpacing
<1>1. Init => TypeOK /\ ClockIsLate
  BY TypeInit, LateInit
<1>2. (TypeOK /\ ClockIsLate) /\ [Next]_vars => (TypeOK /\ ClockIsLate)'
  BY TypeStep, LateStep
<1>3. ClockIsLate => CommitSpacing
  BY DEF ClockIsLate, CommitSpacing
<1> QED BY <1>1, <1>2, <1>3, PTL DEF Spec

-----------------------------------------------------------------------------
(* Refinement of SnapshotSlot *)

\* A copy of the stages is never mistaken for an empty slot.
LEMMA NotEmpty == TypeOK => staged # Empty /\ got # Empty
<1> SUFFICES ASSUME TypeOK PROVE staged # Empty /\ got # Empty
  OBVIOUS
<1>1. \A f \in [Hists -> Stamps] : f \in [1..NumHists -> Nat]
  BY ConstantsAssumption DEF Hists, Stamps
<1> QED BY <1>1, ConstantsAssumption DEF TypeOK

\* The observer starts as an empty slot.
LEMMA RefinesInit == Init => Slot!Init
BY DEF Init, Slot!Init, InForce, SlotOf, HeldOf

\* Every step of the observer is a step of the slot, or invisible there.
LEMMA RefinesStep == IInv /\ [Next]_vars => [Slot!Next]_(Slot!vars)
<1> SUFFICES ASSUME IInv, [Next]_vars
             PROVE  Slot!Next \/ UNCHANGED Slot!vars
  OBVIOUS
<1> DEFINE Goal == Slot!Next \/ UNCHANGED Slot!vars
<1>t. TypeOK
  BY DEF IInv
<1>v. CASE ~InForce
  <2>1. ~InForce'
    BY <1>v DEF InForce, Next, Audio, NotDue, IsDue, CommitRefused, CommitTest,
       CommitMark, CommitStage, CommitStaged, CommitSignal, Consumer, CallWait, Wake,
       WaitReturns, Read, ReadAll, ResetTest, ResetEvent, ResetFlag, CancelFlag,
       CancelSignal, vars
  <2> QED BY <1>v, <2>1 DEF Slot!Next, Slot!Void, InForce
<1> SUFFICES ASSUME InForce
             PROVE  Goal
  BY <1>v
<1>g. Handover /\ StagesAgree /\ ReadMatches
  BY DEF IInv
<1>s. ASSUME UNCHANGED <<SlotOf, HeldOf, kpc>>
      PROVE  Goal
  BY <1>s DEF Slot!vars, InForce
<1>n. ASSUME kpc' = kpc, Slot!Publish \/ Slot!Take \/ Slot!Release
      PROVE  Goal
  <2>1. InForce = TRUE /\ InForce' = TRUE
    BY <1>n DEF InForce
  <2> QED BY <1>n, <2>1 DEF Slot!Next, Slot!Serve
<1>1. CASE NotDue \/ IsDue \/ CommitRefused \/ CommitTest
  <2>1. /\ apc \notin Filling /\ apc' \notin Filling
        /\ UNCHANGED <<commiting, staged, got, cpc, kpc>>
    BY <1>1 DEF NotDue, IsDue, CommitRefused, CommitTest, consumer, Filling
  <2> QED BY <1>s, <2>1 DEF SlotOf, HeldOf
<1>2. CASE CommitMark \/ CommitStage \/ CommitStaged
  <2>1. apc = "mark" => ~commiting
    BY <1>g DEF Handover
  <2>2. /\ apc \in Filling \/ ~commiting
        /\ apc' \in Filling
        /\ UNCHANGED <<got, cpc, kpc>>
    BY <1>2, <2>1 DEF CommitMark, CommitStage, CommitStaged, consumer, Filling
  <2> QED BY <1>s, <2>2 DEF SlotOf, HeldOf
<1>3. CASE CommitSignal
  <2>1. /\ apc = "signal" /\ apc' = "block"
        /\ UNCHANGED <<commiting, staged, got, cpc, kpc>>
    BY <1>3 DEF CommitSignal, consumer
  <2>2. commiting /\ staged = [h \in Hists |-> Moment]
    BY <1>t, <1>g, <2>1 DEF Handover, StagesAgree, Filling, TypeOK
  <2>3. SlotOf = Empty /\ SlotOf' = staged /\ HeldOf' = HeldOf
    BY <2>1, <2>2 DEF SlotOf, HeldOf, Filling
  <2>4. Moment \in Stamps
    BY <1>t, MomentType
  <2>5. SlotOf' \in Slot!Snapshots
    BY <2>2, <2>3, <2>4 DEF Slot!Snapshots
  <2> QED BY <1>n, <2>1, <2>3, <2>5 DEF Slot!Publish
<1>4. CASE CallWait \/ Wake \/ WaitReturns \/ ResetTest \/ ResetEvent
  <2>1. /\ UNCHANGED <<apc, commiting, staged, got, kpc>>
        /\ cpc' \in {"reset", "resetEvent", "resetFlag"}
              <=> cpc \in {"reset", "resetEvent", "resetFlag"}
    BY <1>4, <1>g DEF CallWait, Wake, WaitReturns, ResetTest, ResetEvent, Handover, Busy
  <2> QED BY <1>s, <2>1 DEF SlotOf, HeldOf
<1>5. CASE Read
  <2>1. cpc = "read" /\ UNCHANGED <<apc, commiting, staged, cpc, kpc>>
    BY <1>5 DEF Read
  <2> QED BY <1>s, <2>1 DEF SlotOf, HeldOf
<1>6. CASE ReadAll
  <2>1. /\ cpc = "read" /\ cpc' = "reset" /\ reading > NumHists
        /\ UNCHANGED <<apc, commiting, staged, got, kpc>>
    BY <1>6 DEF ReadAll
  <2>2. \A h \in Hists : h < reading
    BY <1>t, <2>1, ConstantsAssumption DEF Hists, TypeOK
  <2>3. got = staged
    BY <1>t, <1>g, <2>1, <2>2 DEF ReadMatches, Busy, TypeOK
  <2>4. commiting /\ apc \notin Filling
    BY <1>g, <2>1 DEF Handover, Busy, Filling
  <2>5. /\ SlotOf = staged /\ SlotOf' = SlotOf
        /\ HeldOf = Empty /\ HeldOf' = got
    BY <2>1, <2>4 DEF SlotOf, HeldOf
  <2> QED BY <1>t, <1>n, <2>1, <2>3, <2>5, NotEmpty DEF Slot!Take
<1>7. CASE ResetFlag
  <2>1. /\ cpc = "resetFlag" /\ cpc' = "idle" /\ ~commiting'
        /\ UNCHANGED kpc
    BY <1>7 DEF ResetFlag
  <2>2. HeldOf = got /\ HeldOf' = Empty /\ SlotOf' = Empty
    BY <2>1 DEF SlotOf, HeldOf
  <2> QED BY <1>t, <1>n, <2>1, <2>2, NotEmpty DEF Slot!Release
<1>8. CASE CancelFlag
  <2>1. /\ ~commiting' /\ kpc' = "signal"
        /\ UNCHANGED <<apc, staged, got, cpc>>
    BY <1>8 DEF CancelFlag, consumer
  <2>2. SlotOf' = Empty /\ HeldOf' = HeldOf /\ InForce' = FALSE
    BY <2>1 DEF SlotOf, HeldOf, InForce
  <2> QED BY <2>2 DEF Slot!Next, Slot!Void
<1>9. ~CancelSignal
  BY DEF CancelSignal, InForce
<1>10. CASE UNCHANGED vars
  BY <1>s, <1>10 DEF vars, consumer, SlotOf, HeldOf
<1> QED BY <1>1, <1>2, <1>3, <1>4, <1>5, <1>6, <1>7, <1>8, <1>9, <1>10
        DEF Next, Audio, Consumer

\* An observer works as a slot for whole snapshots, filled by the audio thread
\* and emptied by the consumer, until it is cancelled.
THEOREM RefinementTheorem == Spec => ImplementsSlot
<1>1. Init => Slot!Init
  BY RefinesInit
<1>2. IInv /\ [Next]_vars => [Slot!Next]_(Slot!vars)
  BY RefinesStep
<1> QED BY <1>1, <1>2, InvCorrect, PTL DEF Spec, ImplementsSlot, Slot!Spec

-----------------------------------------------------------------------------
(* No commit is lost *)

\* Whoever clears the event or leaves the reset() also answers for the commit.
LEMMA StrandedStep == TypeOK /\ CommitNotStranded /\ [Next]_vars => CommitNotStranded'
<1> SUFFICES ASSUME TypeOK, CommitNotStranded, [Next]_vars
             PROVE  CommitNotStranded'
  OBVIOUS
<1> USE DEF CommitNotStranded, Busy, Filling
<1>1. CASE NotDue \/ IsDue \/ CommitRefused
  BY <1>1 DEF NotDue, IsDue, CommitRefused, consumer
<1>2. CASE CommitTest
  BY <1>2 DEF CommitTest
<1>3. CASE CommitMark \/ CommitStage \/ CommitStaged \/ CommitSignal
  BY <1>3 DEF CommitMark, CommitStage, CommitStaged, CommitSignal
<1>4. CASE CallWait \/ Wake
  BY <1>4 DEF CallWait, Wake
<1>5. CASE WaitReturns \/ Read \/ ReadAll \/ ResetTest
  BY <1>5 DEF WaitReturns, Read, ReadAll, ResetTest
<1>6. CASE ResetEvent \/ ResetFlag
  BY <1>6 DEF ResetEvent, ResetFlag
<1>7. CASE CancelFlag \/ CancelSignal
  BY <1>7 DEF CancelFlag, CancelSignal
<1>8. CASE UNCHANGED vars
  BY <1>8 DEF vars, consumer
<1> QED BY <1>1, <1>2, <1>3, <1>4, <1>5, <1>6, <1>7, <1>8 DEF Next, Audio, Consumer

\* No interleaving of the audio thread, the consumer and cancel() leaves an
\* observer committed with nobody to release it: there is no lost wake-up.
THEOREM StrandedTheorem == Spec => []CommitNotStranded
<1>1. Init => CommitNotStranded
  BY DEF Init, CommitNotStranded
<1> QED BY <1>1, TypeCorrect, StrandedStep, PTL DEF Spec

\* What is left to do is counted in numbers.
LEMMA LeftType ==
    ASSUME TypeOK
    PROVE  /\ AudioLeft \in Nat /\ ConsumerLeft \in Nat
           /\ NumHists \in Nat /\ at \in 1..NumHists + 1 /\ reading \in 1..NumHists + 1
<1>1. NumHists \in Nat /\ at \in 1..NumHists + 1 /\ reading \in 1..NumHists + 1
  BY ConstantsAssumption DEF TypeOK
<1>2. AudioLeft \in Nat
  BY <1>1 DEF AudioLeft
<1>3. ConsumerLeft \in Nat
  BY <1>1 DEF ConsumerLeft
<1> QED BY <1>1, <1>2, <1>3

\* Each step of the consumer leaves one less.
LEMMA ConsumerStep ==
    ASSUME TypeOK, ReadMatches, commiting, Consumer
    PROVE  ~commiting' \/ Left' < Left
<1>a. /\ AudioLeft \in Nat /\ ConsumerLeft \in Nat
      /\ NumHists \in Nat /\ at \in 1..NumHists + 1 /\ reading \in 1..NumHists + 1
  BY LeftType
<1>1. CASE ResetFlag
  BY <1>1 DEF ResetFlag
<1>2. CASE ~ResetFlag
  <2>1. ConsumerLeft' = ConsumerLeft - 1
    <3>1. CASE CallWait
      BY <3>1, <1>a DEF CallWait, ConsumerLeft
    <3>2. CASE Wake
      BY <3>2, <1>a DEF Wake, ConsumerLeft
    <3>3. CASE WaitReturns
      BY <3>3, <1>a DEF WaitReturns, ReadMatches, ConsumerLeft
    <3>4. CASE Read
      BY <3>4, <1>a DEF Read, ConsumerLeft
    <3>5. CASE ReadAll
      <4>1. reading = NumHists + 1
        BY <3>5, <1>a DEF ReadAll
      <4> QED BY <3>5, <4>1, <1>a DEF ReadAll, ConsumerLeft
    <3>6. CASE ResetTest
      BY <3>6, <1>a DEF ResetTest, ConsumerLeft
    <3>7. CASE ResetEvent
      BY <3>7, <1>a DEF ResetEvent, ConsumerLeft
    <3> QED BY <1>2, <3>1, <3>2, <3>3, <3>4, <3>5, <3>6, <3>7 DEF Consumer
  <2>2. UNCHANGED <<apc, at>>
    BY <1>2 DEF Consumer, CallWait, Wake, WaitReturns, Read, ReadAll, ResetTest, ResetEvent
  <2>3. AudioLeft' = AudioLeft
    BY <2>2 DEF AudioLeft
  <2> QED BY <1>a, <2>1, <2>3 DEF Left
<1> QED BY <1>1, <1>2

\* Each step of the audio thread leaves one less until it has signalled, and
\* changes nothing after that.
LEMMA AudioStep ==
    ASSUME TypeOK, Handover, commiting, Audio
    PROVE  IF apc \in Filling THEN Left' < Left ELSE Left' = Left
<1>a. /\ AudioLeft \in Nat /\ ConsumerLeft \in Nat
      /\ NumHists \in Nat /\ at \in 1..NumHists + 1
  BY LeftType
<1>1. ConsumerLeft' = ConsumerLeft
  <2>1. UNCHANGED <<reading, cpc>>
    BY DEF Audio, NotDue, IsDue, CommitRefused, CommitTest, CommitMark, CommitStage,
           CommitStaged, CommitSignal, consumer
  <2> QED BY <2>1 DEF ConsumerLeft
<1>2. AudioLeft' = IF apc \in Filling THEN AudioLeft - 1 ELSE AudioLeft
  <2>1. CASE NotDue \/ IsDue \/ CommitRefused
    <3>1. apc \in {"block", "commit"} /\ apc' \in {"block", "commit"}
      BY <2>1 DEF NotDue, IsDue, CommitRefused
    <3> QED BY <3>1 DEF AudioLeft, Filling
  <2>2. ~CommitTest /\ ~CommitMark
    BY DEF CommitTest, CommitMark, Handover
  <2>3. CASE CommitStage
    BY <2>3, <1>a DEF CommitStage, AudioLeft, Filling
  <2>4. CASE CommitStaged
    <3>1. at = NumHists + 1
      BY <2>4, <1>a DEF CommitStaged
    <3> QED BY <2>4, <3>1, <1>a DEF CommitStaged, AudioLeft, Filling
  <2>5. CASE CommitSignal
    BY <2>5, <1>a DEF CommitSignal, AudioLeft, Filling
  <2> QED BY <2>1, <2>2, <2>3, <2>4, <2>5 DEF Audio
<1> QED BY <1>a, <1>1, <1>2 DEF Left

\* From commit() on everybody works towards reset(): the consumer by each of
\* its steps, the audio thread by each until it has signalled.
THEOREM ReleaseTheorem == Spec => ReleaseComesNearer
<1>1. IInv /\ [Next]_vars /\ InForce /\ InForce' /\ commiting =>
          /\ Consumer => ~commiting' \/ Left' < Left
          /\ Audio => IF apc \in Filling THEN Left' < Left ELSE Left' = Left
  BY ConsumerStep, AudioStep DEF IInv
<1> QED BY <1>1, InvCorrect, PTL DEF Spec, ReleaseComesNearer

\* The time since lastUpdate grows by the length of the block.
LEMMA DueStep ==
    ASSUME TypeOK, NotDue, lastUpdate' # Unset, \A n \in BlockSizes : Interval + n < ULong
    PROVE  Elapsed' > Elapsed
<1> USE ConstantsAssumption
<1>1. PICK n \in BlockSizes : total' = (total + n) % ULong
  BY DEF NotDue, Tick
<1>2. /\ n \in Nat \ {0} /\ Interval + n < ULong /\ ULong \in Nat \ {0}
      /\ Interval \in Nat /\ total \in 0..ULong - 1
  BY DEF TypeOK, Counts
<1>3. Started \in 0..U32 - 1 /\ Started' = Started
  BY ClockType DEF NotDue, Started
<1>4. (total - Started) % ULong \in 0..ULong - 1 /\ (total - Started) % ULong <= Interval
  BY <1>2, <1>3 DEF NotDue, Due
<1>5. n \in 0..ULong - 1 /\ Started \in 0..ULong - 1 /\ ((total - Started) % ULong) + n < ULong
  BY <1>2, <1>3, <1>4
<1>6. (((total + n) % ULong) - Started) % ULong = ((total - Started) % ULong) + n
  BY <1>2, <1>5, UnsignedGrows
<1> QED BY <1>1, <1>2, <1>3, <1>4, <1>6 DEF Elapsed

\* A commit cannot be put off for ever by the arithmetic of the clock.
THEOREM DueTheorem == Spec => DueComesNearer
<1>1. TypeOK /\ [Next]_vars /\ NotDue /\ lastUpdate' # Unset
          /\ (\A n \in BlockSizes : Interval + n < ULong) => Elapsed' > Elapsed
  BY DueStep
<1> QED BY <1>1, TypeCorrect, PTL DEF Spec, DueComesNearer
=============================================================================
