-------------------------- MODULE DeltamodeProofs --------------------------
(***************************************************************************)
(* Deltamode for any objects, modules, time steps, limits and service      *)
(* dates: a step that is over is settled, the federates are told the time  *)
(* at which the simulation goes on, the forced steps are done.             *)
(***************************************************************************)
EXTENDS Deltamode, TLAPS

\* Integer division, as an equation.
LEMMA Division ==
    ASSUME NEW x \in Nat, NEW y \in Nat \ {0}
    PROVE  \E r \in Nat : r < y /\ (x \div y) * y = x - r /\ x \div y \in Nat
<1> DEFINE q == x \div y
           r == x % y
<1>1. q \in Int /\ r \in Nat /\ r < y /\ x = y * q + r
  OBVIOUS
<1>2. q * y = x - r
  BY <1>1
<1>3. q >= 0
  <2>1. SUFFICES ASSUME q <= -1 PROVE FALSE
    BY <1>1
  <2>2. y * q <= -y
    BY <1>1, <2>1
  <2> QED BY <1>1, <2>2
<1> QED BY <1>1, <1>2, <1>3

\* The rounding to whole multiples, up and by less than one.
LEMMA CeilingIsClose ==
    ASSUME NEW t \in Nat, NEW s \in Nat \ {0}
    PROVE  /\ (t + s - 1) \div s \in Nat
           /\ t <= ((t + s - 1) \div s) * s
           /\ ((t + s - 1) \div s) * s < t + s
<1> DEFINE x == t + s - 1
<1>1. x \in Nat
  OBVIOUS
<1>2. PICK r \in Nat : r < s /\ (x \div s) * s = x - r /\ x \div s \in Nat
  <2> HIDE DEF x
  <2> QED BY <1>1, Division
<1> DEFINE q == x \div s
           p == q * s
<1>3. p = t + s - 1 - r /\ q \in Nat
  BY <1>2
<1>4. t <= p /\ p < t + s
  <2> HIDE DEF p
  <2> QED BY <1>2, <1>3
<1> QED BY <1>3, <1>4

\* The rounding to a place on the grid, by half a place at most.
LEMMA NearestIsClose ==
    ASSUME NEW n \in Nat
    PROVE  /\ Nearest(n) \in Nat
           /\ 2 * (Nearest(n) * Second) <= 2 * n + Second
           /\ 2 * n < 2 * (Nearest(n) * Second) + Second
<1> DEFINE x == 2 * n + Second
           y == 2 * Second
           q == x \div y
           p == q * Second
<1>1. x \in Nat /\ y \in Nat \ {0} /\ Second \in Nat \ {0}
  BY DeltaAssumption
<1>2. PICK r \in Nat : r < y /\ q * y = x - r /\ q \in Nat
  <2> HIDE DEF x, y
  <2> QED BY <1>1, Division
<1>3. Nearest(n) = q
  BY DEF Nearest
<1> HIDE DEF q
<1>4. q * y = 2 * p /\ p \in Nat
  BY <1>1, <1>2
<1>5. 2 * p = 2 * n + Second - r /\ r < 2 * Second
  <2>1. 2 * p = x - r
    <3> HIDE DEF p, x, y
    <3> QED BY <1>2, <1>4
  <2>2. r < 2 * Second
    BY <1>2
  <2>3. p \in Nat
    BY <1>4
  <2> HIDE DEF p
  <2> QED BY <1>1, <1>2, <2>1, <2>2, <2>3
<1>6. 2 * p <= 2 * n + Second /\ 2 * n < 2 * p + Second
  <2> HIDE DEF p, x, y
  <2> QED BY <1>1, <1>2, <1>4, <1>5
<1> QED BY <1>2, <1>3, <1>6

\* Products of integers by a positive one keep and tell their order.
LEMMA ProductOrder ==
    ASSUME NEW a \in Int, NEW b \in Int, NEW s \in Nat \ {0}
    PROVE  /\ a * s \in Int /\ b * s \in Int
           /\ a <= b => a * s <= b * s
           /\ a < b => a * s < b * s
           /\ a * s < b * s + s => a <= b
<1>1. a * s \in Int /\ b * s \in Int
  OBVIOUS
<1>2. a <= b => a * s <= b * s
  OBVIOUS
<1>3. a < b => a * s < b * s
  OBVIOUS
<1>4. ASSUME a * s < b * s + s PROVE a <= b
  <2>1. SUFFICES ASSUME b + 1 <= a PROVE FALSE
    OBVIOUS
  <2>2. (b + 1) * s <= a * s
    BY <2>1
  <2>3. (b + 1) * s = b * s + s
    OBVIOUS
  <2> QED BY <1>1, <1>4, <2>2, <2>3
<1> QED BY <1>1, <1>2, <1>3, <1>4

\* The double-precision clock is half a place from the integer one at most.
LEMMA DoubleIsClose ==
    ASSUME deltaclock \in Nat
    PROVE  /\ DoubleClock \in Nat /\ deltaclock * Grid \in Nat
           /\ 2 * (DoubleClock * Second) <= 2 * (deltaclock * Grid) + Second
           /\ 2 * (deltaclock * Grid) < 2 * (DoubleClock * Second) + Second
<1>1. deltaclock * Grid \in Nat
  BY DeltaAssumption
<1> QED BY <1>1, NearestIsClose DEF DoubleClock

\* The next step is announced as the nearest place, from the double clock.
LEMMA NextStepIsClose ==
    ASSUME deltaclock \in Nat, timestep \in Nat
    PROVE  /\ NextStepTime \in Nat /\ timestep * Grid \in Nat
           /\ 2 * (NextStepTime * Second)
                 <= 2 * (DoubleClock * Second + timestep * Grid) + Second
           /\ 2 * (DoubleClock * Second + timestep * Grid)
                 < 2 * (NextStepTime * Second) + Second
<1>1. DoubleClock * Second \in Nat /\ timestep * Grid \in Nat
  BY DoubleIsClose, DeltaAssumption
<1>2. DoubleClock * Second + timestep * Grid \in Nat
  BY <1>1
<1> QED BY <1>1, <1>2, NearestIsClose DEF NextStepTime

\* The second announced at the end is less than one after the double clock.
LEMMA NextSecondIsClose ==
    ASSUME deltaclock \in Nat
    PROVE  /\ NextSecond \in Nat /\ NextSecond * Grid \in Nat
           /\ DoubleClock <= NextSecond * Grid
           /\ NextSecond * Grid < DoubleClock + Grid
<1>1. DoubleClock \in Nat /\ Grid \in Nat \ {0}
  BY DoubleIsClose, DeltaAssumption
<1>2. /\ NextSecond \in Nat
      /\ DoubleClock <= NextSecond * Grid /\ NextSecond * Grid < DoubleClock + Grid
  BY <1>1, CeilingIsClose DEF NextSecond
<1> QED BY <1>1, <1>2

\* What is read from the clock stays while the clock and the stop time do.
LEMMA TimesKept ==
    UNCHANGED <<deltaclock, stop>> =>
        /\ OutOfTime' <=> OutOfTime
        /\ NextSecond' = NextSecond
        /\ UNCHANGED timestep => NextStepTime' = NextStepTime
BY DEF OutOfTime, NextSecond, NextStepTime, DoubleClock, Nearest

Stepping == {"objects", "modules", "clock"}

\* What the two modes tell of the answers of the iteration.
Merging ==
    /\ mode # "SM_ERROR" /\ result # "SM_ERROR"
    /\ pc = "objects" =>
           /\ "SM_DELTA_ITER" \in answers => mode = "SM_DELTA_ITER"
           /\ mode = "SM_EVENT" => answers \subseteq {"SM_EVENT"}
    /\ pc = "modules" =>
           /\ "SM_DELTA_ITER" \in answers => mode = "SM_DELTA_ITER" \/ result = "SM_DELTA_ITER"
           /\ mode = "SM_EVENT" /\ result = "SM_EVENT" => answers \subseteq {"SM_EVENT"}
    /\ pc = "clock" =>
           /\ "SM_DELTA_ITER" \notin answers
           /\ mode = "SM_EVENT" => answers \subseteq {"SM_EVENT"} /\ always = FALSE
           /\ mode \in {"SM_EVENT", "SM_DELTA"}

\* The forced steps that are left and those that are done.
Counting ==
    /\ pc = "preupdate" => calm = 0
    /\ pc \in Stepping => ~OutOfTime
    /\ pc \in Stepping \cup {"step", "postupdate"} => forced + calm = extra
    /\ pc = "postupdate" /\ ~OutOfTime => forced = 0 /\ always = FALSE

\* The time told is a place of the grid from where the run is, at most.
NearTold ==
    /\ told * Second <= deltaclock * Grid + Second
    /\ deltaclock * Grid <= told * Second + Second

\* The time told, where the run is and where it ends.
Announcing ==
    /\ pc = "preupdate" => told = 0 /\ deltaclock = 0
    /\ pc \in {"step", "objects", "modules"} /\ calm = 0 => NearTold
    /\ pc = "clock" => told = NextTime(mode)
    /\ pc = "postupdate" \/ (pc = "done" /\ elapsed # DT_INVALID) =>
           /\ OutOfTime /\ calm = 0 => NearTold
           /\ ~OutOfTime => told = NextSecond * Grid
    /\ pc = "done" /\ elapsed # DT_INVALID => elapsed = CeilSecond(deltaclock)

Inv == TypeOK /\ Merging /\ Counting /\ Announcing

LEMMA InvStart == Init => Inv
<1> SUFFICES ASSUME Init PROVE Inv
  OBVIOUS
<1>1. TypeOK
  BY DeltaAssumption DEF Init, TypeOK, Mode
<1>2. Merging /\ Counting /\ Announcing
  BY DeltaAssumption DEF Init, Merging, Counting, Announcing, Stepping
<1> QED BY <1>1, <1>2 DEF Inv

\* Each variable keeps its type.
LEMMA TypeStep == TypeOK /\ [Next]_vars => TypeOK'
<1> SUFFICES ASSUME TypeOK, [Next]_vars PROVE TypeOK'
  OBVIOUS
<1> USE DeltaAssumption DEF TypeOK, Mode, config, hist
<1>1. ASSUME NEW dt \in Steps, Preupdate(dt) PROVE TypeOK'
  BY <1>1 DEF Preupdate, Shorter
<1>2. CASE Fail
  BY <1>2 DEF Fail
<1>3. CASE Start \/ BeginStep \/ Timeout
  <2>1. CASE Start
    BY <2>1 DEF Start
  <2>2. CASE BeginStep
    BY <2>2 DEF BeginStep
  <2>3. CASE Timeout
    BY <2>3 DEF Timeout
  <2> QED BY <1>3, <2>1, <2>2, <2>3
<1>4. ASSUME NEW a \in Mode, UpdateObject(a) \/ Interupdate(a) \/ ClockUpdate(a) PROVE TypeOK'
  <2>1. CASE UpdateObject(a)
    <3>1. mode' \in Mode /\ answers' \subseteq Mode
      BY <2>1 DEF UpdateObject, Merged
    <3> QED BY <2>1, <3>1 DEF UpdateObject
  <2>2. CASE Interupdate(a)
    BY <2>2 DEF Interupdate, Merged
  <2>3. CASE ClockUpdate(a)
    <3>1. answers' \subseteq Mode
      BY <2>3 DEF ClockUpdate
    <3> QED BY <2>3, <3>1 DEF ClockUpdate
  <2> QED BY <1>4, <2>1, <2>2, <2>3
<1>5. CASE ObjectsUpdated \/ EndRun \/ Postupdate
  <2>1. CASE ObjectsUpdated
    BY <2>1 DEF ObjectsUpdated
  <2>2. CASE EndRun
    BY <2>2 DEF EndRun
  <2>3. CASE Postupdate
    BY <2>3 DEF Postupdate
  <2> QED BY <1>5, <2>1, <2>2, <2>3
<1>6. CASE Settle
  <2>1. Agreed \in Mode
    BY DEF Agreed, Reconciled, Forced
  <2>2. NextStepTime \in Nat /\ NextSecond * Grid \in Nat
    BY NextStepIsClose, NextSecondIsClose
  <2>3. NextTime(Agreed) \in Nat
    BY <2>2 DEF NextTime
  <2> QED BY <1>6, <2>1, <2>3 DEF Settle
<1>7. CASE Iterate
  BY <1>7 DEF Iterate, Counted
<1>8. CASE ForcedStep \/ NextStep
  <2>1. CASE ForcedStep
    BY <2>1 DEF ForcedStep
  <2>2. CASE NextStep
    BY <2>2 DEF NextStep, Renewed
  <2> QED BY <1>8, <2>1, <2>2
<1>9. CASE Return
  <2>1. CeilSecond(deltaclock) \in Nat
    BY CeilingIsClose DEF CeilSecond
  <2> QED BY <1>9, <2>1 DEF Return
<1>10. CASE UNCHANGED vars
  BY <1>10 DEF vars
<1> QED BY <1>1, <1>2, <1>3, <1>4, <1>5, <1>6, <1>7, <1>8, <1>9, <1>10
     DEF Next, PreupdateFails, TransformFails, UpdateFails, InterupdateFails,
         IterationLimit, ClockUpdateFails, PostupdateFails

\* A mode is an iteration's wherever an answer was.
LEMMA MergingStep == TypeOK /\ Merging /\ [Next]_vars => Merging'
<1> SUFFICES ASSUME TypeOK, Merging, [Next]_vars PROVE Merging'
  OBVIOUS
<1>0. mode \in Mode /\ result \in Mode /\ answers \subseteq Mode /\ always \in {TRUE, FALSE}
  BY DeltaAssumption DEF TypeOK
<1> USE DEF Merging, Mode, config, hist
<1>1. ASSUME NEW dt \in Steps, Preupdate(dt) PROVE Merging'
  BY <1>1 DEF Preupdate
<1>2. CASE Fail
  BY <1>2 DEF Fail
<1>3. CASE Start \/ BeginStep \/ Timeout
  BY <1>3 DEF Start, BeginStep, Timeout
<1>4. ASSUME NEW a \in Mode \ {"SM_ERROR"}, UpdateObject(a) PROVE Merging'
  <2>1. pc = "objects" /\ pc' = "objects" /\ result' = result /\ always' = always
    BY <1>4 DEF UpdateObject
  <2>2. CASE InService(delta_objectlist[at])
    <3>1. mode' = Merged(mode, a) /\ answers' = answers \cup {a}
      BY <1>4, <2>2 DEF UpdateObject
    <3> QED BY <1>0, <1>4, <2>1, <3>1 DEF Merged
  <2>3. CASE ~InService(delta_objectlist[at])
    <3>1. mode' = mode /\ answers' = answers
      BY <1>4, <2>3 DEF UpdateObject
    <3> QED BY <2>1, <3>1
  <2> QED BY <2>2, <2>3
<1>5. ASSUME NEW a \in Mode \ {"SM_ERROR"}, Interupdate(a) PROVE Merging'
  BY <1>0, <1>5 DEF Interupdate, Merged
<1>6. ASSUME NEW a \in Mode \ {"SM_ERROR"}, ClockUpdate(a) PROVE Merging'
  <2>1. pc = "clock" /\ pc' = "clock" /\ UNCHANGED <<mode, result, always>>
    BY <1>6 DEF ClockUpdate, Calling
  <2>2. CASE Federate
    <3>1. Accepted(a) /\ answers' = answers \cup {a}
      BY <1>6, <2>2 DEF ClockUpdate
    <3> QED BY <1>0, <1>6, <2>1, <3>1 DEF Accepted, ClockAnswer
  <2>3. CASE ~Federate
    <3>1. answers' = answers
      BY <1>6, <2>3 DEF ClockUpdate
    <3> QED BY <2>1, <3>1
  <2> QED BY <2>2, <2>3
<1>7. CASE ObjectsUpdated \/ EndRun \/ Postupdate
  BY <1>0, <1>7 DEF ObjectsUpdated, EndRun, Postupdate
<1>8. CASE Settle
  BY <1>0, <1>8 DEF Settle, ModulesUpdated, Agreed, Reconciled, Forced
<1>9. CASE Iterate
  BY <1>9 DEF Iterate
<1>10. CASE ForcedStep \/ NextStep \/ Return
  BY <1>10 DEF ForcedStep, NextStep, Return
<1>11. CASE UNCHANGED vars
  BY <1>11 DEF vars
<1> QED BY <1>1, <1>2, <1>3, <1>4, <1>5, <1>6, <1>7, <1>8, <1>9, <1>10, <1>11
     DEF Next, PreupdateFails, TransformFails, UpdateFails, InterupdateFails,
         IterationLimit, ClockUpdateFails, PostupdateFails

\* A forced step is spent when it is done, and all are renewed together.
LEMMA CountingStep == TypeOK /\ Merging /\ Counting /\ [Next]_vars => Counting'
<1> SUFFICES ASSUME TypeOK, Merging, Counting, [Next]_vars PROVE Counting'
  OBVIOUS
<1>0. /\ deltaclock \in Nat /\ timestep \in Nat /\ forced \in Nat /\ calm \in Nat
      /\ extra \in Nat /\ stop \in Nat
  BY DeltaAssumption DEF TypeOK
<1>t. UNCHANGED <<deltaclock, stop>> => (OutOfTime' <=> OutOfTime)
  BY TimesKept
<1> USE DEF Counting, Stepping, config, hist
<1>1. ASSUME NEW dt \in Steps, Preupdate(dt) PROVE Counting'
  BY <1>1 DEF Preupdate
<1>2. CASE Fail
  BY <1>2 DEF Fail
<1>3. CASE Start \/ BeginStep \/ Timeout
  BY <1>0, <1>t, <1>3 DEF Start, BeginStep, Timeout
<1>4. ASSUME NEW a \in Mode \ {"SM_ERROR"}, UpdateObject(a) \/ Interupdate(a) \/ ClockUpdate(a)
      PROVE  Counting'
  BY <1>t, <1>4 DEF UpdateObject, Interupdate, ClockUpdate
<1>5. CASE ObjectsUpdated \/ Settle \/ Iterate
  BY <1>t, <1>5 DEF ObjectsUpdated, Settle, ModulesUpdated, Iterate
<1>6. CASE EndRun
  BY <1>0, <1>t, <1>6 DEF EndRun, StepDone, Merging
<1>7. CASE ForcedStep
  BY <1>0, <1>7 DEF ForcedStep, StepDone
<1>8. CASE NextStep
  BY <1>0, <1>8 DEF NextStep, StepDone, Renewed
<1>9. CASE Postupdate \/ Return
  BY <1>t, <1>9 DEF Postupdate, Return
<1>10. CASE UNCHANGED vars
  BY <1>t, <1>10 DEF vars
<1> QED BY <1>1, <1>2, <1>3, <1>4, <1>5, <1>6, <1>7, <1>8, <1>9, <1>10
     DEF Next, PreupdateFails, TransformFails, UpdateFails, InterupdateFails,
         IterationLimit, ClockUpdateFails, PostupdateFails

\* The time told is where the run is, or where its end will round it to.
LEMMA AnnouncingStep ==
    TypeOK /\ Merging /\ Counting /\ Announcing /\ [Next]_vars => Announcing'
<1> SUFFICES ASSUME TypeOK, Merging, Counting, Announcing, [Next]_vars PROVE Announcing'
  OBVIOUS
<1>0. /\ deltaclock \in Nat /\ timestep \in Nat /\ calm \in Nat /\ told \in Nat
  BY DeltaAssumption DEF TypeOK
<1>t. UNCHANGED <<deltaclock, stop>> =>
          /\ OutOfTime' <=> OutOfTime
          /\ NextSecond' = NextSecond
          /\ UNCHANGED timestep => NextStepTime' = NextStepTime
  BY TimesKept
<1>n. UNCHANGED <<deltaclock, told>> => (NearTold' <=> NearTold)
  BY DEF NearTold
<1> USE DEF Announcing, config, hist
<1>1. ASSUME NEW dt \in Steps, Preupdate(dt) PROVE Announcing'
  BY <1>1 DEF Preupdate
<1>2. CASE Fail
  BY <1>2 DEF Fail
<1>3. CASE Start \/ BeginStep \/ Timeout
  <2>1. CASE Start
    <3>1. told = 0 /\ deltaclock = 0
      BY <2>1 DEF Start
    <3>2. 0 * Grid = 0 /\ 0 * Second = 0 /\ Second \in Nat
      BY DeltaAssumption
    <3>3. NearTold
      BY <3>1, <3>2 DEF NearTold
    <3> QED BY <1>n, <2>1, <3>3 DEF Start
  <2>2. CASE BeginStep
    BY <1>n, <2>2 DEF BeginStep
  <2>3. CASE Timeout
    BY <1>n, <1>t, <2>3 DEF Timeout
  <2> QED BY <1>3, <2>1, <2>2, <2>3
<1>4. ASSUME NEW a \in Mode \ {"SM_ERROR"}, UpdateObject(a) \/ Interupdate(a) \/ ClockUpdate(a)
      PROVE  Announcing'
  BY <1>n, <1>t, <1>4 DEF UpdateObject, Interupdate, ClockUpdate, NextTime
<1>5. CASE ObjectsUpdated \/ Iterate
  BY <1>n, <1>5 DEF ObjectsUpdated, ModulesUpdated, Iterate
<1>6. CASE Settle
  BY <1>t, <1>6 DEF Settle, NextTime
<1>7. CASE EndRun
  BY <1>n, <1>t, <1>7 DEF EndRun, StepDone, NextTime, Counting, Stepping
<1>8. CASE ForcedStep
  BY <1>0, <1>8 DEF ForcedStep
<1>9. CASE NextStep
  <2>1. /\ told = NextStepTime /\ UNCHANGED told
        /\ pc' = "step" /\ deltaclock' = deltaclock + timestep
    BY <1>9 DEF NextStep, StepDone, NextTime
  <2> DEFINE d == DoubleClock * Second
             x == deltaclock * Grid
             t == timestep * Grid
             n == told * Second
  <2>2. 2 * d <= 2 * x + Second /\ 2 * x < 2 * d + Second /\ d \in Int /\ x \in Int
    BY <1>0, DoubleIsClose, DeltaAssumption
  <2>3. 2 * n <= 2 * (d + t) + Second /\ 2 * (d + t) < 2 * n + Second /\ t \in Int /\ n \in Int
    BY <1>0, <2>1, NextStepIsClose, DeltaAssumption
  <2>4. (deltaclock + timestep) * Grid = x + t /\ Second \in Nat
    BY <1>0, DeltaAssumption
  <2>5. deltaclock' * Grid = x + t /\ told' * Second = n
    BY <2>1, <2>4
  <2>6. n <= x + t + Second /\ x + t <= n + Second
    <3> HIDE DEF d, x, t, n
    <3> QED BY <2>2, <2>3, <2>4
  <2>7. NearTold'
    BY <2>5, <2>6 DEF NearTold
  <2> QED BY <2>1, <2>7
<1>10. CASE Postupdate
  BY <1>n, <1>t, <1>10 DEF Postupdate
<1>11. CASE Return
  BY <1>n, <1>t, <1>11 DEF Return
<1>12. CASE UNCHANGED vars
  BY <1>n, <1>t, <1>12 DEF vars, NextTime
<1> QED BY <1>1, <1>2, <1>3, <1>4, <1>5, <1>6, <1>7, <1>8, <1>9, <1>10, <1>11, <1>12
     DEF Next, PreupdateFails, TransformFails, UpdateFails, InterupdateFails,
         IterationLimit, ClockUpdateFails, PostupdateFails

LEMMA Invariance == Spec => []Inv
<1>1. Inv /\ [Next]_vars => Inv'
  BY TypeStep, MergingStep, CountingStep, AnnouncingStep DEF Inv
<1> QED BY InvStart, <1>1, PTL DEF Spec

\* Deltamode goes on, to the next step or out, only when nobody asked for the
\* step again, and out only when everybody wants event mode (StepIsSettled).
THEOREM DeltaSettled == Spec => [](TypeOK /\ StepIsSettled)
<1>1. Inv => TypeOK /\ StepIsSettled
  BY DEF Inv, Merging, StepIsSettled
<1> QED BY Invariance, <1>1, PTL

\* What NearTold says of the double clock: one place.
LEMMA NearDouble ==
    ASSUME deltaclock \in Nat, told \in Nat, NearTold
    PROVE  told <= DoubleClock + 1 /\ DoubleClock <= told + 1
<1> DEFINE d == DoubleClock * Second
           x == deltaclock * Grid
           n == told * Second
<1>1. /\ 2 * d <= 2 * x + Second /\ 2 * x < 2 * d + Second /\ d \in Int /\ x \in Int
      /\ DoubleClock \in Int /\ Second \in Nat \ {0}
  BY DoubleIsClose, DeltaAssumption
<1>2. n <= x + Second /\ x <= n + Second /\ n \in Int
  BY <1>1 DEF NearTold
<1>3. /\ (DoubleClock + 1) * Second = d + Second
      /\ (told + 1) * Second = n + Second
  BY <1>1
<1>4. /\ n < (DoubleClock + 1) * Second + Second
      /\ d < (told + 1) * Second + Second
  <2>1. n < d + Second + Second /\ d < n + Second + Second
    <3> HIDE DEF d, x, n
    <3> QED BY <1>1, <1>2
  <2> QED BY <1>3, <2>1
<1>5. told <= DoubleClock + 1
  BY <1>1, <1>4, ProductOrder
<1>6. DoubleClock <= told + 1
  BY <1>1, <1>4, ProductOrder
<1> QED BY <1>5, <1>6

\* The seconds returned, on the grid, against the double clock.
LEMMA CeilSecondIsClose ==
    ASSUME deltaclock \in Nat
    PROVE  /\ CeilSecond(deltaclock) \in Nat /\ CeilSecond(deltaclock) * Grid \in Nat
           /\ DoubleClock <= CeilSecond(deltaclock) * Grid
           /\ CeilSecond(deltaclock) * Grid <= DoubleClock + Grid
<1> DEFINE c == CeilSecond(deltaclock)
           d == DoubleClock * Second
           x == deltaclock * Grid
           g == Grid * Second
<1>1. /\ 2 * d <= 2 * x + Second /\ 2 * x < 2 * d + Second /\ d \in Int /\ x \in Int
      /\ DoubleClock \in Int /\ Second \in Nat \ {0} /\ Grid \in Nat \ {0} /\ g \in Nat
  BY DoubleIsClose, DeltaAssumption
<1>2. c \in Nat /\ deltaclock <= c * Second /\ c * Second < deltaclock + Second
  BY <1>1, CeilingIsClose DEF CeilSecond
<1> HIDE DEF c
<1>3. c * Grid \in Nat /\ c * Second \in Nat
  BY <1>1, <1>2
<1>4. (c * Second) * Grid = (c * Grid) * Second /\ (deltaclock + Second) * Grid = x + g
  BY <1>1, <1>2
<1>5. x <= (c * Grid) * Second
  BY <1>1, <1>2, <1>3, <1>4, ProductOrder
<1>6. (c * Grid) * Second < x + g
  BY <1>1, <1>2, <1>3, <1>4, ProductOrder
<1>7. (DoubleClock + Grid) * Second = d + g
  BY <1>1
<1> DEFINE e == (c * Grid) * Second
<1>8. e \in Int /\ x <= e /\ e < x + g
  BY <1>1, <1>3, <1>5, <1>6
<1>9. d < e + Second /\ e < (DoubleClock + Grid) * Second + Second
  <2>1. d < e + Second /\ e < d + g + Second
    <3> HIDE DEF d, x, g, e
    <3> QED BY <1>1, <1>8
  <2> QED BY <1>7, <2>1
<1>10. DoubleClock <= c * Grid
  BY <1>1, <1>3, <1>9, ProductOrder
<1>11. c * Grid <= DoubleClock + Grid
  BY <1>1, <1>3, <1>9, ProductOrder
<1> QED BY <1>2, <1>3, <1>10, <1>11 DEF c

\* The second announced at the end is the one that is returned, or the clock is
\* just past it and the next is.
LEMMA SecondTold ==
    ASSUME deltaclock \in Nat
    PROVE  \/ CeilSecond(deltaclock) * Grid = NextSecond * Grid
           \/ /\ CeilSecond(deltaclock) * Grid = NextSecond * Grid + Grid
              /\ JustPast(NextSecond * Grid)
<1> DEFINE c == CeilSecond(deltaclock)
           k == NextSecond
           d == DoubleClock * Second
           x == deltaclock * Grid
<1>1. /\ 2 * d <= 2 * x + Second /\ 2 * x < 2 * d + Second /\ d \in Int /\ x \in Int
      /\ DoubleClock \in Int /\ Second \in Nat \ {0} /\ Grid \in Nat \ {0}
  BY DoubleIsClose, DeltaAssumption
<1>2. /\ c \in Nat /\ c * Grid \in Nat
      /\ DoubleClock <= c * Grid /\ c * Grid <= DoubleClock + Grid
  BY CeilSecondIsClose
<1>3. /\ k \in Nat /\ k * Grid \in Nat
      /\ DoubleClock <= k * Grid /\ k * Grid < DoubleClock + Grid
  BY NextSecondIsClose
<1>4. /\ deltaclock <= c * Second /\ c * Second < deltaclock + Second
  BY <1>1, CeilingIsClose DEF CeilSecond
<1> HIDE DEF c, k
<1>5. /\ (c + 1) * Grid = c * Grid + Grid /\ (k + 1) * Grid = k * Grid + Grid
      /\ (k + 1) * Second = k * Second + Second /\ k * Second \in Nat
      /\ (k * Second) * Grid = (k * Grid) * Second
  BY <1>1, <1>2, <1>3
<1>6. k <= c
  <2>1. k * Grid < c * Grid + Grid
    BY <1>1, <1>2, <1>3
  <2> QED BY <1>1, <1>2, <1>3, <2>1, ProductOrder
<1>7. c <= k + 1
  <2>1. c * Grid < (k + 1) * Grid + Grid
    BY <1>1, <1>2, <1>3, <1>5
  <2> QED BY <1>1, <1>2, <1>3, <2>1, ProductOrder
<1>8. CASE c = k
  BY <1>8 DEF c, k
<1>9. CASE c = k + 1
  <2>1. k * Second < deltaclock
    BY <1>1, <1>4, <1>5, <1>9
  <2>2. (k * Second) * Grid < x
    BY <1>1, <1>5, <2>1, ProductOrder
  <2>3. d <= (k * Grid) * Second
    BY <1>1, <1>3, ProductOrder
  <2> DEFINE n == (k * Grid) * Second
  <2>4. n \in Int /\ n < x /\ d <= n
    BY <1>1, <1>3, <1>5, <2>2, <2>3
  <2>5. 2 * (x - n) <= Second
    <3> HIDE DEF d, x, n
    <3> QED BY <1>1, <2>4
  <2>6. JustPast(k * Grid)
    BY <2>4, <2>5 DEF JustPast
  <2> QED BY <1>5, <1>9, <2>6 DEF c, k
<1> QED BY <1>2, <1>3, <1>6, <1>7, <1>8, <1>9

\* The federates are told the time at which the run goes on, to a place of the
\* double-precision clock, and the second that delta_update returns or, just
\* past it, the one before (AnnouncedIsKept).
THEOREM DeltaAnnounced == Spec => []AnnouncedIsKept
<1>1. Inv => AnnouncedIsKept
  <2> SUFFICES ASSUME Inv PROVE AnnouncedIsKept
    OBVIOUS
  <2>1. /\ deltaclock \in Nat /\ told \in Nat /\ Grid \in Nat /\ Announcing
    BY DeltaAssumption DEF Inv, TypeOK
  <2>2. NearTold => told <= DoubleClock + 1 /\ DoubleClock <= told + 1
    BY <2>1, NearDouble
  <2>3. /\ CeilSecond(deltaclock) * Grid \in Nat /\ DoubleClock \in Nat
        /\ DoubleClock <= CeilSecond(deltaclock) * Grid
        /\ CeilSecond(deltaclock) * Grid <= DoubleClock + Grid
    BY <2>1, CeilSecondIsClose, DoubleIsClose
  <2>4. \/ CeilSecond(deltaclock) * Grid = NextSecond * Grid
        \/ /\ CeilSecond(deltaclock) * Grid = NextSecond * Grid + Grid
           /\ JustPast(NextSecond * Grid)
    BY <2>1, SecondTold
  <2>5. NextSecond * Grid \in Nat
    BY <2>1, NextSecondIsClose
  <2>6. pc \in {"objects", "modules"} /\ calm = 0 =>
            told <= DoubleClock + 1 /\ DoubleClock <= told + 1
    BY <2>1, <2>2 DEF Announcing
  <2>7. ASSUME pc = "done", elapsed # DT_INVALID
        PROVE  /\ calm = 0 => told <= elapsed * Grid + 1 /\ elapsed * Grid <= told + Grid + 1
               /\ ~OutOfTime =>
                      \/ elapsed * Grid = told
                      \/ elapsed * Grid = told + Grid /\ JustPast(told)
    <3>1. /\ elapsed = CeilSecond(deltaclock)
          /\ OutOfTime /\ calm = 0 => NearTold
          /\ ~OutOfTime => told = NextSecond * Grid
      BY <2>1, <2>7 DEF Announcing
    <3>2. elapsed * Grid = CeilSecond(deltaclock) * Grid
      BY <3>1
    <3>3. ~OutOfTime =>
              \/ elapsed * Grid = told
              \/ elapsed * Grid = told + Grid /\ JustPast(told)
      BY <2>4, <3>1, <3>2
    <3> DEFINE e == elapsed * Grid
    <3>4. e \in Nat /\ DoubleClock <= e /\ e <= DoubleClock + Grid
      BY <2>3, <3>2
    <3>5. ~OutOfTime => e = told \/ e = told + Grid
      BY <3>3
    <3>6. OutOfTime /\ calm = 0 => told <= DoubleClock + 1 /\ DoubleClock <= told + 1
      BY <2>2, <3>1
    <3>7. calm = 0 => told <= e + 1 /\ e <= told + Grid + 1
      <4> HIDE DEF e
      <4>1. CASE OutOfTime
        BY <2>1, <2>3, <3>4, <3>6, <4>1
      <4>2. CASE ~OutOfTime
        BY <2>1, <3>4, <3>5, <4>2
      <4> QED BY <4>1, <4>2
    <3> QED BY <3>3, <3>7
  <2> QED BY <2>6, <2>7 DEF AnnouncedIsKept
<1> QED BY Invariance, <1>1, PTL

\* Before it is out of time, deltamode is left after exactly the forced extra
\* steps, and never when it is forced to stay (ForcedStepsAreDone).
THEOREM DeltaForced == Spec => []ForcedStepsAreDone
<1>1. Inv => ForcedStepsAreDone
  BY DeltaAssumption DEF Inv, TypeOK, Counting, ForcedStepsAreDone
<1> QED BY Invariance, <1>1, PTL
=============================================================================
