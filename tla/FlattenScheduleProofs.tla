----------------------- MODULE FlattenScheduleProofs -----------------------
(***************************************************************************)
(* Proofs about the flatten controller's loop, for every calendar, every   *)
(* cadence and any number of days: no chain of sleeps oversleeps the close *)
(* window, an operator's flatten or an old position, and what survives the *)
(* close has raised the alarm by midnight.                                 *)
(*                                                                         *)
(* A tick knows the instant it began; unless the process was suspended     *)
(* today that is now, or midnight has just passed.  So a sleep is measured *)
(* from now: it is short, or it ends about when the counting begins.       *)
(***************************************************************************)
EXTENDS FlattenSchedule, FiniteSetTheorems, WellFoundedInduction, TLAPS

-----------------------------------------------------------------------------
(* The calendar.                                                            *)

LEMMA Constants ==
  /\ Days \in Nat \ {0} /\ DayLen \in Nat \ {0} /\ Open \in Nat \ {0} /\ Close \in Nat \ {0}
  /\ Early \in Nat \ {0} /\ Buffer \in Nat \ {0} /\ Grace \in Nat \ {0} /\ InWindow \in Nat \ {0}
  /\ TickNear \in Nat \ {0} /\ TickFar \in Nat \ {0} /\ Near \in Nat \ {0}
  /\ MaxErrors \in Nat /\ MaxTorn \in Nat /\ Notice \in Nat
  /\ Open < Early /\ Early <= Close /\ Close < DayLen /\ Open + Grace < Early - Buffer
  /\ InWindow < Buffer /\ InWindow <= TickFar /\ TickNear <= TickFar /\ Notice >= TickFar + Buffer
  /\ TickFar <= Open + InWindow /\ Close + InWindow * (MaxErrors + 1) < DayLen
  /\ Sessions \in SUBSET (1 .. Days) /\ Horizon \in Nat /\ Horizon <= Days * DayLen - 1
  <1>1. \A x \in {Days, DayLen, Open, Close, Early, Buffer} : x \in Nat \ {0}
    BY CalendarAssumption
  <1>2. \A x \in {Grace, InWindow, TickNear, TickFar, Near} : x \in Nat \ {0}
    BY CadenceAssumption
  <1>3. Days * DayLen \in Int
    BY <1>1
  <1> QED BY <1>1, <1>2, <1>3, CalendarAssumption, CadenceAssumption, NoticeAssumption, NightAssumption

(* Those a sleep is measured with.                                          *)
LEMMA Lengths ==
  /\ Open \in Nat /\ Close \in Nat /\ Early \in Nat /\ Buffer \in Nat /\ Grace \in Nat
  /\ InWindow \in Nat /\ TickFar \in Nat /\ 0 < Open /\ 0 < Grace /\ 0 < InWindow
  /\ Open < Early /\ Early <= Close /\ Open + Grace < Early - Buffer
  /\ InWindow < Buffer /\ InWindow <= TickFar /\ TickFar <= Open + InWindow
  BY Constants

LEMMA Split ==
  ASSUME NEW t \in Nat
  PROVE  /\ DayOf(t) \in Nat \ {0} /\ TimeOf(t) \in 0 .. DayLen - 1
         /\ t = (DayOf(t) - 1) * DayLen + TimeOf(t)
  BY CalendarAssumption DEF DayOf, TimeOf

LEMMA NextInstant ==
  ASSUME NEW t \in Nat
  PROVE  \/ DayOf(t + 1) = DayOf(t) /\ TimeOf(t + 1) = TimeOf(t) + 1
         \/ DayOf(t + 1) = DayOf(t) + 1 /\ TimeOf(t + 1) = 0 /\ TimeOf(t) = DayLen - 1
  <1> DEFINE p == t \div DayLen  q == t % DayLen
  <1>1. DayLen \in Nat /\ DayLen > 0
    BY Constants
  <1>2. p \in Nat /\ q \in 0 .. DayLen - 1 /\ t = p * DayLen + q
    BY <1>1
  <1>3. DayOf(t) = p + 1 /\ TimeOf(t) = q
    BY <1>1 DEF DayOf, TimeOf
  <1>4. CASE q < DayLen - 1
    <2>1. (t + 1) \div DayLen = p /\ (t + 1) % DayLen = q + 1
      BY <1>1, <1>2, <1>4
    <2> QED BY <1>3, <2>1 DEF DayOf, TimeOf
  <1>5. CASE q = DayLen - 1
    <2>1. (t + 1) \div DayLen = p + 1 /\ (t + 1) % DayLen = 0
      BY <1>1, <1>2, <1>5
    <2>2. DayOf(t + 1) = (p + 1) + 1 /\ TimeOf(t + 1) = 0
      BY <2>1 DEF DayOf, TimeOf
    <2> QED BY <1>3, <1>5, <2>2
  <1> QED BY <1>1, <1>2, <1>4, <1>5

LEMMA LaterDay ==
  ASSUME NEW s \in Nat, NEW t \in Nat, s <= t
  PROVE  DayOf(s) <= DayOf(t)
  BY CalendarAssumption DEF DayOf

LEMMA BeforeMidnight ==
  ASSUME NEW s \in Nat, NEW t \in Nat, s < t, TimeOf(t) = 0
  PROVE  DayOf(s) < DayOf(t)
  BY CalendarAssumption DEF DayOf, TimeOf

LEMMA SameDay ==
  ASSUME NEW s \in Nat, NEW t \in Nat, s <= t, DayOf(s) = DayOf(t)
  PROVE  TimeOf(s) <= TimeOf(t)
  BY CalendarAssumption DEF DayOf, TimeOf

LEMMA LastDay ==
  ASSUME NEW t \in Instants
  PROVE  DayOf(t) \in 1 .. Days
  BY CalendarAssumption DEF DayOf, Instants

(* The least of a nonempty set of numbers: the smallest interval up to one. *)
LEMMA LeastNat ==
  ASSUME NEW T \in SUBSET Nat, T # {}
  PROVE  \E n \in T : \A m \in T : n <= m
  <1> DEFINE S == FiniteSubsetsOf(Nat)
             R == StrictSubsetOrdering(Nat)
             C == {0 .. n : n \in T}
  <1>1. C # {} /\ C \in SUBSET S
    <2>1. \A n \in T : 0 .. n \subseteq Nat /\ IsFiniteSet(0 .. n)
      BY FS_Interval
    <2> QED BY <2>1 DEF FiniteSubsetsOf
  <1>2. IsWellFoundedOn(R, S)
    BY FS_StrictSubsetOrderingWellFounded
  <1>3. C = {0 .. n : n \in T}
    OBVIOUS
  <1> HIDE DEF C, R
  <1>4. PICK A \in C : \A U \in C : <<U, A>> \notin R
    BY <1>1, <1>2, WFMin
  <1>5. PICK n \in T : A = 0 .. n
    BY <1>3
  <1>6. ASSUME NEW m \in T, m < n
        PROVE  FALSE
    <2>1. 0 .. m \in C /\ 0 .. m \subseteq A
      BY <1>3, <1>5, <1>6
    <2>2. n \in A /\ n \notin 0 .. m
      BY <1>5, <1>6
    <2>3. 0 .. m \in S /\ A \in S
      BY <1>1, <2>1
    <2>4. <<0 .. m, A>> \in R
      BY <2>1, <2>2, <2>3 DEF R, StrictSubsetOrdering, FiniteSubsetsOf
    <2> QED BY <1>4, <2>1, <2>4
  <1> QED BY <1>6

LEMMA NextOpenType ==
  ASSUME NEW t \in Nat
  PROVE  next_open(t) \in Int
  <1> DEFINE later == {d \in Sessions : OpenOf(d) > t}
  <1>0. DayLen \in Int /\ Open \in Int /\ Sessions \in SUBSET (1 .. Days) /\ Days \in Int
    BY Constants
  <1>1. later \in SUBSET Nat /\ \A d \in Nat : OpenOf(d) \in Int
    <2>1. ASSUME NEW d \in Nat
          PROVE  OpenOf(d) \in Int
      <3> DEFINE base == (d - 1) * DayLen
      <3>1. base \in Int
        BY <1>0
      <3> HIDE DEF base
      <3>2. base + Open \in Int
        BY <1>0, <3>1
      <3> QED BY <3>2 DEF OpenOf, base
    <2>2. Sessions \in SUBSET Nat
      BY <1>0
    <2> QED BY <2>1, <2>2
  <1>2. Days * DayLen + Open \in Int
    BY Constants
  <1>3. CASE later = {}
    BY <1>2, <1>3 DEF next_open
  <1>4. CASE later # {}
    <2>1. \E d \in later : \A e \in later : d <= e
      BY <1>1, <1>4, LeastNat
    <2> DEFINE first == CHOOSE d \in later : \A e \in later : d <= e
    <2>2. first \in later
      BY <2>1
    <2>3. next_open(t) = OpenOf(first)
      BY <1>4 DEF next_open
    <2> HIDE DEF first
    <2> QED BY <1>1, <2>2, <2>3
  <1> QED BY <1>3, <1>4

(* A sleep never ends after the instant it leads to.                        *)
LEMMA SleepTowardIs ==
  ASSUME NEW target \in Int, clk.at \in Nat
  PROVE  /\ sleep_toward(target) \in Nat /\ sleep_toward(target) <= TickFar
         /\ target > clk.at => clk.at + sleep_toward(target) <= target
  <1> DEFINE remaining == target - clk.at
             half == remaining \div 2
  <1>1. remaining \in Int
    OBVIOUS
  <1>2. half \in Int /\ (remaining > 0 => half >= 0 /\ half <= remaining)
    <2> HIDE DEF remaining
    <2> QED BY <1>1
  <1>3. sleep_toward(target) =
          IF remaining <= 0 THEN InWindow
          ELSE IF remaining > Near THEN IF TickFar < half THEN TickFar ELSE half
          ELSE IF TickNear < (IF half < 1 THEN 1 ELSE half) THEN TickNear ELSE IF half < 1 THEN 1 ELSE half
    BY DEF sleep_toward
  <1> DEFINE n == sleep_toward(target)
  <1> HIDE DEF half, n
  <1>4. n \in Nat /\ n <= TickFar /\ (remaining > 0 => n <= remaining)
    <2> HIDE DEF remaining
    <2> QED BY <1>1, <1>2, <1>3, Constants DEF n
  <1> QED BY <1>4 DEF n

-----------------------------------------------------------------------------
(* What the properties count.                                               *)

LEMMA HistoryIs ==
  ASSUME history \in History
  PROVE  /\ history.slept \in BOOLEAN /\ history.torn \in BOOLEAN /\ history.errors \in 0 .. MaxErrors
         /\ history.leftover \in BOOLEAN /\ history.tended \in BOOLEAN /\ history.alarmed \in BOOLEAN
         /\ history.blind \in Nat /\ history.ignored \in Nat /\ history.riding \in Nat
         /\ Slack \in Nat /\ Slack <= InWindow * MaxErrors
         /\ history = [slept |-> history.slept, torn |-> history.torn, errors |-> history.errors,
                       leftover |-> history.leftover, tended |-> history.tended,
                       alarmed |-> history.alarmed,
                       blind |-> history.blind, ignored |-> history.ignored, riding |-> history.riding]
  <1>1. Slack \in Nat /\ Slack <= InWindow * MaxErrors
    <2>1. history.errors \in 0 .. MaxErrors
      BY DEF History
    <2> DEFINE e == history.errors
    <2> HIDE DEF e
    <2>2. e \in Nat /\ e <= MaxErrors /\ InWindow \in Nat /\ MaxErrors \in Nat
      BY <2>1, Constants DEF e
    <2>3. InWindow * e \in Nat /\ InWindow * e <= InWindow * MaxErrors
      BY <2>2
    <2> QED BY <2>3 DEF Slack, e
  <1> QED BY <1>1 DEF History

(* The book has been driven: nothing is counted any more.                   *)
LEMMA DrivenIs ==
  ASSUME history \in History, Driven
  PROVE  /\ history' \in History
         /\ history'.slept = history.slept /\ history'.torn = history.torn
         /\ history'.errors = history.errors /\ history'.leftover = history.leftover
         /\ history'.alarmed = history.alarmed /\ Slack' = Slack
         /\ history'.blind = 0 /\ history'.ignored = 0 /\ history'.riding = 0
         /\ history'.tended => history.tended \/ TimeOf(now) >= Open + Grace
  <1> DEFINE t == history.tended \/ TimeOf(now) >= Open + Grace
  <1>1. history' = [history EXCEPT !.blind = 0, !.ignored = 0, !.riding = 0, !.tended = t]
    BY Zenon DEF Driven
  <1>2. t \in BOOLEAN
    BY HistoryIs
  <1>3. t => history.tended \/ TimeOf(now) >= Open + Grace
    OBVIOUS
  <1> HIDE DEF t
  <1>4. /\ history' \in History /\ history'.tended = t
        /\ history'.slept = history.slept /\ history'.torn = history.torn
        /\ history'.errors = history.errors /\ history'.leftover = history.leftover
        /\ history'.alarmed = history.alarmed
        /\ history'.blind = 0 /\ history'.ignored = 0 /\ history'.riding = 0
    BY <1>1, <1>2, HistoryIs DEF History
  <1>5. Slack' = Slack
    BY <1>4 DEF Slack
  <1> QED BY <1>3, <1>4, <1>5

LEMMA ErrorIs ==
  ASSUME history \in History, history.errors < MaxErrors,
         history' = [history EXCEPT !.errors = @ + 1]
  PROVE  /\ history' \in History
         /\ history'.slept = history.slept /\ history'.torn = history.torn
         /\ history'.leftover = history.leftover /\ history'.tended = history.tended
         /\ history'.alarmed = history.alarmed
         /\ Slack' = Slack + InWindow
         /\ history'.blind = history.blind /\ history'.ignored = history.ignored
         /\ history'.riding = history.riding
  <1> DEFINE e == history.errors
             n == e + 1
  <1>1. e \in 0 .. MaxErrors /\ n \in 0 .. MaxErrors
    BY HistoryIs, Constants
  <1>2. history' = [history EXCEPT !.errors = n]
    BY Zenon
  <1> HIDE DEF n
  <1>3. /\ history' \in History /\ history'.errors = n
        /\ history'.slept = history.slept /\ history'.torn = history.torn
        /\ history'.leftover = history.leftover /\ history'.tended = history.tended
        /\ history'.alarmed = history.alarmed
        /\ history'.blind = history.blind /\ history'.ignored = history.ignored
        /\ history'.riding = history.riding
    BY <1>1, <1>2, HistoryIs DEF History
  <1>4. InWindow * n = InWindow * e + InWindow
    <2> HIDE DEF e
    <2> QED BY <1>1, Constants DEF n
  <1> QED BY <1>3, <1>4 DEF Slack

LEMMA AlarmIs ==
  ASSUME history \in History, NEW alarm \in BOOLEAN,
         history' = [history EXCEPT !.alarmed = alarm]
  PROVE  /\ history' \in History /\ history'.alarmed = alarm
         /\ history'.slept = history.slept /\ history'.torn = history.torn
         /\ history'.errors = history.errors /\ history'.leftover = history.leftover
         /\ history'.tended = history.tended /\ Slack' = Slack
         /\ history'.blind = history.blind /\ history'.ignored = history.ignored
         /\ history'.riding = history.riding
  BY HistoryIs DEF History, Slack

(* The rule has looked: what was carried in is gone, or the look was not of *)
(* today.                                                                   *)
LEMMA LookIs ==
  ASSUME history \in History, NEW held \in BOOLEAN,
         history' = [history EXCEPT !.leftover = held]
  PROVE  /\ history' \in History /\ history'.leftover = held
         /\ history'.slept = history.slept /\ history'.torn = history.torn
         /\ history'.errors = history.errors /\ history'.alarmed = history.alarmed
         /\ history'.tended = history.tended /\ Slack' = Slack
         /\ history'.blind = history.blind /\ history'.ignored = history.ignored
         /\ history'.riding = history.riding
  BY HistoryIs DEF History, Slack

(* How long an old position may ride.                                       *)
LEMMA TendedIs ==
  /\ TendedWithin \in Nat /\ InWindow <= TendedWithin /\ TendedWithin <= TickFar
  /\ ~history.tended => TendedWithin = TickFar
  BY Lengths DEF TendedWithin

(* A new day begins with nothing counted.                                   *)
LEMMA NewDayIs ==
  /\ NewDay \in History /\ ~NewDay.slept /\ ~NewDay.torn /\ NewDay.errors = 0
  /\ NewDay.leftover <=> opened # None
  /\ ~NewDay.tended /\ ~NewDay.alarmed /\ NewDay.blind = 0 /\ NewDay.ignored = 0 /\ NewDay.riding = 0
  <1> DEFINE c == opened # None
             d == [slept |-> FALSE, torn |-> FALSE, errors |-> 0, leftover |-> c, tended |-> FALSE,
                   alarmed |-> FALSE, blind |-> 0, ignored |-> 0, riding |-> 0]
  <1>1. NewDay = d
    BY Zenon DEF NewDay
  <1>2. c \in BOOLEAN /\ 0 \in 0 .. MaxErrors
    BY Constants
  <1> HIDE DEF c
  <1>3. /\ d.slept = FALSE /\ d.torn = FALSE /\ d.errors = 0 /\ d.leftover = c /\ d.tended = FALSE
        /\ d.alarmed = FALSE /\ d.blind = 0 /\ d.ignored = 0 /\ d.riding = 0
    BY Zenon
  <1>4. d \in History
    BY <1>2 DEF History
  <1> HIDE DEF d
  <1> QED BY <1>1, <1>3, <1>4 DEF c

LEMMA CountIs ==
  ASSUME NEW n \in Nat, NEW condition \in BOOLEAN
  PROVE  /\ Count(n, condition) \in Nat /\ Count(n, condition) <= n + 1
         /\ ~condition => Count(n, condition) = 0 \/ Count(n, condition) = n
  BY Constants DEF Count, Cap

-----------------------------------------------------------------------------
(* Time passes.                                                             *)

Riding ==
  /\ IsOpen(now) /\ ~InCloseWindow(now) /\ TimeOf(now) >= Open + Grace
  /\ exposed /\ opened < today

SameDayOn(suspended) ==
  /\ today' = today /\ TimeOf(now') = TimeOf(now) + 1 /\ liq' = liq /\ close' = close
  /\ history' \in History /\ Slack' = Slack
  /\ history'.leftover = history.leftover /\ history'.tended = history.tended
  /\ history'.alarmed = history.alarmed
  /\ history'.slept <=> suspended \/ history.slept
  /\ history'.torn <=> history.torn \/ (suspended /\ pc # "asleep")
  /\ history'.blind <= history.blind + 1 /\ history'.ignored <= history.ignored + 1
  /\ history'.riding <= history.riding + 1
  /\ history'.blind > 0 => ~history'.slept /\ InCloseWindow(now)
  /\ history'.ignored > 0 => ~history'.slept /\ IsOpen(now) /\ flattening
  /\ history'.riding > 0 => ~history'.slept /\ Riding

NextDay ==
  /\ today' = today + 1 /\ TimeOf(now') = 0 /\ TimeOf(now) = DayLen - 1
  /\ liq' = FALSE /\ close' = Close /\ history' = NewDay

LEMMA AdvanceIs ==
  ASSUME TypeOK, NEW suspended \in BOOLEAN, Advance(suspended)
  PROVE  now' = now + 1 /\ now' \in Instants /\ (SameDayOn(suspended) \/ NextDay)
  <1>1. now \in Nat /\ now' = now + 1 /\ now' \in Instants
    BY Constants DEF TypeOK, Advance, Instants
  <1>2. history \in History
    BY DEF TypeOK
  <1>3. CASE DayOf(now + 1) # DayOf(now)
    <2>1. history' = NewDay /\ liq' = FALSE /\ close' = Close
      BY <1>3 DEF Advance
    <2>2. DayOf(now + 1) = DayOf(now) + 1 /\ TimeOf(now + 1) = 0 /\ TimeOf(now) = DayLen - 1
      BY <1>1, <1>3, NextInstant
    <2> QED BY <1>1, <2>1, <2>2 DEF NextDay, today
  <1>4. CASE DayOf(now + 1) = DayOf(now)
    <2> DEFINE awake == ~suspended /\ ~history.slept
               a == ~awake
               t == history.torn \/ (suspended /\ pc # "asleep")
               cb == awake /\ InCloseWindow(now)
               ci == awake /\ IsOpen(now) /\ flattening /\ exposed /\ ~liq
               cr == /\ awake /\ IsOpen(now) /\ ~InCloseWindow(now)
                     /\ TimeOf(now) >= Open + Grace
                     /\ exposed /\ opened < DayOf(now) /\ ~liq
               b == Count(history.blind, cb)
               i == Count(history.ignored, ci)
               s == Count(history.riding, cr)
    <2>1. history' = [history EXCEPT !.slept = a, !.torn = t, !.blind = b, !.ignored = i, !.riding = s]
      BY <1>4, Zenon DEF Advance
    <2>2. liq' = liq /\ close' = close
      BY <1>4 DEF Advance
    <2>3. TimeOf(now + 1) = TimeOf(now) + 1
      BY <1>1, <1>4, NextInstant, Split
    <2>4. a \in BOOLEAN /\ t \in BOOLEAN /\ cb \in BOOLEAN /\ ci \in BOOLEAN /\ cr \in BOOLEAN
      BY <1>2, HistoryIs
    <2>5. (a <=> suspended \/ history.slept) /\ (t <=> history.torn \/ (suspended /\ pc # "asleep"))
      BY <1>2, HistoryIs
    <2>6. /\ cb => ~a /\ InCloseWindow(now)
          /\ ci => ~a /\ IsOpen(now) /\ flattening
          /\ cr => ~a /\ Riding
      BY DEF Riding, today
    <2> HIDE DEF a, t, cb, ci, cr
    <2>7. /\ b \in Nat /\ b <= history.blind + 1 /\ (~cb => b = 0)
          /\ i \in Nat /\ i <= history.ignored + 1 /\ (~ci => i = 0)
          /\ s \in Nat /\ s <= history.riding + 1 /\ (~cr => s = 0)
      <3>1. ASSUME NEW n \in Nat, NEW c \in BOOLEAN
            PROVE  Count(n, c) \in Nat /\ Count(n, c) <= n + 1 /\ (~c => Count(n, c) = 0)
        BY Constants DEF Count, Cap
      <3> QED BY <1>2, <2>4, <3>1, HistoryIs
    <2> HIDE DEF b, i, s
    <2> DEFINE h == [history EXCEPT !.slept = a, !.torn = t, !.blind = b, !.ignored = i, !.riding = s]
    <2>8. /\ h.slept = a /\ h.torn = t
      BY <1>2, HistoryIs, Zenon DEF History
    <2>9. /\ h.blind = b /\ h.ignored = i /\ h.riding = s /\ h.errors = history.errors
          /\ h.leftover = history.leftover /\ h.tended = history.tended /\ h.alarmed = history.alarmed
      BY <1>2, HistoryIs DEF History
    <2>10. h \in History
      BY <1>2, <2>4, <2>7 DEF History
    <2> HIDE DEF h
    <2>11. history' = h
      BY <2>1 DEF h
    <2>12. /\ history'.slept <=> suspended \/ history.slept
           /\ history'.torn <=> history.torn \/ (suspended /\ pc # "asleep")
      BY <2>5, <2>8, <2>11
    <2>13. /\ history'.blind > 0 => ~history'.slept /\ InCloseWindow(now)
           /\ history'.ignored > 0 => ~history'.slept /\ IsOpen(now) /\ flattening
           /\ history'.riding > 0 => ~history'.slept /\ Riding
      BY <2>6, <2>7, <2>8, <2>9, <2>11
    <2> QED BY <1>1, <1>4, <2>2, <2>3, <2>7, <2>9, <2>10, <2>11, <2>12, <2>13 DEF SameDayOn, Slack, today
  <1> QED BY <1>1, <1>3, <1>4

LEMMA Numbers ==
  ASSUME TypeOK
  PROVE  /\ now \in Nat /\ today \in Nat \ {0} /\ TimeOf(now) \in Nat /\ TimeOf(now) < DayLen
         /\ close \in Nat /\ Early <= close /\ close <= Close
         /\ opened \in Int /\ lot \in Int /\ left \in Nat
         /\ clk.at \in Nat /\ clk.close \in {Early, Close}
         /\ cache[1] \in Nat /\ cache[2] \in {Early, Close} /\ snapshot[1] \in Nat
         /\ fired \in Nat /\ checked \in Nat
         /\ history \in History
         /\ history.blind \in Nat /\ history.ignored \in Nat /\ history.riding \in Nat /\ Slack \in Nat
  <1>1. now \in Nat /\ history \in History /\ clk.at \in Nat /\ clk.close \in {Early, Close} /\ left \in Nat
    BY Constants DEF TypeOK, Instants, Clock
  <1>2. today \in Nat \ {0} /\ TimeOf(now) \in Nat /\ TimeOf(now) < DayLen
    <2>1. DayOf(now) \in Nat \ {0} /\ TimeOf(now) \in 0 .. DayLen - 1
      BY <1>1, Split
    <2>2. DayLen \in Nat
      BY Constants
    <2> QED BY <2>1, <2>2 DEF today
  <1>3. close \in Nat /\ Early <= close /\ close <= Close
    BY Constants DEF TypeOK
  <1>4. /\ opened \in Int /\ lot \in Int /\ fired \in Nat /\ checked \in Nat
    BY Constants DEF TypeOK, None
  <1>5. cache[1] \in Nat /\ cache[2] \in {Early, Close} /\ snapshot[1] \in Nat
    BY Constants DEF TypeOK
  <1> QED BY <1>1, <1>2, <1>3, <1>4, <1>5, HistoryIs

(* At midnight a sleep ends in time, whatever it is.                        *)
LEMMA AtMidnight ==
  ASSUME TimeOf(now') = 0, left' \in Nat, left' <= TickFar, close' \in {Early, Close}, Slack' \in Nat,
         checked' # today', history'.blind = 0, history'.ignored = 0, history'.riding = 0,
         TendedWithin' = TickFar
  PROVE  SleepInv'
  <1> DEFINE n == left'
             s == Slack'
             c == close'
  <1>1. n \in Nat /\ n <= TickFar /\ s \in Nat /\ c \in {Early, Close}
    OBVIOUS
  <1> HIDE DEF n, s, c
  <1>2. /\ 0 <= c - Buffer /\ 0 + n <= c - Buffer + InWindow
        /\ 0 <= Open /\ 0 + n <= Open + InWindow
        /\ 0 + n <= TickFar + s /\ 0 + n <= Close + InWindow + s
    BY <1>1, Lengths
  <1>3. Before(close - Buffer)' /\ Before(Open)'
    BY <1>2 DEF Before, n, c
  <1> QED BY <1>2, <1>3 DEF SleepInv, n, s

LEMMA AdvanceInv ==
  ASSUME IInv, NEW suspended \in BOOLEAN, Advance(suspended), left' \in Nat,
         UNCHANGED <<opened, lot, flattening, pc, wake, clk, memory>>,
         suspended => left' = left,
         ~suspended => pc = "asleep" /\ left > 0 /\ ~wake /\ left' = left - 1
  PROVE  IInv'
  <1>1. TypeOK /\ TickInv /\ BookInv /\ Counts /\ SleepInv
    BY DEF IInv
  <1>2. now' = now + 1 /\ now' \in Instants /\ (SameDayOn(suspended) \/ NextDay)
    BY <1>1, AdvanceIs
  <1>3. TypeOK'
    <2>1. history' \in History
      BY <1>2, NewDayIs DEF SameDayOn, NextDay
    <2>2. liq' \in BOOLEAN /\ close' \in {Early, Close}
      BY <1>1, <1>2 DEF SameDayOn, NextDay, TypeOK
    <2> QED BY <1>1, <1>2, <2>1, <2>2 DEF TypeOK, memory
  <1>4. left' <= TickFar
    BY <1>1, Numbers, Constants DEF TickInv
  <1>5. UNCHANGED <<opened, lot, flattening, pc, wake, clk, cache, snapshot, fired, checked>>
    BY DEF memory
  <1>6. CASE NextDay
    <2>1. /\ today' = today + 1 /\ TimeOf(now') = 0 /\ close' = Close /\ history' = NewDay
          /\ ~history'.slept /\ ~history'.torn /\ (history'.leftover <=> opened # None)
          /\ ~history'.tended /\ history'.blind = 0 /\ history'.ignored = 0 /\ history'.riding = 0
      BY <1>6, NewDayIs DEF NextDay
    <2>2. TickInv'
      <3>1. pc # "asleep" => suspended /\ left' = 0 /\ clk.at < now'
        BY <1>1, <1>2, Numbers DEF TickInv
      <3>2. cache[1] < today'
        BY <1>1, <2>1, Numbers DEF TickInv
      <3>3. cache[1] \in Nat /\ today' \in Nat /\ clk.at \in Nat /\ now' \in Nat
        BY <1>1, <1>2, <2>1, Numbers
      <3> QED BY <1>1, <1>4, <1>5, <2>1, <3>1, <3>2, <3>3 DEF TickInv, date
    <2>3. BookInv'
      <3>1. /\ opened < today' /\ lot < today' /\ snapshot[1] < today' /\ fired < today' /\ checked < today'
        BY <1>1, <2>1, Numbers DEF BookInv
      <3>2. /\ opened \in Int /\ lot \in Int /\ snapshot[1] \in Int /\ fired \in Int /\ checked \in Int
            /\ today' \in Int
        BY <1>1, <2>1, Numbers
      <3> QED BY <1>5, <2>1, <3>1, <3>2 DEF BookInv, Old, exposed
    <2>4. Slack' = 0
      BY <1>6, NewDayIs, Constants DEF NextDay, Slack
    <2>5. Counts' /\ TendedWithin' = TickFar
      <3>1. 0 <= InWindow + 0 /\ 0 <= TickFar + 0 /\ ~(0 > 0)
        BY Constants
      <3>2. TendedWithin' = TickFar
        BY <2>1 DEF TendedWithin
      <3> QED BY <2>1, <2>4, <3>1, <3>2 DEF Counts
    <2>6. SleepInv'
      <3>1. checked' # today'
        BY <1>1, <1>5, <2>1, Numbers DEF BookInv
      <3> QED BY <1>3, <1>4, <2>1, <2>4, <2>5, <3>1, AtMidnight DEF TypeOK
    <2> QED BY <1>3, <2>2, <2>3, <2>5, <2>6 DEF IInv
  <1>7. CASE SameDayOn(suspended)
    <2>1. /\ today' = today /\ TimeOf(now') = TimeOf(now) + 1 /\ close' = close /\ Slack' = Slack
          /\ history'.leftover = history.leftover /\ history'.tended = history.tended
          /\ history'.alarmed = history.alarmed /\ TendedWithin' = TendedWithin
          /\ history'.slept <=> suspended \/ history.slept
          /\ history'.torn <=> history.torn \/ (suspended /\ pc # "asleep")
          /\ InSession(now') <=> InSession(now)
      BY <1>7 DEF SameDayOn, today, InSession, TendedWithin
    <2>2. TickInv'
      <3>1. pc # "asleep" => suspended /\ left' = 0 /\ clk.at < now' /\ history'.torn
        BY <1>1, <1>2, <2>1, Numbers DEF TickInv
      <3>2. clk.at \in Nat /\ now' \in Nat
        BY <1>1, <1>2, Numbers
      <3> QED BY <1>1, <1>4, <1>5, <2>1, <3>1, <3>2 DEF TickInv, date
    <2>3. BookInv'
      <3>1. TimeOf(now) \in Nat
        BY <1>1, Numbers
      <3> QED BY <1>1, <1>5, <2>1, <3>1, Constants DEF BookInv, Old, exposed
    <2>4. /\ history'.blind \in Nat /\ history'.ignored \in Nat /\ history'.riding \in Nat
          /\ history'.blind <= history.blind + 1 /\ history'.ignored <= history.ignored + 1
          /\ history'.riding <= history.riding + 1
          /\ history'.blind > 0 => ~history'.slept /\ InCloseWindow(now)
          /\ history'.ignored > 0 => ~history'.slept /\ IsOpen(now) /\ flattening
          /\ history'.riding > 0 => ~history'.slept /\ Riding
      BY <1>7 DEF SameDayOn, History
    <2>5. /\ InCloseWindow(now) => IsOpen(now) /\ TimeOf(now) >= close - Buffer
          /\ Riding => IsOpen(now) /\ TimeOf(now) >= Open + Grace /\ Old
          /\ IsOpen(now) => InSession(now) /\ Open <= TimeOf(now) /\ TimeOf(now) < close
      BY DEF InCloseWindow, IsOpen, Riding, Old
    <2> DEFINE T == TimeOf(now)
               bb == history.blind
               ii == history.ignored
               rr == history.riding
               bn == history'.blind
               in == history'.ignored
               rn == history'.riding
               B == TendedWithin
    <2>6. /\ B \in Nat /\ T \in Nat /\ close \in Nat /\ Early <= close /\ close <= Close /\ left \in Nat /\ Slack \in Nat
          /\ bb \in Nat /\ ii \in Nat /\ rr \in Nat
      BY <1>1, Numbers, TendedIs
    <2>7. CASE suspended \/ history.slept \/ ~InSession(now)
      <3>1. bn = 0 /\ in = 0 /\ rn = 0
        <4>1. ~(bn > 0) /\ ~(in > 0) /\ ~(rn > 0)
          BY <2>1, <2>4, <2>5, <2>7
        <4> QED BY <2>4, <4>1
      <3>2. Counts'
        <4>1. history'.tended => T + 1 >= Open + Grace
          <5>1. history.tended => T >= Open + Grace
            BY <1>1 DEF Counts
          <5> HIDE DEF T
          <5> QED BY <2>1, <2>6, <5>1, Lengths
        <4>2. TendedWithin' + Slack' \in Nat
          BY <2>1, <2>6
        <4> QED BY <2>1, <2>6, <3>1, <4>1, <4>2, Constants DEF Counts
      <3>3. SleepInv'
        BY <2>1, <2>7 DEF SleepInv
      <3> QED BY <1>3, <2>2, <2>3, <3>2, <3>3 DEF IInv
    <2>8. CASE ~suspended /\ ~history.slept /\ InSession(now)
      <3>1. left > 0 /\ ~wake /\ left' = left - 1 /\ wake' = wake /\ flattening' = flattening
        BY <1>5, <2>8
      <3>2. /\ bb + left <= InWindow + Slack \/ Before(close - Buffer) \/ T >= close
            /\ ii + left <= InWindow + Slack \/ ~flattening \/ Before(Open) \/ T >= close
            /\ rr + left <= B + Slack \/ ~Old \/ T >= close
            /\ T + left <= Close + InWindow + Slack \/ (T >= close /\ (exposed => history.alarmed))
            /\ checked = today => T >= close /\ (exposed => history.alarmed)
        BY <1>1, <2>8, <3>1 DEF SleepInv, Closed, Alarmed
      <3>3. /\ bb > 0 => T > close - Buffer
            /\ ii > 0 => T > Open
            /\ rr > 0 => T > Open + Grace
            /\ bb <= InWindow + Slack /\ ii <= InWindow + Slack /\ rr <= B + Slack
            /\ history.tended => T >= Open + Grace
        BY <1>1 DEF Counts
      <3>4. Old' = Old /\ exposed' = exposed
        BY <1>5, <2>1 DEF Old, exposed
      <3> HIDE DEF T, bb, ii, rr, bn, in, rn, B
      <3>5. /\ bn > 0 => T >= close - Buffer /\ T < close
            /\ bn <= InWindow + Slack
            /\ \/ bn + (left - 1) <= InWindow + Slack
               \/ T + 1 <= close - Buffer /\ T + 1 + (left - 1) <= close - Buffer + InWindow
               \/ T + 1 >= close
        <4>1. bn > 0 => T >= close - Buffer /\ T < close
          BY <2>4, <2>5 DEF bn, T
        <4>2. bn \in Nat /\ bn <= bb + 1
          BY <2>4 DEF bn, bb
        <4>3. \/ bb + left <= InWindow + Slack
              \/ T <= close - Buffer /\ T + left <= close - Buffer + InWindow
              \/ T >= close
          BY <3>2 DEF Before, T
        <4> QED BY <2>6, <3>1, <3>3, <4>1, <4>2, <4>3, Constants
      <3>6. /\ in > 0 => T >= Open /\ T < close
            /\ in <= InWindow + Slack
            /\ \/ in + (left - 1) <= InWindow + Slack \/ ~flattening
               \/ T + 1 <= Open /\ T + 1 + (left - 1) <= Open + InWindow
               \/ T + 1 >= close
        <4>1. in > 0 => T >= Open /\ T < close /\ flattening
          BY <2>4, <2>5 DEF in, T
        <4>2. in \in Nat /\ in <= ii + 1
          BY <2>4 DEF in, ii
        <4>3. \/ ii + left <= InWindow + Slack \/ ~flattening
              \/ T <= Open /\ T + left <= Open + InWindow
              \/ T >= close
          BY <3>2 DEF Before, T
        <4> QED BY <2>6, <3>1, <3>3, <4>1, <4>2, <4>3, Constants
      <3>7. /\ rn > 0 => T >= Open + Grace /\ T < close
            /\ rn <= B + Slack
            /\ rn + (left - 1) <= B + Slack \/ ~Old \/ T + 1 >= close
        <4>1. rn > 0 => T >= Open + Grace /\ T < close /\ Old
          BY <2>4, <2>5 DEF rn, T
        <4>2. rn \in Nat /\ rn <= rr + 1
          BY <2>4 DEF rn, rr
        <4> QED BY <2>6, <3>1, <3>2, <3>3, <4>1, <4>2, Constants
      <3>8. Counts'
        <4>1. /\ bn > 0 => T + 1 > close - Buffer
              /\ in > 0 => T + 1 > Open
              /\ rn > 0 => T + 1 > Open + Grace
              /\ history.tended => T + 1 >= Open + Grace
          BY <2>6, <3>3, <3>5, <3>6, <3>7, Constants
        <4> QED BY <2>1, <2>8, <3>5, <3>6, <3>7, <4>1 DEF Counts, bn, in, rn, T, B
      <3>9. SleepInv'
        <4>1. T + 1 + (left - 1) = T + left /\ (T >= close => T + 1 >= close)
          BY <2>6
        <4>2. /\ bn + left' <= InWindow + Slack' \/ Before(close - Buffer)' \/ Closed'
          BY <2>1, <3>1, <3>5 DEF Before, Closed, bn, T
        <4>3. in + left' <= InWindow + Slack' \/ wake' \/ ~flattening' \/ Before(Open)' \/ Closed'
          BY <2>1, <3>1, <3>6 DEF Before, Closed, in, T
        <4>4. rn + left' <= TendedWithin' + Slack' \/ ~Old' \/ Closed'
          BY <2>1, <3>1, <3>4, <3>7 DEF Closed, rn, T, B
        <4>5. TimeOf(now') + left' <= Close + InWindow + Slack' \/ Alarmed'
          BY <2>1, <3>1, <3>2, <3>4, <4>1 DEF Alarmed, Closed, T
        <4>6. checked' = today' => Alarmed'
          BY <1>5, <2>1, <3>2, <3>4, <4>1 DEF Alarmed, Closed, T
        <4> QED BY <4>2, <4>3, <4>4, <4>5, <4>6 DEF SleepInv, bn, in, rn
      <3> QED BY <1>3, <2>2, <2>3, <3>8, <3>9 DEF IInv
    <2> QED BY <2>7, <2>8
  <1> QED BY <1>2, <1>6, <1>7

-----------------------------------------------------------------------------
(* The world's other steps.                                                 *)

LEMMA AmendCloseInv ==
  ASSUME IInv, AmendClose
  PROVE  IInv'
  <1>1. TypeOK /\ TickInv /\ BookInv /\ Counts /\ SleepInv
    BY DEF IInv
  <1>2. /\ InSession(now) /\ TimeOf(now) + Notice <= Early /\ close' = Early
        /\ UNCHANGED <<now, opened, lot, liq, flattening, pc, left, wake, clk, cache, snapshot, fired,
                       checked, history>>
    BY DEF AmendClose, loop, memory
  <1>3. /\ TimeOf(now) \in Nat /\ close \in Nat /\ Early <= close /\ left \in Nat /\ left <= TickFar
        /\ Notice \in Nat /\ Notice >= TickFar + Buffer
    <2>1. Notice \in Nat /\ Notice >= TickFar + Buffer
      BY Constants
    <2> QED BY <1>1, <2>1, Numbers DEF TickInv
  <1>4. /\ TimeOf(now) < Early /\ TimeOf(now) < close /\ TimeOf(now) <= Early - Buffer
        /\ ~(TimeOf(now) > close - Buffer) /\ TimeOf(now) + left <= Early - Buffer + InWindow
    <2> DEFINE T == TimeOf(now)
    <2>1. T \in Nat /\ T + Notice <= Early
      BY <1>2, <1>3
    <2> HIDE DEF T
    <2>2. /\ T < Early /\ T < close /\ T <= Early - Buffer
          /\ ~(T > close - Buffer) /\ T + left <= Early - Buffer + InWindow
      BY <1>3, <2>1, Lengths
    <2> QED BY <2>2 DEF T
  <1>5. TypeOK'
    BY <1>1, <1>2, Constants DEF TypeOK
  <1>6. TickInv'
    <2>1. IsOpen(now)' = IsOpen(now) /\ today' = today /\ date' = date
      <3>1. IsOpen(now)' = (InSession(now) /\ Open <= TimeOf(now) /\ TimeOf(now) < close')
        BY <1>2 DEF IsOpen, InSession
      <3>2. TimeOf(now) < close'
        BY <1>2, <1>4
      <3> QED BY <1>2, <1>4, <3>1, <3>2 DEF IsOpen, today, date
    <2>2. Early <= cache[2]
      BY <1>1, Numbers, Lengths
    <2>3. pc # "asleep" /\ clk.at = now => /\ clk.open = IsOpen(now)
                                          /\ \/ clk.close = Early
                                             \/ clk.close = Close /\ TimeOf(now) + Notice <= Early
      <3>1. clk.close \in {Early, Close}
        BY <1>1, Numbers
      <3> QED BY <1>1, <1>2, <3>1 DEF TickInv
    <2>4. (clk.at = now)' <=> clk.at = now
      BY <1>2
    <2>5. /\ pc' # "asleep" /\ clk'.at = now' => /\ clk'.open = IsOpen(now)'
                                                /\ \/ clk'.close = close'
                                                   \/ clk'.close = Close /\ TimeOf(now') + Notice <= Early
          /\ cache'[1] <= today' /\ (cache'[1] = today' => close' <= cache'[2])
      BY <1>1, <1>2, <2>1, <2>2, <2>3 DEF TickInv
    <2>6. /\ history'.torn => history'.slept
          /\ left' <= TickFar
          /\ pc' # "asleep" =>
               /\ left' = 0 /\ clk'.at <= now'
               /\ history'.torn \/ clk'.at = now' \/ (clk'.at < now' /\ TimeOf(now') = 0)
               /\ date' \in Sessions => cache'[1] = date'
               /\ snapshot'[1] <= date'
          /\ pc' = "rules" => ~flattening' \/ wake' \/ ~clk'.open
      BY <1>1, <1>2, <2>1 DEF TickInv
    <2> QED BY <2>5, <2>6 DEF TickInv
  <1>7. BookInv'
    BY <1>1, <1>2 DEF BookInv, today, Old, exposed, InSession
  <1>8. history.blind = 0
    <2>1. ~(history.blind > 0) /\ history.blind \in Nat
      BY <1>1, <1>4, Numbers DEF Counts
    <2> QED BY <2>1
  <1>9. Counts' /\ Slack' = Slack
    <2>1. ~(history.blind > 0)
      BY <1>8
    <2> QED BY <1>1, <1>2, <2>1 DEF Counts, Slack, InSession, TendedWithin
  <1>10. SleepInv'
    <2>1. ~Closed
      BY <1>3, <1>4 DEF Closed
    <2>2. Before(close - Buffer)'
      BY <1>2, <1>4 DEF Before
    <2>3. Before(Open)' <=> Before(Open)
      BY <1>2 DEF Before
    <2> QED BY <1>1, <1>2, <1>9, <2>1, <2>2, <2>3
            DEF SleepInv, Alarmed, Old, exposed, today, InSession, TendedWithin
  <1> QED BY <1>5, <1>6, <1>7, <1>9, <1>10 DEF IInv

(* The position changes hands, or the database catches up.                  *)
LEMMA PositionInv ==
  ASSUME IInv, EntryFills \/ ExitFills \/ BookLot \/ LiquidationEnds
  PROVE  IInv'
  <1>1. TypeOK /\ TickInv /\ BookInv /\ Counts /\ SleepInv
    BY DEF IInv
  <1>2. UNCHANGED <<now, close, flattening, pc, left, wake, clk, cache, snapshot, fired, checked, history>>
    BY DEF EntryFills, ExitFills, BookLot, LiquidationEnds, loop, memory
  <1>3. /\ opened \in Int /\ lot \in Int /\ today \in Nat /\ None \in Int /\ today # None /\ None < today
        /\ TimeOf(now) \in Nat /\ close \in Nat
    BY <1>1, Numbers DEF None
  <1>4. \/ lot' = lot /\ opened = None /\ opened' = today /\ IsOpen(now)
        \/ lot' = opened /\ opened' = opened
        \/ lot' = lot /\ opened' = opened
        \/ lot' = lot /\ opened' = None
    BY DEF EntryFills, ExitFills, BookLot, LiquidationEnds, today
  <1>5. TypeOK'
    <2>1. liq' \in BOOLEAN
      BY <1>1 DEF EntryFills, ExitFills, BookLot, LiquidationEnds, TypeOK
    <2>2. today \in 0 .. Days
      BY <1>1, LastDay DEF TypeOK, today
    <2>3. opened' \in {None} \cup 0 .. Days /\ lot' \in {None} \cup 0 .. Days
      BY <1>1, <1>4, <2>2 DEF TypeOK
    <2> QED BY <1>1, <1>2, <2>1, <2>3 DEF TypeOK
  <1>6. TickInv'
    BY <1>1, <1>2 DEF TickInv, today, date, IsOpen, InSession
  <1>7. IsOpen(now) => InSession(now) /\ TimeOf(now) >= Open /\ ~Closed
    BY <1>3 DEF IsOpen, Closed
  <1>8. today' = today /\ (Old' => Old) /\ (exposed' => exposed \/ IsOpen(now))
    <2>1. today' = today
      BY <1>2 DEF today
    <2> QED BY <1>3, <1>4, <2>1 DEF Old, exposed
  <1>9. BookInv'
    <2>1. /\ opened' <= today /\ lot' <= today
          /\ lot' = today => opened' \in {None, today}
          /\ opened' = today => InSession(now) /\ TimeOf(now) >= Open
      BY <1>1, <1>3, <1>4, <1>7 DEF BookInv
    <2> QED BY <1>1, <1>2, <1>8, <2>1 DEF BookInv, InSession
  <1>10. Counts' /\ Slack' = Slack
    BY <1>1, <1>2 DEF Counts, Slack, InSession, TendedWithin
  <1>11. SleepInv'
    <2>1. /\ Before(close - Buffer)' <=> Before(close - Buffer)
          /\ Before(Open)' <=> Before(Open)
          /\ Closed' <=> Closed
      BY <1>2 DEF Before, Closed
    <2>2. Alarmed => Alarmed'
      BY <1>2, <1>7, <1>8, <2>1 DEF Alarmed
    <2> QED BY <1>1, <1>2, <1>8, <1>10, <2>1, <2>2 DEF SleepInv, InSession, TendedWithin
  <1> QED BY <1>5, <1>6, <1>9, <1>10, <1>11 DEF IInv

LEMMA ApplyFlattenInv ==
  ASSUME IInv, ApplyFlatten
  PROVE  IInv'
  <1>1. TypeOK /\ TickInv /\ BookInv /\ Counts /\ SleepInv
    BY DEF IInv
  <1>2. /\ wake' /\ wake' \in BOOLEAN /\ flattening' \in BOOLEAN
        /\ UNCHANGED <<now, close, opened, lot, liq, pc, left, clk, cache, snapshot, fired, checked, history>>
    BY DEF ApplyFlatten, world, memory
  <1>3. TypeOK'
    BY <1>1, <1>2 DEF TypeOK
  <1>4. TickInv'
    BY <1>1, <1>2 DEF TickInv, today, date, IsOpen, InSession
  <1>5. BookInv'
    BY <1>1, <1>2 DEF BookInv, today, Old, exposed, InSession
  <1>6. Counts' /\ Slack' = Slack
    BY <1>1, <1>2 DEF Counts, Slack, InSession, TendedWithin
  <1>7. SleepInv'
    <2>1. /\ Before(close - Buffer)' <=> Before(close - Buffer)
          /\ Closed' <=> Closed
      BY <1>2 DEF Before, Closed
    <2>2. exposed' <=> exposed
      BY <1>2 DEF exposed
    <2>3. today' = today /\ InSession(now)' = InSession(now) /\ history' = history
      BY <1>2 DEF today, InSession
    <2>4. Alarmed' <=> Alarmed
      BY <2>1, <2>2, <2>3 DEF Alarmed
    <2>5. Old' <=> Old
      BY <1>2, <2>2, <2>3 DEF Old
    <2> QED BY <1>1, <1>2, <1>6, <2>1, <2>3, <2>4, <2>5 DEF SleepInv, TendedWithin
  <1> QED BY <1>3, <1>4, <1>5, <1>6, <1>7 DEF IInv

-----------------------------------------------------------------------------
(* The loop.                                                                *)

(* Nothing is slept: what was counted is counted.                           *)
LEMMA NoSleep ==
  ASSUME TypeOK, Counts, SleepInv, left' = 0, Counts', Slack' = Slack,
         UNCHANGED <<now, close, opened, history>>, checked' = checked \/ checked' = 0
  PROVE  SleepInv'
  <1> SUFFICES ASSUME InSession(now), ~history.slept
               PROVE  SleepInv'
    BY DEF SleepInv, InSession
  <1>1. today' = today /\ TimeOf(now') = TimeOf(now) /\ (Alarmed' <=> Alarmed)
    BY DEF today, Alarmed, Closed, exposed
  <1> DEFINE b == history.blind
             i == history.ignored
             q == history.riding
             T == TimeOf(now)
  <1>2. b \in Nat /\ i \in Nat /\ q \in Nat /\ Slack \in Nat /\ T \in Nat /\ left \in Nat
    BY Numbers
  <1>0. TendedWithin' = TendedWithin
    BY DEF TendedWithin
  <1>3. /\ b <= InWindow + Slack /\ i <= InWindow + Slack /\ q <= TendedWithin + Slack
        /\ T + left <= Close + InWindow + Slack \/ Alarmed
    BY DEF Counts, SleepInv
  <1>4. today # 0
    BY Numbers
  <1>5. checked' = today' => Alarmed'
    BY <1>1, <1>4 DEF SleepInv
  <1>6. T + 0 <= Close + InWindow + Slack \/ Alarmed
    <2> HIDE DEF T
    <2> QED BY <1>2, <1>3, Lengths
  <1>7. b + 0 = b /\ i + 0 = i /\ q + 0 = q
    <2> HIDE DEF b, i, q
    <2> QED BY <1>2
  <1>8. /\ history'.blind + left' <= InWindow + Slack'
        /\ history'.ignored + left' <= InWindow + Slack'
        /\ history'.riding + left' <= TendedWithin' + Slack'
    BY <1>0, <1>3, <1>7
  <1>9. TimeOf(now') + left' <= Close + InWindow + Slack' \/ Alarmed'
    BY <1>1, <1>6
  <1> QED BY <1>5, <1>8, <1>9 DEF SleepInv

LEMMA StartTickInv ==
  ASSUME IInv, StartTick
  PROVE  IInv'
  <1>1. TypeOK /\ TickInv /\ BookInv /\ Counts /\ SleepInv
    BY DEF IInv
  <1> DEFINE open == IsOpen(now)
             new == [at |-> now, open |-> open, close |-> close]
  <1>2. /\ pc' = "kill" /\ wake' = FALSE /\ left' = 0 /\ clk' = new
        /\ cache' = IF InSession(now) /\ cache[1] # today THEN <<today, close>> ELSE cache
        /\ UNCHANGED <<now, close, opened, lot, liq, flattening, snapshot, fired, checked, history>>
    BY DEF StartTick, world, today
  <1>3. open \in BOOLEAN /\ now \in Instants /\ close \in {Early, Close} /\ now \in Nat
    BY <1>1, Numbers DEF TypeOK, IsOpen, InSession
  <1>4. new.open = open
    BY Zenon
  <1>5. new \in Clock /\ new.at = now /\ new.close = close
    <2> HIDE DEF open
    <2> QED BY <1>3 DEF Clock
  <1>6. cache' \in (0 .. Days) \X {Early, Close}
    <2>1. today \in 0 .. Days
      BY <1>1, LastDay DEF TypeOK, today
    <2> QED BY <1>1, <1>2, <1>3, <2>1 DEF TypeOK
  <1> HIDE DEF new
  <1>7. TypeOK'
    BY <1>1, <1>2, <1>5, <1>6 DEF TypeOK
  <1>8. TickInv'
    <2>1. clk'.at = now /\ clk'.close = close /\ (clk'.open = IsOpen(now))
      BY <1>2, <1>4, <1>5
    <2>2. /\ cache'[1] <= today /\ (cache'[1] = today => close <= cache'[2])
          /\ InSession(now) => cache'[1] = today
      <3>1. today \in Nat /\ close \in Nat
        BY <1>1, Numbers
      <3> QED BY <1>1, <1>2, <3>1 DEF TickInv
    <2>3. /\ history.torn => history.slept
          /\ 0 <= TickFar /\ snapshot[1] <= today
      BY <1>1, Lengths DEF TickInv, BookInv
    <2>4. today' = today /\ date' = today /\ IsOpen(now)' = IsOpen(now)
      BY <1>2, <2>1 DEF today, date, IsOpen, InSession
    <2>5. today \in Sessions => InSession(now)
      BY DEF InSession, today
    <2> QED BY <1>2, <1>3, <2>1, <2>2, <2>3, <2>4, <2>5 DEF TickInv
  <1>9. BookInv'
    BY <1>1, <1>2 DEF BookInv, today, Old, exposed, InSession
  <1>10. Counts' /\ Slack' = Slack
    BY <1>1, <1>2 DEF Counts, Slack, InSession, TendedWithin
  <1>11. SleepInv'
    BY <1>1, <1>2, <1>10, NoSleep
  <1> QED BY <1>7, <1>8, <1>9, <1>10, <1>11 DEF IInv

LEMMA RestartInv ==
  ASSUME IInv, Restart
  PROVE  IInv'
  <1>1. TypeOK /\ TickInv /\ BookInv /\ Counts /\ SleepInv
    BY DEF IInv
  <1>2. /\ pc' = "asleep" /\ left' = 0 /\ wake' = FALSE /\ clk' = NoClock /\ cache' = NoDay
        /\ snapshot' = <<0, FALSE>> /\ fired' = 0 /\ checked' = 0
        /\ UNCHANGED <<now, close, opened, lot, liq, flattening, history>>
    BY DEF Restart, world
  <1>3. today \in Nat \ {0}
    BY <1>1, Numbers
  <1>4. NoDay \in (0 .. Days) \X {Early, Close} /\ NoDay[1] = 0
    BY Constants DEF NoDay
  <1>5. /\ snapshot' \in (0 .. Days) \X BOOLEAN /\ snapshot'[1] = 0
    <2>1. 0 \in 0 .. Days /\ FALSE \in BOOLEAN
      BY Constants
    <2> DEFINE no == FALSE
    <2>2. snapshot' = <<0, no>> /\ no \in BOOLEAN
      BY <1>2
    <2> HIDE DEF no
    <2> QED BY <2>1, <2>2
  <1>6. NoClock \in Clock
    <2> DEFINE no == FALSE
               c == [at |-> 0, open |-> no, close |-> Close]
    <2>1. NoClock = c /\ no \in BOOLEAN
      BY Zenon DEF NoClock
    <2>2. 0 \in Instants
      BY Constants DEF Instants
    <2> HIDE DEF no
    <2> QED BY <2>1, <2>2 DEF Clock
  <1>7. TypeOK'
    BY <1>1, <1>2, <1>4, <1>5, <1>6, Constants DEF TypeOK
  <1>8. TickInv'
    <2>1. (history.torn => history.slept) /\ 0 <= TickFar
      BY <1>1, Lengths DEF TickInv
    <2>2. today' = today /\ 0 <= today /\ 0 # today
      BY <1>2, <1>3 DEF today
    <2> QED BY <1>2, <1>4, <2>1, <2>2 DEF TickInv
  <1>9. BookInv'
    <2>1. today' = today /\ Old' = Old /\ 0 <= today /\ 0 # today
      BY <1>2, <1>3 DEF today, Old, exposed
    <2> QED BY <1>1, <1>2, <1>5, <2>1 DEF BookInv, InSession
  <1>10. Counts' /\ Slack' = Slack
    BY <1>1, <1>2 DEF Counts, Slack, InSession, TendedWithin
  <1>11. SleepInv'
    BY <1>1, <1>2, <1>10, NoSleep
  <1> QED BY <1>7, <1>8, <1>9, <1>10, <1>11 DEF IInv

-----------------------------------------------------------------------------
(* Rule 1 lets the standing rules go on.                                    *)

LEMMA RulesFollow ==
  ASSUME IInv, NoKillFlatten \/ KillVerified \/ KillMarketClosed
  PROVE  IInv'
  <1>1. TypeOK /\ TickInv /\ BookInv /\ Counts /\ SleepInv
    BY DEF IInv
  <1>2. /\ pc # "asleep" /\ pc' = "rules" /\ flattening' \in BOOLEAN
        /\ flattening' = FALSE \/ clk.open = FALSE
        /\ UNCHANGED <<now, close, opened, lot, liq, left, wake, clk, cache, snapshot, fired, checked, history>>
    <2>1. /\ pc = "kill" /\ pc' = "rules"
          /\ UNCHANGED <<now, close, opened, lot, liq, left, wake, clk, cache, snapshot, fired, checked, history>>
      BY DEF NoKillFlatten, KillVerified, KillMarketClosed, TickLeaves, world
    <2>2. flattening \in BOOLEAN /\ clk.open \in BOOLEAN
      BY <1>1 DEF TypeOK, Clock
    <2>3. flattening' \in BOOLEAN /\ (flattening' = FALSE \/ clk.open = FALSE)
      BY <2>2 DEF NoKillFlatten, KillVerified, KillMarketClosed
    <2> QED BY <2>1, <2>3
  <1>3. TypeOK'
    BY <1>1, <1>2 DEF TypeOK
  <1>4. TickInv'
    <2>1. IsOpen(now)' = IsOpen(now) /\ today' = today /\ date' = date
      BY <1>2 DEF IsOpen, InSession, today, date
    <2> QED BY <1>1, <1>2, <2>1 DEF TickInv
  <1>5. BookInv'
    BY <1>1, <1>2 DEF BookInv, today, Old, exposed, InSession
  <1>6. Counts' /\ Slack' = Slack
    BY <1>1, <1>2 DEF Counts, Slack, InSession, TendedWithin
  <1>7. left' = 0
    BY <1>1, <1>2 DEF TickInv
  <1>8. SleepInv'
    BY <1>1, <1>2, <1>6, <1>7, NoSleep
  <1> QED BY <1>3, <1>4, <1>5, <1>6, <1>8 DEF IInv

-----------------------------------------------------------------------------
(* A tick ends in a sleep.                                                  *)

(* What every rule leaves as it is.                                         *)
TickKeeps ==
  /\ pc # "asleep"
  /\ UNCHANGED <<now, close, opened, lot, flattening, cache>>
  /\ history' \in History
  /\ history'.slept = history.slept /\ history'.torn = history.torn
  /\ history'.tended => history.tended \/ (history'.riding = 0 /\ TimeOf(now) >= Open + Grace)
  /\ history'.blind \in {0, history.blind} /\ history'.ignored \in {0, history.ignored}
  /\ history'.riding \in {0, history.riding}
  /\ Slack <= Slack'

(* Whatever it decided, what it knew is forgotten and nothing is counted.   *)
LEMMA TickEnds ==
  ASSUME TypeOK, TickInv, Counts, TickKeeps, NEW n \in Nat, n <= TickFar, Sleep(n), liq' \in BOOLEAN,
         snapshot' \in (0 .. Days) \X BOOLEAN, fired' \in {0} \cup Sessions, checked' \in {0} \cup Sessions
  PROVE  TypeOK' /\ TickInv' /\ Counts' /\ today' = today /\ Slack' \in Nat
  <1>1. pc' = "asleep" /\ left' = n /\ clk' = NoClock /\ wake' = wake
    BY DEF Sleep
  <1>2. NoClock \in Clock
    BY Constants DEF NoClock, Clock, Instants
  <1>3. TypeOK'
    BY <1>1, <1>2 DEF TypeOK, TickKeeps
  <1>4. today' = today
    BY DEF TickKeeps, today
  <1>5. TickInv'
    BY <1>1, <1>4 DEF TickInv, TickKeeps
  <1>6. Slack \in Nat /\ Slack' \in Nat
    <2>1. history' \in History => Slack' \in Nat
      <3>1. history' \in History => history'.errors \in Nat
        BY Constants DEF History
      <3> QED BY <3>1, Constants DEF Slack
    <2> QED BY <2>1, Numbers DEF TickKeeps
  <1>7. Counts'
    <2> DEFINE b == history'.blind
               i == history'.ignored
               q == history'.riding
               s == Slack'
    <2>1. b \in {0, history.blind} /\ i \in {0, history.ignored} /\ q \in {0, history.riding} /\ Slack <= s
      BY DEF TickKeeps
    <2> HIDE DEF b, i, q, s
    <2>2. s \in Nat
      BY <1>6 DEF s
    <2>3. /\ b > 0 => InSession(now) /\ TimeOf(now) > close - Buffer
          /\ i > 0 => InSession(now) /\ TimeOf(now) > Open
          /\ q > 0 => InSession(now) /\ TimeOf(now) > Open + Grace
      BY <2>1 DEF Counts
    <2>4. b <= InWindow + s /\ i <= InWindow + s
      BY <1>6, <2>1, <2>2, Numbers, Lengths DEF Counts
    <2>5. InSession(now)' = InSession(now) /\ TimeOf(now)' = TimeOf(now) /\ close' = close
      BY DEF TickKeeps, InSession
    <2> DEFINE B == TendedWithin
               C == TendedWithin'
    <2>6. q <= C + s
      <3>1. C \in Nat /\ (C = B \/ C = TickFar \/ q = 0)
        BY Lengths DEF TickKeeps, TendedWithin, q
      <3>2. B \in Nat /\ B <= TickFar /\ history.riding <= B + Slack
        BY TendedIs DEF Counts
      <3> HIDE DEF B, C
      <3> QED BY <1>6, <2>1, <2>2, <3>1, <3>2, Numbers, Lengths
    <2>7. history'.tended => TimeOf(now) >= Open + Grace
      BY DEF TickKeeps, Counts
    <2> HIDE DEF B
    <2> QED BY <2>3, <2>4, <2>5, <2>6, <2>7 DEF Counts, b, i, q, s
  <1> QED BY <1>3, <1>4, <1>5, <1>6, <1>7

(* The clock a tick has read is that of now, or midnight has just passed,   *)
(* or the process was suspended today.                                      *)
LEMMA NowOrMidnight ==
  ASSUME TypeOK, TickInv, SleepInv, pc # "asleep", InSession(now), ~history.slept
  PROVE  \/ clk.at = now
         \/ /\ clk.at < now /\ TimeOf(now) = 0 /\ checked # today /\ date < today
  <1>1. clk.at = now \/ (clk.at < now /\ TimeOf(now) = 0)
    BY DEF TickInv
  <1>2. ASSUME clk.at < now, TimeOf(now) = 0
        PROVE  checked # today /\ date < today
    <2>1. date < today
      BY <1>2, Numbers, BeforeMidnight DEF date, today
    <2>2. ~Closed
      BY <1>2, Numbers, Lengths DEF Closed
    <2> QED BY <2>1, <2>2 DEF SleepInv, Alarmed
  <1> QED BY <1>1, <1>2

(* After midnight any sleep will do.                                        *)
LEMMA MidnightSleep ==
  ASSUME TypeOK, Counts, TickKeeps, NEW n \in Nat, n <= TickFar, Sleep(n), TypeOK', Slack' \in Nat,
         TimeOf(now) = 0, checked' # today
  PROVE  SleepInv'
  <1>1. history.blind = 0 /\ history.ignored = 0 /\ history.riding = 0
    <2> DEFINE T == TimeOf(now)
               b == history.blind
               i == history.ignored
               q == history.riding
    <2>1. /\ b > 0 => T > close - Buffer
          /\ i > 0 => T > Open
          /\ q > 0 => T > Open + Grace
      BY DEF Counts
    <2>2. T = 0 /\ b \in Nat /\ i \in Nat /\ q \in Nat /\ close \in Nat /\ Early <= close
      BY Numbers
    <2> HIDE DEF T, b, i, q
    <2>3. b = 0 /\ i = 0 /\ q = 0
      BY <2>1, <2>2, Lengths
    <2> QED BY <2>3 DEF b, i, q
  <1>2. /\ history'.blind = 0 /\ history'.ignored = 0 /\ history'.riding = 0
        /\ TendedWithin' = TickFar
    <2>1. ~(0 >= Open + Grace)
      BY Lengths
    <2>2. ~history'.tended
      BY <2>1 DEF TickKeeps, Counts
    <2> QED BY <1>1, <2>2 DEF TickKeeps, TendedWithin
  <1>3. today' = today /\ TimeOf(now') = 0 /\ left' \in Nat /\ left' <= TickFar
    BY DEF TickKeeps, today, Sleep
  <1>4. close' \in {Early, Close}
    BY DEF TypeOK
  <1> QED BY <1>2, <1>3, <1>4, AtMidnight

(* The book is as it was, as far as the tick remembers it.                  *)
LEMMA BookKept ==
  ASSUME BookInv, TickKeeps, UNCHANGED <<snapshot, fired>>, checked' = checked \/ checked' <= today,
         history'.leftover = history.leftover
  PROVE  BookInv'
  <1>1. /\ UNCHANGED <<now, opened, lot, snapshot, fired>>
        /\ history'.torn = history.torn
    BY DEF TickKeeps
  <1>2. today' = today /\ checked' <= today
    BY <1>1 DEF BookInv, today
  <1>3. (Old' <=> Old) /\ InSession(now)' = InSession(now)
    BY <1>1, <1>2 DEF Old, exposed, InSession
  <1> QED BY <1>1, <1>2, <1>3 DEF BookInv

(* A tick that raised is short, and allowed for.                            *)
LEMMA TickErrorInv ==
  ASSUME IInv, TickError
  PROVE  IInv'
  <1>1. TypeOK /\ TickInv /\ BookInv /\ Counts /\ SleepInv
    BY DEF IInv
  <1>2. /\ pc # "asleep" /\ Sleep(InWindow)
        /\ UNCHANGED <<now, close, opened, lot, liq, flattening, cache, snapshot, fired, checked>>
    BY DEF TickError, world, memory
  <1>3. /\ history' \in History
        /\ history'.slept = history.slept /\ history'.torn = history.torn
        /\ history'.leftover = history.leftover /\ history'.tended = history.tended
        /\ history'.alarmed = history.alarmed
        /\ Slack' = Slack + InWindow
        /\ history'.blind = history.blind /\ history'.ignored = history.ignored
        /\ history'.riding = history.riding
    BY <1>1, Numbers, ErrorIs DEF TickError
  <1>4. Slack \in Nat /\ InWindow \in Nat /\ InWindow <= TickFar
    BY <1>1, Numbers, Lengths
  <1>5. TickKeeps
    <2>1. Slack <= Slack'
      BY <1>3, <1>4
    <2> QED BY <1>2, <1>3, <2>1 DEF TickKeeps
  <1>6. TypeOK' /\ TickInv' /\ Counts' /\ today' = today /\ Slack' \in Nat
    BY <1>1, <1>2, <1>4, <1>5, TickEnds DEF TypeOK
  <1>7. BookInv'
    BY <1>1, <1>2, <1>3, <1>5, BookKept
  <1>8. SleepInv'
    <2> SUFFICES ASSUME InSession(now), ~history.slept
                 PROVE  SleepInv'
      BY <1>2, <1>3 DEF SleepInv, InSession
    <2> DEFINE b == history.blind
               i == history.ignored
               q == history.riding
               T == TimeOf(now)
               s == Slack
               B == TendedWithin
    <2>1. b \in Nat /\ i \in Nat /\ q \in Nat /\ s \in Nat /\ T \in Nat /\ left = 0 /\ B \in Nat
      BY <1>1, <1>2, Numbers, TendedIs DEF TickInv
    <2>2. Alarmed' <=> Alarmed
      BY <1>2, <1>3 DEF Alarmed, Closed, exposed
    <2>3. /\ b <= InWindow + s /\ i <= InWindow + s /\ q <= B + s
          /\ T + 0 <= Close + InWindow + s \/ Alarmed
          /\ checked = today => Alarmed
      BY <1>1, <2>1 DEF Counts, SleepInv
    <2>4. /\ left' = InWindow /\ TimeOf(now') = T /\ history'.blind = b /\ history'.ignored = i
          /\ history'.riding = q /\ Slack' = s + InWindow /\ TendedWithin' = B
      BY <1>2, <1>3 DEF Sleep, TendedWithin
    <2> HIDE DEF b, i, q, T, s, B
    <2>5. /\ b + InWindow <= InWindow + (s + InWindow) /\ i + InWindow <= InWindow + (s + InWindow)
          /\ q + InWindow <= B + (s + InWindow)
          /\ T + InWindow <= Close + InWindow + (s + InWindow) \/ Alarmed
      BY <2>1, <2>3, Lengths
    <2> QED BY <1>2, <1>6, <2>2, <2>3, <2>4, <2>5 DEF SleepInv
  <1> QED BY <1>6, <1>7, <1>8 DEF IInv

(* A rule that drives looks at the book and sleeps shortly.                 *)
LEMMA DriveInv ==
  ASSUME IInv, pc # "asleep", drive, Sleep(InWindow), clk.open,
         UNCHANGED <<now, close, opened, lot, flattening, cache, snapshot, fired, checked>>
  PROVE  IInv'
  <1>1. TypeOK /\ TickInv /\ BookInv /\ Counts /\ SleepInv
    BY DEF IInv
  <1>2. /\ history' \in History
        /\ history'.slept = history.slept /\ history'.torn = history.torn
        /\ history'.errors = history.errors /\ history'.leftover = history.leftover
        /\ history'.alarmed = history.alarmed /\ Slack' = Slack
        /\ history'.blind = 0 /\ history'.ignored = 0 /\ history'.riding = 0
        /\ history'.tended => history.tended \/ TimeOf(now) >= Open + Grace
    BY <1>1, Numbers, DrivenIs DEF drive
  <1>3. Slack \in Nat /\ InWindow \in Nat /\ InWindow <= TickFar
    BY <1>1, Numbers, Lengths
  <1>4. TickKeeps
    BY <1>2, <1>3 DEF TickKeeps
  <1>5. liq' \in BOOLEAN
    <2> DEFINE covered == liq \/ (exposed /\ IsOpen(now))
    <2>1. liq' = liq \/ liq' = covered
      BY Zenon DEF drive
    <2>2. liq \in BOOLEAN /\ covered \in BOOLEAN
      BY <1>1 DEF TypeOK
    <2> HIDE DEF covered
    <2> QED BY <2>1, <2>2
  <1>6. TypeOK' /\ TickInv' /\ Counts' /\ today' = today /\ Slack' \in Nat
    BY <1>1, <1>3, <1>4, <1>5, TickEnds DEF TypeOK
  <1>7. BookInv'
    BY <1>1, <1>2, <1>4, BookKept
  <1>8. SleepInv'
    <2> SUFFICES ASSUME InSession(now), ~history.slept
                 PROVE  SleepInv'
      BY <1>2 DEF SleepInv, InSession
    <2>1. CASE clk.at = now
      <3>1. IsOpen(now)
        BY <1>1, <2>1 DEF TickInv
      <3>2. TimeOf(now) \in Nat /\ TimeOf(now) < close /\ close \in Nat /\ close <= Close
        BY <1>1, <3>1, Numbers DEF IsOpen
      <3> DEFINE T == TimeOf(now)
                 s == Slack
                 B == TendedWithin'
      <3>3. T \in Nat /\ T < close /\ s \in Nat /\ B \in Nat /\ InWindow <= B
        BY <1>3, <3>2, Lengths DEF TendedWithin
      <3>4. left' = InWindow /\ TimeOf(now') = T /\ Slack' = s
        BY <1>2 DEF Sleep
      <3> HIDE DEF T, s, B
      <3>5. /\ 0 + InWindow <= InWindow + s /\ 0 + InWindow <= B + s
            /\ T + InWindow <= Close + InWindow + s
        BY <3>2, <3>3, Lengths
      <3>6. checked = today => Alarmed
        BY <1>1 DEF SleepInv
      <3>7. Alarmed' <=> Alarmed
        BY <1>2 DEF Alarmed, Closed, exposed
      <3> QED BY <1>2, <1>6, <3>4, <3>5, <3>6, <3>7 DEF SleepInv, B
    <2>2. CASE TimeOf(now) = 0 /\ checked # today
      BY <1>1, <1>3, <1>4, <1>6, <2>2, MidnightSleep
    <2> QED BY <1>1, <2>1, <2>2, NowOrMidnight
  <1> QED BY <1>6, <1>7, <1>8 DEF IInv

(* What a tick knows when its clock is that of now.                         *)
LEMMA ThisTick ==
  ASSUME TypeOK, TickInv, pc # "asleep", clk.at = now
  PROVE  /\ date = today /\ (date \in Sessions <=> InSession(now)) /\ clk.open = IsOpen(now)
         /\ rth_open = now - TimeOf(now) + Open
         /\ InSession(now) =>
              \E q \in {Early, Close} :
                /\ rth_close = now - TimeOf(now) + q /\ close <= q
                /\ IsOpen(now) => q = close \/ (q = Close /\ TimeOf(now) + Notice <= Early)
  <1>1. date = today /\ (date \in Sessions <=> InSession(now)) /\ clk.open = IsOpen(now)
    BY DEF date, today, InSession, TickInv
  <1> DEFINE T == TimeOf(now)
             base == (date - 1) * DayLen
  <1>2. now \in Nat /\ T \in Nat /\ now = base + T
    <2>1. now \in Nat
      BY Numbers
    <2> QED BY <1>1, <2>1, Split DEF today
  <1>3. date \in Nat \ {0} /\ DayLen \in Nat
    BY <1>1, Numbers, Constants
  <1>4. base \in Int
    <2>1. (date - 1) \in Int
      BY <1>3
    <2> QED BY <1>3, <2>1
  <1> HIDE DEF base, T
  <1>5. base = now - T
    BY <1>2, <1>4
  <1>6. rth_open = now - T + Open
    BY <1>5 DEF rth_open, OpenOf, base
  <1>7. ASSUME InSession(now)
        PROVE  \E q \in {Early, Close} :
                /\ rth_close = now - T + q /\ close <= q
                /\ IsOpen(now) => q = close \/ (q = Close /\ T + Notice <= Early)
    <2> DEFINE q == IF clk.open /\ clk.close < cache[2] THEN clk.close ELSE cache[2]
    <2>1. rth_close = now - T + q
      BY <1>5 DEF rth_close, base
    <2>2. /\ cache[2] \in {Early, Close} /\ close <= cache[2] /\ clk.close \in {Early, Close}
          /\ close \in {Early, Close}
      BY <1>1, <1>7, Numbers DEF TickInv, TypeOK
    <2>3. clk.close = close \/ (clk.close = Close /\ T + Notice <= Early)
      BY DEF TickInv, T
    <2>4. Early \in Nat /\ Close \in Nat /\ Early <= Close
      BY Lengths
    <2>5. q \in {Early, Close} /\ close <= q
      BY <2>2, <2>3, <2>4
    <2>6. IsOpen(now) => q = close \/ (q = Close /\ T + Notice <= Early)
      BY <1>1, <2>2, <2>3, <2>4
    <2> HIDE DEF q
    <2> QED BY <2>1, <2>5, <2>6
  <1> QED BY <1>1, <1>6, <1>7 DEF T

-----------------------------------------------------------------------------
(* The standing rules sleep towards their next deadline.                    *)

(* Whatever the rule, it is enough to measure the sleep of a tick whose     *)
(* clock is that of now.                                                    *)
LEMMA RuleInv ==
  ASSUME IInv, TickKeeps, NEW n \in Nat, n <= TickFar, Sleep(n), liq' = liq,
         snapshot' \in (0 .. Days) \X BOOLEAN, fired' \in {0} \cup Sessions, checked' \in {0} \cup Sessions,
         checked' = checked \/ checked' = date,
         BookInv',
         clk.at = now /\ InSession(now) /\ ~history.slept => SleepInv'
  PROVE  IInv'
  <1>1. TypeOK /\ TickInv /\ BookInv /\ Counts /\ SleepInv
    BY DEF IInv
  <1>2. TypeOK' /\ TickInv' /\ Counts' /\ today' = today /\ Slack' \in Nat
    <2>1. liq' \in BOOLEAN
      BY <1>1 DEF TypeOK
    <2> QED BY <1>1, <2>1, TickEnds
  <1>3. SleepInv'
    <2> SUFFICES ASSUME InSession(now), ~history.slept, ~SleepInv'
                 PROVE  FALSE
      BY DEF SleepInv, InSession, TickKeeps
    <2>1. clk.at < now /\ TimeOf(now) = 0 /\ checked # today /\ date < today
      BY <1>1, NowOrMidnight DEF TickKeeps
    <2>2. date \in Int /\ today \in Int
      <3>1. clk.at \in Nat
        BY <1>1, Numbers
      <3> QED BY <1>1, <3>1, Split, Numbers DEF date
    <2>3. checked' # today
      BY <2>1, <2>2
    <2> QED BY <1>1, <1>2, <2>1, <2>3, MidnightSleep
  <1> QED BY <1>2, <1>3 DEF IInv

(* A sleep of a rule that has nothing to do.                                *)
LEMMA RestSleep ==
  ASSUME TypeOK, Counts, SleepInv, UNCHANGED <<now, close, opened, flattening>>, checked' = checked,
         history'.riding = history.riding, history'.tended = history.tended,
         history'.alarmed = history.alarmed, Slack' = Slack,
         NEW n \in Nat, n <= TickFar, Sleep(n), InSession(now), ~history.slept,
         TimeOf(now) + n <= Close,
         \/ TimeOf(now) <= close - Buffer /\ TimeOf(now) + n <= close - Buffer + InWindow
         \/ Closed,
         \/ ~flattening \/ wake \/ Closed
         \/ TimeOf(now) <= Open /\ TimeOf(now) + n <= Open + InWindow,
         TimeOf(now) < Open + Grace \/ ~Old \/ Closed
  PROVE  SleepInv'
  <1> DEFINE T == TimeOf(now)
             q == history.riding
             s == Slack
  <1>1. left' = n /\ wake' = wake /\ TimeOf(now') = T /\ Slack' = s /\ today' = today /\ checked' = checked
    BY DEF Sleep, today
  <1>2. (Closed' <=> Closed) /\ (exposed' <=> exposed)
    BY DEF Closed, exposed
  <1>3. (Alarmed' <=> Alarmed) /\ (Old' <=> Old)
    BY <1>1, <1>2 DEF Alarmed, Old
  <1>4. T \in Nat /\ s \in Nat /\ q \in Nat
    BY Numbers
  <1>5. (q > 0 => T > Open + Grace) /\ (history.tended => T >= Open + Grace)
    BY DEF Counts
  <1>6. T + n <= Close
    OBVIOUS
  <1>7. Before(close - Buffer)' \/ Closed'
    BY <1>1, <1>2 DEF Before
  <1>8. wake' \/ ~flattening' \/ Before(Open)' \/ Closed'
    BY <1>1, <1>2 DEF Before
  <1>9. T < Open + Grace => q + n <= TickFar + s /\ ~history.tended
    <2> HIDE DEF T, q, s
    <2> QED BY <1>4, <1>5, Lengths
  <1>10. T + n <= Close + InWindow + s
    <2> HIDE DEF T, s
    <2> QED BY <1>4, <1>6, Lengths
  <1>11. history'.riding + left' <= TendedWithin' + Slack' \/ ~Old' \/ Closed'
    <2>1. ~history.tended => TendedWithin' = TickFar
      BY DEF TendedWithin
    <2> QED BY <1>1, <1>2, <1>3, <1>9, <2>1
  <1>12. TimeOf(now') + left' <= Close + InWindow + Slack' \/ Alarmed'
    BY <1>1, <1>10
  <1>13. checked' = today' => Alarmed'
    BY <1>1, <1>3 DEF SleepInv
  <1> QED BY <1>7, <1>8, <1>11, <1>12, <1>13 DEF SleepInv

LEMMA HolidayInv ==
  ASSUME IInv, Holiday
  PROVE  IInv'
  <1>1. TypeOK /\ TickInv /\ BookInv /\ Counts /\ SleepInv
    BY DEF IInv
  <1> DEFINE n == sleep_toward(next_open(clk.at))
  <1>2. n \in Nat /\ n <= TickFar
    BY <1>1, Numbers, NextOpenType, SleepTowardIs
  <1>3. /\ pc # "asleep" /\ date \notin Sessions /\ Sleep(n)
        /\ UNCHANGED <<now, close, opened, lot, flattening, cache, liq, snapshot, fired, checked, history>>
    BY DEF Holiday, InRules, TickLeaves, world
  <1> HIDE DEF n
  <1>4. TickKeeps
    <2>1. Slack <= Slack'
      BY <1>1, <1>3, Numbers DEF Slack
    <2> QED BY <1>1, <1>3, <2>1, Numbers DEF TickKeeps
  <1>5. BookInv'
    BY <1>1, <1>3, <1>4, BookKept
  <1>6. clk.at = now => ~InSession(now)
    BY <1>3 DEF date, InSession
  <1>7. /\ snapshot' \in (0 .. Days) \X BOOLEAN /\ fired' \in {0} \cup Sessions /\ checked' \in {0} \cup Sessions
        /\ liq' = liq /\ checked' = checked
    BY <1>1, <1>3 DEF TypeOK
  <1> QED BY <1>2, <1>3, <1>4, <1>5, <1>6, <1>7, RuleInv

(* The date of a tick is today's, or it has passed.                         *)
LEMMA DateIs ==
  ASSUME TypeOK, TickInv, pc # "asleep"
  PROVE  /\ date \in Nat \ {0} /\ date <= today
         /\ date = today /\ ~history.torn => clk.at = now
  <1>1. clk.at \in Nat /\ now \in Nat /\ clk.at <= now
    BY Numbers DEF TickInv
  <1>2. date \in Nat \ {0} /\ date <= today
    BY <1>1, Split, LaterDay DEF date, today
  <1>3. ASSUME date = today, ~history.torn
        PROVE  clk.at = now
    <2>1. clk.at = now \/ (clk.at < now /\ TimeOf(now) = 0)
      BY <1>3 DEF TickInv
    <2>2. clk.at < now /\ TimeOf(now) = 0 => date < today
      BY <1>1, BeforeMidnight DEF date, today
    <2> QED BY <1>2, <1>3, <2>1, <2>2
  <1> QED BY <1>2, <1>3

LEMMA PreOpenInv ==
  ASSUME IInv, PreOpen
  PROVE  IInv'
  <1>1. TypeOK /\ TickInv /\ BookInv /\ Counts /\ SleepInv
    BY DEF IInv
  <1> DEFINE n == sleep_toward(rth_open)
             held == exposed
  <1>2. held \in BOOLEAN
    BY DEF exposed
  <1>3. /\ pc # "asleep" /\ date \in Sessions /\ clk.at < rth_open
        /\ snapshot' = <<date, held>> /\ Sleep(n)
        /\ UNCHANGED <<now, close, opened, lot, flattening, cache, liq, fired, checked, history>>
    BY DEF PreOpen, InRules, TickLeaves, world
  <1>4. rth_open \in Int
    <2> DEFINE base == (date - 1) * DayLen
    <2>1. base \in Int
      <3>1. date \in Nat /\ DayLen \in Nat
        BY <1>1, <1>3, DateIs, Constants
      <3> QED BY <3>1
    <2> HIDE DEF base
    <2>2. base + Open \in Int
      BY <2>1, Lengths
    <2> QED BY <2>2 DEF rth_open, OpenOf, base
  <1>5. n \in Nat /\ n <= TickFar /\ clk.at + n <= rth_open
    BY <1>1, <1>3, <1>4, Numbers, SleepTowardIs
  <1> HIDE DEF n
  <1>6. date \in Nat /\ date <= today /\ (date = today /\ ~history.torn => clk.at = now)
    BY <1>1, <1>3, DateIs
  <1>7. TickKeeps
    <2>1. Slack <= Slack'
      BY <1>1, <1>3, Numbers DEF Slack
    <2> QED BY <1>1, <1>3, <2>1, Numbers DEF TickKeeps
  <1>8. clk.at = now => TimeOf(now) < Open /\ TimeOf(now) + n <= Open
    <2> DEFINE T == TimeOf(now)
    <2>1. CASE clk.at = now
      <3>1. rth_open = now - T + Open
        BY <1>1, <1>3, <2>1, ThisTick
      <3>2. now \in Nat /\ T \in Nat
        BY <1>1, Numbers
      <3>3. now < now - T + Open /\ now + n <= now - T + Open
        BY <1>3, <1>5, <2>1, <3>1
      <3> HIDE DEF T
      <3>4. T < Open /\ T + n <= Open
        BY <1>5, <3>2, <3>3, Lengths
      <3> QED BY <3>4 DEF T
    <2> QED BY <2>1
  <1>9. snapshot' \in (0 .. Days) \X BOOLEAN /\ snapshot'[1] = date /\ snapshot'[2] = held
    <2>1. date \in 0 .. Days
      BY <1>3, Constants
    <2> HIDE DEF held
    <2>2. <<date, held>> \in (0 .. Days) \X BOOLEAN
      BY <1>2, <2>1
    <2>3. <<date, held>>[1] = date /\ <<date, held>>[2] = held
      BY Zenon
    <2> QED BY <1>3, <2>2, <2>3
  <1>10. BookInv'
    <2>1. ~history.torn /\ date = today /\ exposed => history.leftover
      <3> SUFFICES ASSUME ~history.torn, date = today, exposed
                   PROVE  history.leftover
        OBVIOUS
      <3>1. TimeOf(now) < Open /\ TimeOf(now) \in Nat
        BY <1>1, <1>6, <1>8, Numbers
      <3>2. opened # today
        BY <1>1, <3>1, Lengths DEF BookInv
      <3>3. Old
        BY <1>1, <3>2, Numbers DEF BookInv, Old
      <3> QED BY <1>1, <3>3 DEF BookInv
    <2>2. today' = today /\ (Old' <=> Old) /\ InSession(now)' = InSession(now)
      BY <1>3 DEF today, Old, exposed, InSession
    <2>3. Old => held
      BY DEF Old
    <2>4. /\ snapshot'[1] <= today
          /\ Old => (snapshot'[1] = today => snapshot'[2])
          /\ ~history.torn /\ snapshot'[1] = today /\ snapshot'[2] => history.leftover
      BY <1>6, <1>9, <2>1, <2>3
    <2> HIDE DEF held
    <2> QED BY <1>1, <1>3, <2>2, <2>4 DEF BookInv
  <1>11. ASSUME clk.at = now, InSession(now), ~history.slept
         PROVE  SleepInv'
    <2> DEFINE T == TimeOf(now)
    <2>1. T \in Nat /\ close \in Nat /\ Early <= close /\ T < Open /\ T + n <= Open
      BY <1>1, <1>8, <1>11, Numbers
    <2> HIDE DEF T
    <2>2. /\ T + n <= Close /\ T <= close - Buffer /\ T + n <= close - Buffer + InWindow
          /\ T <= Open /\ T + n <= Open + InWindow /\ T < Open + Grace
      BY <1>5, <2>1, Lengths
    <2>3. UNCHANGED <<now, close, opened, flattening, history>> /\ checked' = checked /\ Slack' = Slack
      BY <1>3 DEF Slack
    <2> QED BY <1>1, <1>3, <1>5, <1>11, <2>2, <2>3, RestSleep DEF T
  <1>12. /\ fired' \in {0} \cup Sessions /\ checked' \in {0} \cup Sessions
         /\ liq' = liq /\ checked' = checked
    BY <1>1, <1>3 DEF TypeOK
  <1> QED BY <1>3, <1>5, <1>7, <1>9, <1>10, <1>11, <1>12, RuleInv

LEMMA DeadlineType ==
  ASSUME TypeOK, TickInv, pc # "asleep"
  PROVE  rth_close \in Int /\ flatten_at \in Int
  <1> DEFINE base == (date - 1) * DayLen
             q == IF clk.open /\ clk.close < cache[2] THEN clk.close ELSE cache[2]
  <1>1. base \in Int
    <2>1. date \in Nat /\ DayLen \in Nat
      BY DateIs, Constants
    <2> QED BY <2>1
  <1>2. q \in Int
    BY Numbers, Lengths
  <1> HIDE DEF base, q
  <1>3. base + q \in Int /\ base + q - Buffer \in Int
    BY <1>1, <1>2, Lengths
  <1>4. rth_close = base + q
    BY DEF rth_close, base, q
  <1>5. flatten_at = rth_close - Buffer
    BY DEF flatten_at
  <1> QED BY <1>3, <1>4, <1>5

(* A sleep within the session ends before the close window opens, also one  *)
(* that an early close has moved: the broker had announced it.              *)
LEMMA IntradaySleep ==
  ASSUME IInv, Intraday, clk.at = now, InSession(now), NEW n \in Nat, n = sleep_toward(flatten_at)
  PROVE  /\ TimeOf(now) >= Open /\ TimeOf(now) + n <= Close
         /\ clk.open => TimeOf(now) <= close - Buffer /\ TimeOf(now) + n <= close - Buffer
         /\ ~clk.open => Closed
         /\ clk.at < rth_open + Grace => TimeOf(now) < Open + Grace
  <1>1. TypeOK /\ TickInv
    BY DEF IInv
  <1>2. pc # "asleep" /\ rth_open <= now /\ now < flatten_at
    BY DEF Intraday, InRules
  <1>3. flatten_at \in Int /\ now \in Nat
    BY <1>1, <1>2, DeadlineType, Numbers
  <1>4. n <= TickFar /\ now + n <= flatten_at
    BY <1>2, <1>3, SleepTowardIs
  <1> DEFINE T == TimeOf(now)
  <1>5. PICK q \in {Early, Close} :
          /\ rth_close = now - T + q /\ close <= q
          /\ IsOpen(now) => q = close \/ (q = Close /\ T + Notice <= Early)
    BY <1>1, <1>2, ThisTick
  <1>6. rth_open = now - T + Open /\ clk.open = IsOpen(now)
    BY <1>1, <1>2, ThisTick
  <1>7. T \in Nat /\ close \in Nat /\ close <= Close /\ Early <= close /\ q \in Nat /\ q <= Close
    BY <1>1, Numbers, Lengths
  <1>8. flatten_at = now - T + q - Buffer
    <2>1. flatten_at = rth_close - Buffer
      BY DEF flatten_at
    <2>2. rth_close \in Int /\ Buffer \in Nat
      BY <1>1, <1>2, DeadlineType, Lengths
    <2> HIDE DEF T
    <2> QED BY <1>3, <1>5, <1>7, <2>1, <2>2
  <1>9. Notice \in Nat /\ Notice >= TickFar + Buffer
    BY Constants
  <1>10. ~IsOpen(now) => T < Open \/ T >= close
    BY <1>7, Lengths DEF IsOpen
  <1>11. /\ rth_open <= now /\ now < flatten_at /\ now + n <= flatten_at
    BY <1>2, <1>4
  <1> HIDE DEF T
  <1>12. /\ T >= Open /\ T < q - Buffer /\ T + n <= q - Buffer
    BY <1>3, <1>6, <1>7, <1>8, <1>11, Lengths
  <1>13. T + n <= Close
    BY <1>7, <1>12, Lengths
  <1>14. IsOpen(now) => T <= close - Buffer /\ T + n <= close - Buffer
    <2>1. CASE q = close
      BY <1>7, <1>12, <2>1, Lengths
    <2>2. CASE T + Notice <= Early
      BY <1>4, <1>7, <1>9, <2>2, Lengths
    <2> QED BY <1>5, <2>1, <2>2
  <1>15. now < now - T + Open + Grace => T < Open + Grace
    BY <1>3, <1>7, Lengths
  <1>16. ~IsOpen(now) => T >= close
    BY <1>7, <1>10, <1>12, Lengths
  <1> QED BY <1>6, <1>12, <1>13, <1>14, <1>15, <1>16 DEF T, Closed

(* The tick keeps the history as it is.                                     *)
LEMMA QuietTick ==
  ASSUME TypeOK, pc # "asleep",
         UNCHANGED <<now, close, opened, lot, flattening, cache, history>>
  PROVE  TickKeeps
  <1>1. Slack <= Slack'
    BY Numbers DEF Slack
  <1> QED BY <1>1, Numbers DEF TickKeeps

LEMMA NextOpenWaitsInv ==
  ASSUME IInv, NextOpenWaits
  PROVE  IInv'
  <1>1. TypeOK /\ TickInv /\ BookInv /\ Counts /\ SleepInv
    BY DEF IInv
  <1> DEFINE n == sleep_toward(flatten_at)
  <1>2. /\ pc = "rules" /\ Intraday /\ (date = fired \/ ~clk.open \/ clk.at < rth_open + Grace) /\ Sleep(n)
        /\ UNCHANGED <<now, close, opened, lot, flattening, cache, liq, snapshot, fired, checked, history>>
    BY DEF NextOpenWaits, Intraday, InRules, TickLeaves, world
  <1>3. n \in Nat /\ n <= TickFar
    BY <1>1, <1>2, DeadlineType, Numbers, SleepTowardIs
  <1> HIDE DEF n
  <1>4. TickKeeps
    BY <1>1, <1>2, QuietTick
  <1>5. BookInv'
    BY <1>1, <1>2, <1>4, BookKept
  <1>6. ASSUME clk.at = now, InSession(now), ~history.slept
        PROVE  SleepInv'
    <2>1. /\ TimeOf(now) + n <= Close
          /\ clk.open => TimeOf(now) <= close - Buffer /\ TimeOf(now) + n <= close - Buffer
          /\ ~clk.open => Closed
          /\ clk.at < rth_open + Grace => TimeOf(now) < Open + Grace
      BY <1>2, <1>3, <1>6, IntradaySleep DEF n
    <2>2. TimeOf(now) + n <= close - Buffer => TimeOf(now) + n <= close - Buffer + InWindow
      <3> DEFINE T == TimeOf(now)
      <3>1. T \in Nat /\ close \in Nat
        BY <1>1, Numbers
      <3> HIDE DEF T
      <3>2. T + n <= close - Buffer => T + n <= close - Buffer + InWindow
        BY <1>3, <3>1, Lengths
      <3> QED BY <3>2 DEF T
    <2>3. ~flattening \/ wake \/ Closed
      BY <1>1, <1>2, <2>1 DEF TickInv
    <2>4. date = fired => ~Old
      BY <1>1, <1>2, <1>6, ThisTick DEF BookInv
    <2>5. UNCHANGED <<now, close, opened, flattening, history>> /\ checked' = checked /\ Slack' = Slack
      BY <1>2 DEF Slack
    <2> QED BY <1>1, <1>2, <1>3, <1>6, <2>1, <2>2, <2>3, <2>4, <2>5, RestSleep
  <1>7. /\ snapshot' \in (0 .. Days) \X BOOLEAN /\ fired' \in {0} \cup Sessions /\ checked' \in {0} \cup Sessions
        /\ liq' = liq /\ checked' = checked
    BY <1>1, <1>2 DEF TypeOK
  <1> QED BY <1>2, <1>3, <1>4, <1>5, <1>6, <1>7, RuleInv

(* What was carried into today's session is known to be stale.              *)
LEMMA OldIsStale ==
  ASSUME TypeOK, BookInv, date = today, Old
  PROVE  exposed /\ stale
  <1>1. exposed /\ opened # today
    BY Numbers DEF Old
  <1>2. CASE snapshot[1] = date
    BY <1>1, <1>2 DEF BookInv, stale
  <1>3. CASE snapshot[1] # date
    <2>1. lot # today /\ lot <= today
      BY <1>1 DEF BookInv, exposed
    <2>2. lot < date
      BY <2>1, Numbers
    <2> QED BY <1>1, <1>3, <2>2 DEF stale, exposure_predates
  <1> QED BY <1>2, <1>3

LEMMA NextOpenDoneInv ==
  ASSUME IInv, NextOpenDone
  PROVE  IInv'
  <1>1. TypeOK /\ TickInv /\ BookInv /\ Counts /\ SleepInv
    BY DEF IInv
  <1> DEFINE n == sleep_toward(flatten_at)
             held == history.leftover /\ date # today
  <1>2. /\ pc = "rules" /\ Intraday /\ clk.open /\ ~(exposed /\ stale) /\ Sleep(n)
        /\ date \in Sessions /\ fired' = date
        /\ UNCHANGED <<now, close, opened, lot, flattening, cache, liq, snapshot, checked>>
    BY DEF NextOpenDone, NextOpenDue, Intraday, InRules, TickLeaves, world
  <1>3. n \in Nat /\ n <= TickFar
    BY <1>1, <1>2, DeadlineType, Numbers, SleepTowardIs
  <1> HIDE DEF n
  <1>9. history' = [history EXCEPT !.leftover = held]
    BY Zenon DEF NextOpenDone, today
  <1>10. held \in BOOLEAN /\ (held <=> history.leftover /\ date # today)
    BY <1>1, Numbers, HistoryIs
  <1> HIDE DEF held
  <1>11. /\ history' \in History /\ history'.leftover = held
         /\ history'.slept = history.slept /\ history'.torn = history.torn
         /\ history'.errors = history.errors /\ history'.alarmed = history.alarmed
         /\ history'.tended = history.tended /\ Slack' = Slack
         /\ history'.blind = history.blind /\ history'.ignored = history.ignored
         /\ history'.riding = history.riding
    BY <1>1, <1>9, <1>10, Numbers, LookIs
  <1>4. TickKeeps
    <2>1. Slack <= Slack'
      BY <1>1, <1>11, Numbers
    <2> QED BY <1>2, <1>11, <2>1 DEF TickKeeps
  <1>5. date <= today /\ (date = today => ~Old) /\ snapshot[1] <= date
    BY <1>1, <1>2, DateIs, OldIsStale DEF TickInv
  <1>6. BookInv'
    <2>1. today' = today /\ (Old' <=> Old) /\ InSession(now)' = InSession(now)
      BY <1>2 DEF today, Old, exposed, InSession
    <2>2. CASE date = today
      BY <1>1, <1>2, <1>5, <1>11, <2>1, <2>2 DEF BookInv
    <2>3. CASE date # today
      <3>1. snapshot[1] # today
        <4>1. snapshot[1] \in Nat /\ date \in Nat /\ today \in Nat
          BY <1>1, <1>2, Numbers, DateIs
        <4> QED BY <1>5, <2>3, <4>1
      <3>2. held <=> history.leftover
        BY <1>10, <2>3
      <3> QED BY <1>1, <1>2, <1>5, <1>11, <2>1, <2>3, <3>1, <3>2 DEF BookInv
    <2> QED BY <2>2, <2>3
  <1>7. ASSUME clk.at = now, InSession(now), ~history.slept
        PROVE  SleepInv'
    <2>1. /\ TimeOf(now) + n <= Close
          /\ TimeOf(now) <= close - Buffer /\ TimeOf(now) + n <= close - Buffer
      BY <1>2, <1>3, <1>7, IntradaySleep DEF n
    <2>2. TimeOf(now) + n <= close - Buffer => TimeOf(now) + n <= close - Buffer + InWindow
      <3> DEFINE T == TimeOf(now)
      <3>1. T \in Nat /\ close \in Nat
        BY <1>1, Numbers
      <3> HIDE DEF T
      <3>2. T + n <= close - Buffer => T + n <= close - Buffer + InWindow
        BY <1>3, <3>1, Lengths
      <3> QED BY <3>2 DEF T
    <2>3. ~flattening \/ wake \/ Closed
      BY <1>1, <1>2 DEF TickInv
    <2>4. ~Old
      BY <1>1, <1>2, <1>5, <1>7, ThisTick
    <2>5. UNCHANGED <<now, close, opened, flattening>> /\ checked' = checked
      BY <1>2
    <2> QED BY <1>1, <1>2, <1>3, <1>7, <1>11, <2>1, <2>2, <2>3, <2>4, <2>5, RestSleep
  <1>8. /\ snapshot' \in (0 .. Days) \X BOOLEAN /\ fired' \in {0} \cup Sessions /\ checked' \in {0} \cup Sessions
        /\ liq' = liq /\ checked' = checked
    BY <1>1, <1>2 DEF TypeOK
  <1> QED BY <1>2, <1>3, <1>4, <1>6, <1>7, <1>8, RuleInv

(* After the close, what is left has raised the alarm.                      *)
LEMMA PostCloseInv ==
  ASSUME IInv, PostClose
  PROVE  IInv'
  <1>1. TypeOK /\ TickInv /\ BookInv /\ Counts /\ SleepInv
    BY DEF IInv
  <1> DEFINE n == sleep_toward(next_open(clk.at))
             missed == date # checked /\ exposed
             alarm == history.alarmed \/ missed
  <1>2. /\ pc = "rules" /\ date \in Sessions /\ Sleep(n)
        /\ flatten_at <= clk.at /\ ~(clk.at < rth_close /\ clk.open)
        /\ checked' = date
        /\ UNCHANGED <<now, close, opened, lot, flattening, cache, liq, snapshot, fired>>
    BY DEF PostClose, InRules, TickLeaves, world
  <1>3. n \in Nat /\ n <= TickFar
    BY <1>1, Numbers, NextOpenType, SleepTowardIs
  <1> HIDE DEF n
  <1>4. alarm \in BOOLEAN
    BY <1>1, Numbers, HistoryIs
  <1>5. history' = [history EXCEPT !.alarmed = alarm]
    BY Zenon DEF PostClose
  <1>6. alarm <=> history.alarmed \/ missed
    OBVIOUS
  <1> HIDE DEF alarm
  <1>7. /\ history' \in History /\ history'.alarmed = alarm
        /\ history'.slept = history.slept /\ history'.torn = history.torn
        /\ history'.errors = history.errors /\ history'.leftover = history.leftover
        /\ history'.tended = history.tended /\ Slack' = Slack
        /\ history'.blind = history.blind /\ history'.ignored = history.ignored
        /\ history'.riding = history.riding
    BY <1>1, <1>4, <1>5, Numbers, AlarmIs
  <1>8. TickKeeps
    <2>1. Slack <= Slack'
      BY <1>1, <1>7, Numbers
    <2> QED BY <1>2, <1>7, <2>1 DEF TickKeeps
  <1>9. BookInv'
    BY <1>1, <1>2, <1>7, <1>8, DateIs, BookKept
  <1>10. ASSUME clk.at = now, InSession(now), ~history.slept
         PROVE  SleepInv'
    <2> DEFINE T == TimeOf(now)
    <2>1. PICK q \in {Early, Close} :
            /\ rth_close = now - T + q /\ close <= q
            /\ IsOpen(now) => q = close \/ (q = Close /\ T + Notice <= Early)
      BY <1>1, <1>2, <1>10, ThisTick
    <2>2. clk.open = IsOpen(now) /\ date = today
      BY <1>1, <1>2, <1>10, ThisTick
    <2>3. now \in Nat /\ T \in Nat /\ close \in Nat /\ Early <= close /\ q \in Nat /\ Early <= q
      BY <1>1, <2>1, Numbers, Lengths
    <2>4. now - T + q - Buffer <= now /\ (IsOpen(now) => ~(now < now - T + q))
      <3>1. flatten_at = rth_close - Buffer
        BY DEF flatten_at
      <3>2. rth_close \in Int /\ flatten_at \in Int /\ Buffer \in Nat
        BY <1>1, <1>2, DeadlineType, Lengths
      <3>3. flatten_at <= now /\ (IsOpen(now) => ~(now < rth_close))
        BY <1>2, <1>10, <2>2
      <3> HIDE DEF T
      <3> QED BY <2>1, <2>3, <3>1, <3>2, <3>3
    <2>5. IsOpen(now) <=> Open <= T /\ T < close
      BY <1>10 DEF IsOpen
    <2> HIDE DEF T
    <2>6. T >= close
      BY <2>1, <2>3, <2>4, <2>5, Lengths
    <2>7. Closed /\ Closed'
      BY <1>2, <2>6 DEF Closed, T
    <2>8. exposed => alarm
      BY <1>1, <1>6, <1>10, <2>2 DEF SleepInv, Alarmed
    <2>9. Alarmed'
      BY <1>2, <1>7, <2>7, <2>8 DEF Alarmed, exposed
    <2> QED BY <2>7, <2>9 DEF SleepInv
  <1>11. /\ snapshot' \in (0 .. Days) \X BOOLEAN /\ fired' \in {0} \cup Sessions /\ checked' \in {0} \cup Sessions
         /\ liq' = liq /\ checked' = date
    BY <1>1, <1>2 DEF TypeOK
  <1> QED BY <1>2, <1>3, <1>8, <1>9, <1>10, <1>11, RuleInv

-----------------------------------------------------------------------------
(* The invariant.                                                           *)

LEMMA InitIInv ==
  ASSUME Init
  PROVE  IInv
  <1>1. /\ now = 0 /\ close = Close /\ opened \in {None, 0} /\ lot = opened /\ liq = FALSE /\ flattening = FALSE
        /\ pc = "asleep" /\ left = 0 /\ wake = FALSE /\ clk = NoClock /\ cache = NoDay
        /\ snapshot = <<0, FALSE>> /\ fired = 0 /\ checked = 0 /\ history = NewDay
    BY DEF Init
  <1>2. today = 1 /\ TimeOf(now) = 0
    BY <1>1, CalendarAssumption DEF today, DayOf, TimeOf
  <1>3. /\ history \in History /\ ~history.slept /\ ~history.torn /\ history.errors = 0
        /\ history.leftover <=> opened # None
        /\ ~history.tended /\ history.blind = 0 /\ history.ignored = 0 /\ history.riding = 0
    BY <1>1, NewDayIs
  <1>4. NoClock \in Clock
    BY Constants DEF NoClock, Clock, Instants
  <1>5. NoDay \in (0 .. Days) \X {Early, Close} /\ NoDay[1] = 0
    BY Constants DEF NoDay
  <1>6. snapshot \in (0 .. Days) \X BOOLEAN /\ snapshot[1] = 0
    <2>1. 0 \in 0 .. Days /\ FALSE \in BOOLEAN
      BY Constants
    <2>2. <<0, FALSE>>[1] = 0
      BY Zenon
    <2> QED BY <1>1, <2>1, <2>2
  <1>7. TypeOK
    <2>1. 0 \in Instants /\ 0 \in 0 .. Days /\ 0 \in Nat
      BY Constants DEF Instants
    <2> QED BY <1>1, <1>3, <1>4, <1>5, <1>6, <2>1 DEF TypeOK
  <1>8. TickInv
    BY <1>1, <1>2, <1>3, <1>5, Lengths DEF TickInv
  <1>9. BookInv
    BY <1>1, <1>2, <1>3, <1>6 DEF BookInv, Old, exposed, None
  <1>10. Slack = 0
    BY <1>3, Constants DEF Slack
  <1>11. Counts
    BY <1>3, <1>10, Lengths DEF Counts, TendedWithin
  <1>12. SleepInv
    BY <1>1, <1>2, <1>3, <1>10, Lengths DEF SleepInv, TendedWithin
  <1> QED BY <1>7, <1>8, <1>9, <1>11, <1>12 DEF IInv

LEMMA NextIInv ==
  ASSUME IInv, [Next]_vars
  PROVE  IInv'
  <1>1. CASE Pass
    <2>1. left' \in Nat
      BY <1>1, Numbers DEF Pass, IInv
    <2> QED BY <1>1, <2>1, AdvanceInv DEF Pass
  <1>2. CASE Suspend
    <2>1. left' = left /\ left \in Nat
      BY <1>2, Numbers DEF Suspend, loop, IInv
    <2>2. UNCHANGED <<opened, lot, flattening, pc, wake, clk, memory>>
      BY <1>2 DEF Suspend, loop
    <2> QED BY <1>2, <2>1, <2>2, AdvanceInv DEF Suspend
  <1>3. CASE AmendClose
    BY <1>3, AmendCloseInv
  <1>4. CASE EntryFills \/ ExitFills \/ BookLot \/ LiquidationEnds
    BY <1>4, PositionInv
  <1>5. CASE ApplyFlatten
    BY <1>5, ApplyFlattenInv
  <1>6. CASE StartTick
    BY <1>6, StartTickInv
  <1>7. CASE NoKillFlatten \/ KillVerified \/ KillMarketClosed
    BY <1>7, RulesFollow
  <1>8. CASE DriveKillFlatten
    BY <1>8, DriveInv DEF DriveKillFlatten, TickLeaves, world
  <1>9. CASE Holiday
    BY <1>9, HolidayInv
  <1>10. CASE PreOpen
    BY <1>10, PreOpenInv
  <1>11. CASE NextOpenWaits
    BY <1>11, NextOpenWaitsInv
  <1>12. CASE NextOpenDone
    BY <1>12, NextOpenDoneInv
  <1>13. CASE NextOpenFlatten
    BY <1>13, DriveInv DEF NextOpenFlatten, NextOpenDue, Intraday, InRules, TickLeaves, world
  <1>14. CASE CloseWindow
    BY <1>14, DriveInv DEF CloseWindow, InRules, TickLeaves, world
  <1>15. CASE PostClose
    BY <1>15, PostCloseInv
  <1>16. CASE TickError
    BY <1>16, TickErrorInv
  <1>17. CASE Restart
    BY <1>17, RestartInv
  <1>18. CASE UNCHANGED vars
    <2>1. UNCHANGED <<now, close, opened, lot, liq, flattening, pc, left, wake, clk, cache, snapshot,
                      fired, checked, history>>
      BY <1>18 DEF vars, world, loop, memory
    <2>2. /\ today' = today /\ date' = date /\ Slack' = Slack /\ IsOpen(now)' = IsOpen(now)
          /\ InSession(now)' = InSession(now) /\ TimeOf(now)' = TimeOf(now)
      BY <2>1 DEF today, date, Slack, IsOpen, InSession
    <2>3. (exposed' <=> exposed) /\ (Closed' <=> Closed)
      BY <2>1, <2>2 DEF exposed, Closed
    <2>4. (Old' <=> Old) /\ (Alarmed' <=> Alarmed)
      BY <2>1, <2>2, <2>3 DEF Old, Alarmed
    <2>5. TypeOK'
      BY <2>1 DEF IInv, TypeOK
    <2>6. TickInv'
      BY <2>1, <2>2 DEF IInv, TickInv
    <2>7. BookInv'
      BY <2>1, <2>2, <2>4 DEF IInv, BookInv
    <2>8. Counts'
      BY <2>1, <2>2 DEF IInv, Counts, TendedWithin
    <2>9. SleepInv'
      BY <2>1, <2>2, <2>3, <2>4 DEF IInv, SleepInv, Before, TendedWithin
    <2> QED BY <2>5, <2>6, <2>7, <2>8, <2>9 DEF IInv
  <1> QED BY <1>1, <1>2, <1>3, <1>4, <1>5, <1>6, <1>7, <1>8, <1>9, <1>10, <1>11, <1>12, <1>13, <1>14,
             <1>15, <1>16, <1>17, <1>18 DEF Next, World, Rule1, StandingRules

(* The tick knows the instant it began, the book what was carried, and      *)
(* every sleep ends before what is counted would be too much.               *)
THEOREM Invariance == Spec => []IInv
  <1>1. Init => IInv
    BY InitIInv
  <1>2. IInv /\ [Next]_vars => IInv'
    BY NextIInv
  <1> QED BY <1>1, <1>2, PTL DEF Spec

(* The close window is never left unwatched for longer than its cadence and *)
(* the ticks that raised, also one that an early close has moved            *)
(* (_sleep_toward, rule 3).                                                 *)
THEOREM WindowWatched == Spec => []WindowIsWatched
  <1>1. IInv => WindowIsWatched
    BY DEF IInv, Counts, WindowIsWatched
  <1> QED BY <1>1, Invariance, PTL

(* An operator's flatten is driven at the fast cadence, whenever it was     *)
(* asked for (rule 1 and its wake event).                                   *)
THEOREM FlattenTended == Spec => []FlattenIsTended
  <1>1. IInv => FlattenIsTended
    BY DEF IInv, Counts, FlattenIsTended
  <1> QED BY <1>1, Invariance, PTL

(* What predates the session is driven one full sleep after the open's      *)
(* grace at the latest, and from then on at the fast cadence (rule 2).      *)
THEOREM StaleTended == Spec => []StaleIsTended
  <1>1. IInv => StaleIsTended
    BY DEF IInv, Counts, StaleIsTended
  <1> QED BY <1>1, Invariance, PTL

(* The next-open rule drives nothing on a day that began flat, nor once it  *)
(* has found gone what was carried in, unless the lots cannot tell.         *)
THEOREM FreshSpared == Spec => FreshIsSpared
  <1>1. ASSUME IInv, NextOpenFlatten, date = DayOf(now), ~history.torn
        PROVE  history.leftover \/ lot # opened
    <2> SUFFICES ASSUME lot = opened
                 PROVE  history.leftover
      OBVIOUS
    <2>1. TypeOK /\ BookInv /\ exposed /\ stale /\ date = today /\ date # fired
      BY <1>1 DEF IInv, NextOpenFlatten, NextOpenDue, today
    <2>2. CASE snapshot[1] = date
      BY <1>1, <2>1, <2>2 DEF BookInv, stale
    <2>3. CASE snapshot[1] # date
      <3>1. opened < today
        BY <2>1, <2>3 DEF stale, exposure_predates, exposed
      <3> QED BY <2>1, <3>1 DEF BookInv, Old
    <2> QED BY <2>2, <2>3
  <1>2. IInv => [NextOpenFlatten /\ date = DayOf(now) /\ ~history.torn
                   => history.leftover \/ lot # opened]_vars
    BY <1>1
  <1> QED BY <1>2, Invariance, PTL DEF FreshIsSpared

(* What survives the close has raised the alarm by midnight: the ticks of a *)
(* day that may raise do not use up its night (rule 4).                     *)
THEOREM OvernightAlarmed == Spec => OvernightIsAlarmed
  <1>1. ASSUME IInv, Pass, DayOf(now') # DayOf(now), InSession(now), exposed, ~history.slept
        PROVE  history.alarmed
    <2>1. TypeOK /\ SleepInv /\ now' = now + 1 /\ left > 0
      BY <1>1 DEF IInv, Pass, Advance
    <2> DEFINE T == TimeOf(now)
               s == Slack
               product == InWindow * MaxErrors
    <2>2. T = DayLen - 1
      BY <1>1, <2>1, Numbers, NextInstant
    <2>3. s \in Nat /\ s <= product /\ left \in Nat
      BY <2>1, Numbers, HistoryIs
    <2>4. product \in Nat /\ InWindow * (MaxErrors + 1) = product + InWindow
      BY Constants
    <2>5. Close + InWindow * (MaxErrors + 1) < DayLen /\ DayLen \in Nat /\ Close \in Nat /\ InWindow \in Nat
      BY Constants
    <2>6. T + left <= Close + InWindow + s \/ Alarmed
      BY <1>1, <2>1 DEF SleepInv
    <2> HIDE DEF T, s, product
    <2>7. Alarmed
      BY <2>1, <2>2, <2>3, <2>4, <2>5, <2>6
    <2> QED BY <1>1, <2>7 DEF Alarmed
  <1>2. IInv => [Pass /\ DayOf(now') # DayOf(now) /\ InSession(now) /\ exposed /\ ~history.slept
                   => history.alarmed]_vars
    BY <1>1
  <1> QED BY <1>2, Invariance, PTL DEF OvernightIsAlarmed
=============================================================================
