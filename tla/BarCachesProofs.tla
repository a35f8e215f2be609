--------------------------- MODULE BarCachesProofs ---------------------------
(***************************************************************************)
(* What the two caches of past bars promise, for every number of processes *)
(* on the file, every calendar, every history of trade and every size of a *)
(* page.                                                                   *)
(***************************************************************************)
EXTENDS BarCaches, FiniteSetTheorems, SequenceTheorems, WellFoundedInduction, TLAPS

-----------------------------------------------------------------------------
(* The inductive invariant.  The parts take what the source spoiled (sp) and *)
(* the date (td) as parameters, so that they can be said of the next state. *)

Complete(sym, day, bars, sp) ==
    /\ bars \subseteq Traded[sym][day]
    /\ Traded[sym][day] \subseteq bars \cup sp[sym][day]

Answered(l, sym, day, sp) ==
    \/ Complete(sym, day, l.collected[sym][day], sp)
    \/ <<sym, day>> \in l.skipped /\ l.collected[sym][day] = {}

\* Down to the cursor the day is whole; below it nothing is known yet.
PagedTo(l, cursor, bars, sp) ==
    /\ bars \subseteq Traded[Sym(l)][l.cur]
    /\ \A b \in Traded[Sym(l)][l.cur] : b > cursor => b \in bars \cup sp[Sym(l)][l.cur]

\* A stream asks for days up to the date it read, and only a day before that
\* date is kept.
DatesSound(l, td) ==
    /\ l.start <= l.end /\ l.end <= l.asked /\ l.asked <= l.asOf /\ l.asOf <= td
    /\ l.pc # "done" /\ l.cur # 0 =>
         l.cur \in BusinessDays /\ l.start <= l.cur /\ l.cur <= l.end

AnswersSound(l, sp) ==
    \A s \in Symbols, d \in Days : Behind(l, s, d) /\ d < l.asked => Answered(l, s, d, sp)

DaySound(l, sp) ==
    /\ l.pc = "day" => l.day = {}
    /\ l.pc = "page" /\ l.cur < l.asOf => PagedTo(l, l.cursor, l.day, sp)
    /\ l.pc = "write" => l.cur < l.asOf /\ Complete(Sym(l), l.cur, l.day, sp)

LoaderTyped(l) ==
    /\ l \in LoaderStates
    /\ l.pc \in {"day", "page", "write"} => l.todo # <<>>
    /\ l.pc \in {"page", "write"} => l.cur \in BusinessDays

Sound(l, sp, td) ==
    /\ LoaderTyped(l)
    /\ l.pc # "idle" => DatesSound(l, td) /\ AnswersSound(l, sp) /\ DaySound(l, sp)
    /\ l.pc = "done" => l.todo = <<>>

MinuteInv ==
    /\ MarketTypeOK /\ MinuteTypeOK /\ CachedDaysAreWhole
    /\ \A w \in Workers : Sound(loader[w], spoiled, today)

\* A row stands for the fetch that once brought it, and for all rows of it.
DailyInv ==
    /\ DailyTypeOK /\ HitsReachBack
    /\ \A s \in Symbols, d \in Days : HasRow(s, d) =>
         \E r \in fetched[s] :
            /\ r[2] = d
            /\ \A e \in r[1]..d : Traded[s][e] # {} => HasRow(s, e)

-----------------------------------------------------------------------------
(* Days.                                                                   *)

\* Numbers up to a bound have a greatest one.
LEMMA Greatest ==
    ASSUME NEW n \in Nat, NEW S \in SUBSET (1..n), S # {}
    PROVE  \E d \in S : \A e \in S : e <= d
<1> DEFINE Less == {p \in Nat \X Nat : p[1] < p[2]}
           T == {n - e : e \in S}
<1>1. IsWellFoundedOn(Less, Nat)
  BY NatLessThanWellFounded DEF OpToRel
<1>2. \A e \in S : n - e \in Nat /\ e \in Nat
  OBVIOUS
<1>3. T \subseteq Nat /\ T # {}
  BY <1>2
<1> HIDE DEF Less, T
<1>4. PICK x \in T : \A y \in T : ~(<<y, x>> \in Less)
  BY <1>1, <1>3, WFMin
<1>5. \A y \in T : ~(y < x)
  BY <1>3, <1>4 DEF Less
<1>6. PICK d \in S : x = n - d
  BY <1>4 DEF T
<1>7. \A e \in S : ~(n - e < n - d)
  BY <1>5, <1>6 DEF T
<1>8. \A e \in S : e <= d
  BY <1>2, <1>7
<1> QED
  BY <1>8

LEMMA ADay ==
    ASSUME NEW d \in BusinessDays
    PROVE  d \in Days /\ d \in Nat /\ d # 0
<1>1. d \in Days
  BY MarketAssumption
<1> QED
  BY <1>1, MarketAssumption DEF Days

\* The walk backwards passes over no business day of the range.
LEMMA EarlierDay ==
    ASSUME NEW l \in LoaderStates, NEW day \in 1..(LastDay + 1)
    PROVE  /\ Earlier(l, day) \in 0..LastDay /\ Earlier(l, day) < day
           /\ Earlier(l, day) # 0 =>
                Earlier(l, day) \in BusinessDays /\ l.start <= Earlier(l, day)
           /\ \A d \in BusinessDays : l.start <= d /\ d < day => d <= Earlier(l, day)
<1> DEFINE open == {d \in BusinessDays : l.start <= d /\ d < day}
<1>1. LastDay \in Nat /\ BusinessDays \subseteq 1..LastDay
  BY MarketAssumption DEF Days
<1>2. open \in SUBSET (1..LastDay) /\ \A d \in open : d < day /\ d \in BusinessDays /\ l.start <= d
  BY <1>1
<1>3. CASE open = {}
  <2>1. Earlier(l, day) = 0
    BY <1>3 DEF Earlier
  <2> QED
    BY <1>1, <1>3, <2>1
<1>4. CASE open # {}
  <2>1. Earlier(l, day) = CHOOSE d \in open : \A e \in open : e <= d
    BY <1>4 DEF Earlier
  <2> HIDE DEF open
  <2>2. \E d \in open : \A e \in open : e <= d
    BY <1>1, <1>2, <1>4, Greatest
  <2>3. Earlier(l, day) \in open /\ \A e \in open : e <= Earlier(l, day)
    BY <2>1, <2>2
  <2>4. Earlier(l, day) \in 1..LastDay /\ Earlier(l, day) < day
        /\ Earlier(l, day) \in BusinessDays /\ l.start <= Earlier(l, day)
    BY <1>2, <2>3
  <2> QED
    BY <1>1, <2>3, <2>4 DEF open
<1> QED
  BY <1>3, <1>4

\* The source serves some day, and another one only for a day without trade.
LEMMA ServesADay ==
    ASSUME NEW sym \in Symbols, NEW day \in Days
    PROVE  /\ ServedDay(sym, day) \in Days
           /\ ServedDay(sym, day) # day => Traded[sym][day] = {}
<1> DEFINE sessions == {d \in 1..day : \E s \in Symbols : Traded[s][d] # {}}
<1>1. LastDay \in Nat /\ day \in Nat /\ day \in 1..LastDay
  BY MarketAssumption DEF Days
<1>2. sessions \in SUBSET (1..day) /\ (Traded[sym][day] # {} => day \in sessions)
  BY <1>1
<1>3. CASE day \in sessions \/ sessions = {}
  <2>1. ServedDay(sym, day) = day
    BY <1>3 DEF ServedDay
  <2> QED
    BY <2>1
<1>4. CASE ~(day \in sessions \/ sessions = {})
  <2>1. ServedDay(sym, day) = CHOOSE d \in sessions : \A e \in sessions : e <= d
    BY <1>4 DEF ServedDay
  <2> HIDE DEF sessions
  <2>2. \E d \in sessions : \A e \in sessions : e <= d
    BY <1>1, <1>2, <1>4, Greatest
  <2>3. ServedDay(sym, day) \in sessions
    BY <2>1, <2>2
  <2>4. \A d \in 1..day : d \in 1..LastDay
    BY <1>1
  <2>5. ServedDay(sym, day) \in 1..LastDay
    BY <1>2, <2>3, <2>4
  <2> QED
    BY <1>2, <1>4, <2>5 DEF Days
<1> QED
  BY <1>3, <1>4

-----------------------------------------------------------------------------
(* The moves of a stream.                                                  *)

\* What is sound stays so while the source spoils more and the days go on.
LEMMA StaysSound ==
    ASSUME NEW l, NEW sp, NEW td, NEW more, NEW later,
           Sound(l, sp, td), td \in Int, later \in Int, td <= later,
           \A s \in Symbols, d \in Days : sp[s][d] \subseteq more[s][d]
    PROVE  Sound(l, more, later)
<1>1. CASE l.pc = "idle"
  BY <1>1 DEF Sound, LoaderTyped
<1>2. CASE l.pc # "idle"
  <2>1. LoaderTyped(l) /\ DatesSound(l, td) /\ AnswersSound(l, sp) /\ DaySound(l, sp)
    BY <1>2 DEF Sound
  <2>2. DatesSound(l, later)
    BY <2>1 DEF DatesSound, LoaderTyped, LoaderStates, Days
  <2>3. AnswersSound(l, more)
    BY <2>1 DEF AnswersSound, Answered, Complete
  <2>4. l.pc \in {"page", "write"} => Sym(l) \in Symbols /\ l.cur \in Days
    <3> SUFFICES ASSUME l.pc \in {"page", "write"} PROVE Sym(l) \in Symbols /\ l.cur \in Days
      OBVIOUS
    <3>1. l.todo \in Seq(Symbols) /\ l.todo # <<>> /\ l.cur \in BusinessDays
      BY <2>1 DEF LoaderTyped, LoaderStates
    <3> QED
      BY <3>1, HeadTailProperties, MarketAssumption DEF Sym
  <2>5. DaySound(l, more)
    BY <2>1, <2>4 DEF DaySound, PagedTo, Complete
  <2> QED
    BY <2>1, <2>2, <2>3, <2>5 DEF Sound
<1> QED
  BY <1>1, <1>2

\* A stream goes to an earlier day, and the day it leaves is behind it.
LEMMA GoesBack ==
    ASSUME NEW l \in LoaderStates, NEW day \in 1..(LastDay + 1)
    PROVE  LET m == ToDayBefore(l, day) IN
           /\ m \in LoaderStates /\ m.pc = "day" /\ m.cur = Earlier(l, day) /\ m.cur < day
           /\ m.day = {}
           /\ m.list = l.list /\ m.todo = l.todo /\ m.start = l.start /\ m.end = l.end
           /\ m.asked = l.asked /\ m.asOf = l.asOf
           /\ m.collected = l.collected /\ m.skipped = l.skipped
           /\ Sym(m) = Sym(l)
<1>1. Earlier(l, day) \in 0..LastDay /\ Earlier(l, day) < day
  BY EarlierDay
<1> QED
  BY <1>1 DEF ToDayBefore, LoaderStates, Sym

\* The symbol at work is one of the list's.
LEMMA AtWork ==
    ASSUME NEW l \in LoaderStates, l.todo # <<>>
    PROVE  Sym(l) \in Symbols /\ l.todo \in Seq(Symbols)
<1>1. l.todo \in Seq(Symbols)
  BY DEF LoaderStates
<1> QED
  BY <1>1, HeadTailProperties DEF Sym

\* What is collected is the day's, and whole or given up.
LEMMA CollectSound ==
    ASSUME NEW l, NEW sp, NEW td,
           LoaderTyped(l), DatesSound(l, td), AnswersSound(l, sp),
           l.pc \in {"day", "page", "write"}, l.cur # 0,
           NEW bars \in SUBSET Bars,
           l.cur < l.asked =>
             Complete(Sym(l), l.cur, bars, sp) \/ (<<Sym(l), l.cur>> \in l.skipped /\ bars = {})
    PROVE  LET m == Collect(l, bars) IN
           /\ Sound(m, sp, td)
           /\ m.pc = "day" /\ m.todo = l.todo /\ m.cur < l.cur /\ m.cur \in Int
<1> DEFINE k == [l EXCEPT !.collected[Sym(l)][l.cur] = bars]
           m == Collect(l, bars)
<1>1. l \in LoaderStates /\ l.todo # <<>> /\ l.cur \in BusinessDays
      /\ l.start <= l.cur /\ l.cur <= l.end
  BY DEF LoaderTyped, DatesSound
<1>2. Sym(l) \in Symbols /\ l.todo \in Seq(Symbols)
  BY <1>1, AtWork
<1>3. l.cur \in Days /\ l.cur \in 1..(LastDay + 1) /\ l.cur \in Nat /\ BusinessDays \subseteq Days
  <2>1. LastDay \in Nat /\ BusinessDays \subseteq Days
    BY MarketAssumption
  <2>2. l.cur \in Days
    BY <1>1, <2>1
  <2>3. \A d \in Days : d \in 1..(LastDay + 1) /\ d \in Nat
    BY <2>1 DEF Days
  <2> QED
    BY <2>1, <2>2, <2>3
<1>4. /\ k \in LoaderStates
      /\ k.pc = l.pc /\ k.list = l.list /\ k.todo = l.todo /\ k.start = l.start /\ k.end = l.end
      /\ k.asked = l.asked /\ k.asOf = l.asOf /\ k.skipped = l.skipped /\ k.cur = l.cur
      /\ k.collected = [l.collected EXCEPT ![Sym(l)][l.cur] = bars]
  BY <1>1, <1>2, <1>3 DEF LoaderStates
<1>5. \A s \in Symbols, d \in Days :
        k.collected[s][d] = IF s = Sym(l) /\ d = l.cur THEN bars ELSE l.collected[s][d]
  BY <1>1, <1>2, <1>3, <1>4 DEF LoaderStates
<1>6. m = ToDayBefore(k, l.cur)
  BY DEF Collect
<1> HIDE DEF k, m
<1>7. /\ m \in LoaderStates /\ m.pc = "day" /\ m.cur = Earlier(k, l.cur) /\ m.cur < l.cur
      /\ m.day = {}
      /\ m.list = l.list /\ m.todo = l.todo /\ m.start = l.start /\ m.end = l.end
      /\ m.asked = l.asked /\ m.asOf = l.asOf
      /\ m.collected = k.collected /\ m.skipped = l.skipped
      /\ Sym(m) = Sym(l)
  BY <1>3, <1>4, <1>6, GoesBack DEF Sym
<1>8. /\ m.cur \in 0..LastDay
      /\ m.cur # 0 => m.cur \in BusinessDays /\ l.start <= m.cur
      /\ \A d \in BusinessDays : l.start <= d /\ d < l.cur => d <= m.cur
  BY <1>3, <1>4, <1>7, EarlierDay
<1>9. l.start \in Nat /\ l.end \in Nat /\ l.asked \in Nat /\ m.cur \in Int
  BY <1>1, <1>8, MarketAssumption DEF LoaderStates, Days
<1>10. LoaderTyped(m)
  BY <1>1, <1>7 DEF LoaderTyped
<1>11. DatesSound(m, td)
  BY <1>1, <1>3, <1>7, <1>8, <1>9 DEF DatesSound
<1>12. AnswersSound(m, sp)
  <2> SUFFICES ASSUME NEW s \in Symbols, NEW d \in Days, Behind(m, s, d), d < m.asked
               PROVE  Answered(m, s, d, sp)
    BY DEF AnswersSound
  <2>1. d \in Nat
    BY MarketAssumption DEF Days
  <2>2. CASE s = Sym(l) /\ d = l.cur
    <3>1. m.collected[s][d] = bars
      BY <1>5, <1>7, <2>2
    <3> QED
      BY <1>7, <2>2, <3>1 DEF Answered
  <2>3. CASE ~(s = Sym(l) /\ d = l.cur)
    <3>1. m.collected[s][d] = l.collected[s][d]
      BY <1>5, <1>7, <2>3
    <3>2. Behind(l, s, d)
      <4>1. /\ \E i \in DOMAIN l.list : l.list[i] = s
            /\ d \in BusinessDays /\ l.start <= d /\ d <= l.end
            /\ \/ \A i \in DOMAIN l.todo : l.todo[i] # s
               \/ Sym(l) = s /\ m.cur < d
        BY <1>7 DEF Behind
      <4>2. Sym(l) = s /\ m.cur < d => l.cur < d
        BY <1>3, <1>8, <1>9, <2>1, <2>3, <4>1
      <4> QED
        BY <4>1, <4>2 DEF Behind
    <3>3. Answered(l, s, d, sp)
      BY <1>7, <3>2 DEF AnswersSound
    <3> QED
      BY <1>7, <3>1, <3>3 DEF Answered
  <2> QED
    BY <2>2, <2>3
<1>13. DaySound(m, sp)
  BY <1>7 DEF DaySound
<1> QED
  BY <1>7, <1>9, <1>10, <1>11, <1>12, <1>13 DEF Sound, m
\* A move within a day changes neither the dates nor what is answered.
LEMMA WithinADay ==
    ASSUME NEW l, NEW m, NEW sp, NEW td, NEW more,
           Sound(l, sp, td), l.pc \in {"day", "page", "write"},
           m.pc \in {"day", "page", "write"},
           m.list = l.list, m.todo = l.todo, m.start = l.start, m.end = l.end,
           m.asked = l.asked, m.asOf = l.asOf, m.cur = l.cur,
           m.collected = l.collected, l.skipped \subseteq m.skipped,
           \A s \in Symbols, d \in Days : sp[s][d] \subseteq more[s][d]
    PROVE  DatesSound(m, td) /\ AnswersSound(m, more)
<1>1. DatesSound(l, td) /\ AnswersSound(l, sp)
  BY DEF Sound
<1>2. DatesSound(m, td)
  BY <1>1 DEF DatesSound
<1>3. AnswersSound(m, more)
  <2> SUFFICES ASSUME NEW s \in Symbols, NEW d \in Days, Behind(m, s, d), d < m.asked
               PROVE  Answered(m, s, d, more)
    BY DEF AnswersSound
  <2>1. Sym(m) = Sym(l)
    BY DEF Sym
  <2>2. Behind(l, s, d)
    BY <2>1 DEF Behind
  <2>3. Answered(l, s, d, sp)
    BY <1>1, <2>2 DEF AnswersSound
  <2> QED
    BY <2>3 DEF Answered, Complete
<1> QED
  BY <1>2, <1>3

\* A symbol begins with the last day of the range.
LEMMA BeginSound ==
    ASSUME NEW l \in LoaderStates, NEW sp, l.todo # <<>>, today \in Days,
           l.start <= l.end, l.end <= l.asked, l.asked <= today,
           \A s \in Symbols, d \in Days :
              /\ \E i \in DOMAIN l.list : l.list[i] = s
              /\ \A i \in DOMAIN l.todo : l.todo[i] # s
              /\ d \in BusinessDays /\ l.start <= d /\ d <= l.end /\ d < l.asked
              => Answered(l, s, d, sp)
    PROVE  Sound(BeginSymbol(l), sp, today)
<1> DEFINE k == [l EXCEPT !.asOf = today]
           m == BeginSymbol(l)
<1>1. k \in LoaderStates /\ k.end = l.end /\ k.start = l.start /\ k.asked = l.asked
      /\ k.list = l.list /\ k.todo = l.todo /\ k.asOf = today
      /\ k.collected = l.collected /\ k.skipped = l.skipped
  BY DEF LoaderStates
<1>2. LastDay \in Nat /\ l.end \in 1..LastDay /\ l.start \in 1..LastDay
      /\ l.asked \in 1..LastDay /\ today \in 1..LastDay
  BY MarketAssumption DEF LoaderStates, Days
<1>3. l.end + 1 \in 1..(LastDay + 1)
  BY <1>2
<1>4. m = ToDayBefore(k, l.end + 1)
  BY DEF BeginSymbol
<1> HIDE DEF k, m
<1>5. /\ m \in LoaderStates /\ m.pc = "day" /\ m.cur = Earlier(k, l.end + 1)
      /\ m.cur < l.end + 1 /\ m.day = {}
      /\ m.list = l.list /\ m.todo = l.todo /\ m.start = l.start /\ m.end = l.end
      /\ m.asked = l.asked /\ m.asOf = today
      /\ m.collected = l.collected /\ m.skipped = l.skipped
  BY <1>1, <1>3, <1>4, GoesBack
<1>6. /\ m.cur \in 0..LastDay
      /\ m.cur # 0 => m.cur \in BusinessDays /\ l.start <= m.cur
      /\ \A d \in BusinessDays : l.start <= d /\ d < l.end + 1 => d <= m.cur
  BY <1>1, <1>3, <1>5, EarlierDay
<1>7. LoaderTyped(m)
  BY <1>5 DEF LoaderTyped
<1>8. DatesSound(m, today)
  BY <1>2, <1>5, <1>6 DEF DatesSound
<1>9. AnswersSound(m, sp)
  <2> SUFFICES ASSUME NEW s \in Symbols, NEW d \in Days, Behind(m, s, d), d < m.asked
               PROVE  Answered(m, s, d, sp)
    BY DEF AnswersSound
  <2>1. d \in Nat
    BY MarketAssumption DEF Days
  <2>2. /\ \E i \in DOMAIN l.list : l.list[i] = s
        /\ d \in BusinessDays /\ l.start <= d /\ d <= l.end
        /\ \/ \A i \in DOMAIN l.todo : l.todo[i] # s
           \/ m.cur < d
    BY <1>5 DEF Behind
  <2>3. ~(m.cur < d)
    BY <1>2, <1>6, <2>1, <2>2
  <2>4. Answered(l, s, d, sp)
    BY <1>5, <2>2, <2>3
  <2> QED
    BY <1>5, <2>4 DEF Answered
<1>10. DaySound(m, sp)
  BY <1>5 DEF DaySound
<1> QED
  BY <1>5, <1>7, <1>8, <1>9, <1>10 DEF Sound, m

-----------------------------------------------------------------------------
(* One process moves, the others and the table are as sound as before.     *)

LEMMA TableStays ==
    ASSUME MinuteInv, minuteDb' = minuteDb, today' \in Int, today <= today',
           \A s \in Symbols, d \in Days : spoiled[s][d] \subseteq spoiled'[s][d]
    PROVE  CachedDaysAreWhole'
<1>1. today \in Int /\ \A d \in Days : d \in Int
  BY MarketAssumption DEF MinuteInv, MarketTypeOK, Days
<1> QED
  BY <1>1 DEF MinuteInv, CachedDaysAreWhole, Cached, Whole

LEMMA OneMoves ==
    ASSUME MinuteInv, NEW w \in Workers, NEW m,
           loader' = [loader EXCEPT ![w] = m], Sound(m, spoiled', today'),
           MarketTypeOK', today <= today', CachedDaysAreWhole',
           minuteDb' \in [Symbols -> [Days -> SUBSET Bars]], flaws' \in Nat,
           spoiled' \in [Symbols -> [Days -> SUBSET Bars]],
           \A s \in Symbols, d \in Days : spoiled[s][d] \subseteq spoiled'[s][d]
    PROVE  MinuteInv'
<1>1. loader \in [Workers -> LoaderStates] /\ today \in Int /\ today' \in Int
  BY MarketAssumption DEF MinuteInv, MinuteTypeOK, MarketTypeOK, Days
<1>2. loader'[w] = m /\ \A v \in Workers \ {w} : loader'[v] = loader[v]
  BY <1>1
<1>3. \A v \in Workers : Sound(loader'[v], spoiled', today')
  <2> TAKE v \in Workers
  <2>1. CASE v = w
    BY <1>2, <2>1
  <2>2. CASE v # w
    <3>1. Sound(loader[v], spoiled, today)
      BY DEF MinuteInv
    <3>2. Sound(loader[v], spoiled', today')
      BY <1>1, <3>1, StaysSound
    <3> QED
      BY <1>2, <2>2, <3>2
  <2> QED
    BY <2>1, <2>2
<1>4. m \in LoaderStates
  BY DEF Sound, LoaderTyped
<1>5. loader' \in [Workers -> LoaderStates]
  BY <1>1, <1>4
<1>6. MinuteTypeOK'
  BY <1>3, <1>5 DEF MinuteTypeOK, Sound, LoaderTyped
<1> QED
  BY <1>3, <1>6 DEF MinuteInv

\* The same for a step that leaves the table and the source alone.
LEMMA OnlyOneMoves ==
    ASSUME MinuteInv, NEW w \in Workers, NEW m,
           loader' = [loader EXCEPT ![w] = m], Sound(m, spoiled, today),
           UNCHANGED <<clockVars, minuteDb, flaws, spoiled>>, calls' \in 0..MaxCalls
    PROVE  MinuteInv'
<1>1. today' = today /\ now' = now /\ minuteDb' = minuteDb /\ flaws' = flaws
      /\ spoiled' = spoiled
  BY DEF clockVars
<1>2. MarketTypeOK' /\ today \in Int /\ today <= today /\ today' \in Int
  BY <1>1, MarketAssumption DEF MinuteInv, MarketTypeOK, Days
<1>3. /\ minuteDb' \in [Symbols -> [Days -> SUBSET Bars]] /\ flaws' \in Nat
      /\ spoiled' \in [Symbols -> [Days -> SUBSET Bars]]
  BY <1>1 DEF MinuteInv, MinuteTypeOK
<1>4. CachedDaysAreWhole'
  BY <1>1, <1>2, TableStays
<1>5. Sound(m, spoiled', today')
  BY <1>1
<1> QED
  BY <1>1, <1>2, <1>3, <1>4, <1>5, OneMoves

\* What a request of a running stream starts from.
LEMMA Running ==
    ASSUME MinuteInv, NEW w \in Workers, loader[w].pc \in {"day", "page", "write"}
    PROVE  /\ Sound(loader[w], spoiled, today) /\ LoaderTyped(loader[w])
           /\ loader[w] \in LoaderStates
           /\ DatesSound(loader[w], today) /\ AnswersSound(loader[w], spoiled)
           /\ DaySound(loader[w], spoiled)
           /\ loader[w].todo # <<>> /\ Sym(loader[w]) \in Symbols
           /\ today \in Days /\ calls \in 0..MaxCalls /\ now \in 0..BarsPerDay
           /\ spoiled \in [Symbols -> [Days -> SUBSET Bars]]
           /\ minuteDb \in [Symbols -> [Days -> SUBSET Bars]]
<1>1. Sound(loader[w], spoiled, today)
  BY DEF MinuteInv
<1>2. LoaderTyped(loader[w]) /\ loader[w] \in LoaderStates
  BY <1>1 DEF Sound, LoaderTyped
<1>3. DatesSound(loader[w], today) /\ AnswersSound(loader[w], spoiled)
      /\ DaySound(loader[w], spoiled)
  BY <1>1 DEF Sound
<1>4. loader[w].todo \in Seq(Symbols) /\ loader[w].todo # <<>>
  BY <1>2 DEF LoaderTyped, LoaderStates
<1>5. Sym(loader[w]) \in Symbols
  BY <1>4, HeadTailProperties DEF Sym
<1> QED
  BY <1>1, <1>2, <1>3, <1>4, <1>5 DEF MinuteInv, MinuteTypeOK, MarketTypeOK

LEMMA IdleSound ==
    ASSUME NEW sp, today \in Days
    PROVE  Idle \in LoaderStates /\ Sound(Idle, sp, today)
<1>1. 1 \in Days /\ 0 \in 0..LastDay /\ 0 \in 0..BarsPerDay
      /\ 0 \in 0..TimeoutRetries /\ 0 \in 0..RateRetries
  BY MarketAssumption, MinuteAssumption DEF Days
<1>2. /\ [s \in Symbols |-> [d \in Days |-> {}]] \in [Symbols -> [Days -> SUBSET Bars]]
      /\ <<>> \in Seq(Symbols)
  OBVIOUS
<1>3. Idle \in LoaderStates
  BY <1>1, <1>2 DEF Idle, LoaderStates
<1> QED
  BY <1>3 DEF Sound, LoaderTyped, Idle

LEMMA StreamKeeps ==
    ASSUME MinuteInv, NEW w \in Workers, Stream(w), UNCHANGED clockVars
    PROVE  MinuteInv'
<1>1. today \in Days /\ calls \in 0..MaxCalls
  BY DEF MinuteInv, MarketTypeOK
<1>2. calls' \in 0..MaxCalls
  BY <1>1, MarketAssumption DEF Stream, Called
<1>3. PICK list \in SymbolLists, range \in Ranges :
        /\ range[2] <= today
        /\ loader' = [loader EXCEPT ![w] = BeginSymbol(
              [Idle EXCEPT !.list = list, !.todo = list, !.asked = today,
                           !.start = range[1], !.end = range[2]])]
  BY DEF Stream
<1> DEFINE l == [Idle EXCEPT !.list = list, !.todo = list, !.asked = today,
                             !.start = range[1], !.end = range[2]]
<1>4. list \in Seq(Symbols) /\ list # <<>>
      /\ range[1] \in Days /\ range[2] \in Days /\ range[1] <= range[2]
  BY MinuteAssumption
<1>5. Idle \in LoaderStates
  BY <1>1, IdleSound
<1>6. l \in LoaderStates
  BY <1>1, <1>4, <1>5 DEF LoaderStates
<1>7. l.list = list /\ l.todo = list /\ l.asked = today /\ l.start = range[1]
      /\ l.end = range[2]
  BY DEF Idle
<1>8. today <= today
  BY <1>1, MarketAssumption DEF Days
<1>9. \A s \in Symbols, d \in Days :
        /\ \E i \in DOMAIN l.list : l.list[i] = s
        /\ \A i \in DOMAIN l.todo : l.todo[i] # s
        /\ d \in BusinessDays /\ l.start <= d /\ d <= l.end /\ d < l.asked
        => Answered(l, s, d, spoiled)
  BY <1>7
<1>10. loader' = [loader EXCEPT ![w] = BeginSymbol(l)]
  BY <1>3
<1>11. UNCHANGED <<clockVars, minuteDb, flaws, spoiled>>
  BY DEF Stream
<1> HIDE DEF l
<1>12. Sound(BeginSymbol(l), spoiled, today)
  BY <1>1, <1>3, <1>4, <1>6, <1>7, <1>8, <1>9, BeginSound
<1> QED
  BY <1>2, <1>10, <1>11, <1>12, OnlyOneMoves

LEMMA LookUpKeeps ==
    ASSUME MinuteInv, NEW w \in Workers, LookUp(w), UNCHANGED clockVars
    PROVE  MinuteInv'
<1> DEFINE l == loader[w]
           m == [l EXCEPT !.pc = "page", !.cursor = BarsPerDay, !.timeouts = 0, !.limits = 0]
<1>1. l.pc = "day" /\ l.cur # 0
  BY DEF LookUp
<1>2. /\ Sound(l, spoiled, today) /\ LoaderTyped(l) /\ l \in LoaderStates
      /\ DatesSound(l, today) /\ AnswersSound(l, spoiled)
      /\ l.todo # <<>> /\ Sym(l) \in Symbols /\ today \in Days /\ calls \in 0..MaxCalls
      /\ minuteDb \in [Symbols -> [Days -> SUBSET Bars]]
  BY <1>1, Running
<1>3. UNCHANGED <<clockVars, minuteDb, flaws, spoiled>> /\ calls' \in 0..MaxCalls
  BY <1>2 DEF LookUp
<1>4. l.cur \in BusinessDays /\ l.cur \in Days
  BY <1>1, <1>2, MarketAssumption DEF DatesSound
<1> HIDE DEF l, m
<1>5. CASE l.cur # l.asOf /\ Cached(Sym(l), l.cur)
  <2> DEFINE bars == minuteDb[Sym(l)][l.cur]
  <2>1. loader' = [loader EXCEPT ![w] = Collect(l, bars)]
    BY <1>5 DEF LookUp, l
  <2>2. bars \in SUBSET Bars
    BY <1>2, <1>4
  <2>3. Complete(Sym(l), l.cur, bars, spoiled)
    BY <1>2, <1>4, <1>5 DEF MinuteInv, CachedDaysAreWhole, Whole, Complete
  <2> HIDE DEF bars
  <2>4. Sound(Collect(l, bars), spoiled, today)
    BY <1>1, <1>2, <2>2, <2>3, CollectSound
  <2> QED
    BY <1>3, <2>1, <2>4, OnlyOneMoves
<1>6. CASE ~(l.cur # l.asOf /\ Cached(Sym(l), l.cur))
  <2>1. loader' = [loader EXCEPT ![w] = m]
    BY <1>6 DEF LookUp, l, m
  <2>2. /\ m \in LoaderStates /\ m.pc = "page" /\ m.cursor = BarsPerDay
        /\ m.list = l.list /\ m.todo = l.todo /\ m.start = l.start /\ m.end = l.end
        /\ m.asked = l.asked /\ m.asOf = l.asOf /\ m.cur = l.cur
        /\ m.collected = l.collected /\ m.skipped = l.skipped /\ m.day = l.day
    <3>1. BarsPerDay \in 0..BarsPerDay /\ 0 \in 0..TimeoutRetries /\ 0 \in 0..RateRetries
      BY MarketAssumption, MinuteAssumption
    <3>2. m \in LoaderStates
      BY <1>2, <3>1 DEF m, LoaderStates
    <3> QED
      BY <1>2, <3>2 DEF m, LoaderStates
  <2>3. DatesSound(m, today) /\ AnswersSound(m, spoiled)
    BY <1>1, <1>2, <2>2, WithinADay
  <2>4. m.day = {}
    BY <1>1, <1>2, <2>2 DEF Sound, DaySound
  <2>5. Sym(m) = Sym(l) /\ Traded[Sym(l)][l.cur] \subseteq Bars
    BY <1>2, <1>4, <2>2, MarketAssumption DEF Sym
  <2>6. PagedTo(m, m.cursor, m.day, spoiled)
    BY <2>2, <2>4, <2>5, MarketAssumption DEF PagedTo, Bars
  <2>7. DaySound(m, spoiled)
    BY <2>2, <2>6 DEF DaySound
  <2>8. LoaderTyped(m)
    BY <1>2, <1>4, <2>2 DEF LoaderTyped
  <2>9. Sound(m, spoiled, today)
    BY <2>2, <2>3, <2>7, <2>8 DEF Sound
  <2> QED
    BY <1>3, <2>1, <2>9, OnlyOneMoves
<1> QED
  BY <1>5, <1>6

LEMMA NextSymbolKeeps ==
    ASSUME MinuteInv, NEW w \in Workers, NextSymbol(w), UNCHANGED clockVars
    PROVE  MinuteInv'
<1> DEFINE l == loader[w]
<1>1. l.pc = "day" /\ l.cur = 0
  BY DEF NextSymbol
<1>2. /\ LoaderTyped(l) /\ l \in LoaderStates
      /\ DatesSound(l, today) /\ AnswersSound(l, spoiled)
      /\ l.todo # <<>> /\ Sym(l) \in Symbols /\ today \in Days /\ calls \in 0..MaxCalls
  BY <1>1, Running
<1>3. UNCHANGED <<clockVars, minuteDb, flaws, spoiled>> /\ calls' \in 0..MaxCalls
  BY <1>2 DEF NextSymbol
<1>4. l.todo \in Seq(Symbols)
  BY <1>2 DEF LoaderStates
<1>5. loader' = [loader EXCEPT ![w] =
         IF Len(l.todo) = 1 THEN [l EXCEPT !.pc = "done", !.todo = <<>>]
         ELSE BeginSymbol([l EXCEPT !.todo = Tail(l.todo)])]
  BY DEF NextSymbol
<1>6. Sym(l) = Head(l.todo) /\ \A d \in Days : d \in Nat /\ 0 < d
  BY MarketAssumption DEF Sym, Days
<1> HIDE DEF l
<1>7. CASE Len(l.todo) = 1
  <2> DEFINE m == [l EXCEPT !.pc = "done", !.todo = <<>>]
  <2>1. /\ m \in LoaderStates /\ m.pc = "done" /\ m.todo = <<>>
        /\ m.list = l.list /\ m.start = l.start /\ m.end = l.end
        /\ m.asked = l.asked /\ m.asOf = l.asOf /\ m.cur = l.cur
        /\ m.collected = l.collected /\ m.skipped = l.skipped
    <3>1. <<>> \in Seq(Symbols)
      OBVIOUS
    <3> QED
      BY <1>2, <3>1 DEF LoaderStates
  <2>2. \A i \in DOMAIN l.todo : l.todo[i] = Sym(l)
    <3>1. DOMAIN l.todo = 1..Len(l.todo)
      BY <1>4
    <3>2. Head(l.todo) = l.todo[1]
      BY <1>4
    <3> QED
      BY <1>6, <1>7, <3>1, <3>2
  <2>3. loader' = [loader EXCEPT ![w] = m]
    BY <1>5, <1>7
  <2> HIDE DEF m
  <2>4. DatesSound(m, today)
    BY <1>2, <2>1 DEF DatesSound
  <2>5. AnswersSound(m, spoiled)
    <3> SUFFICES ASSUME NEW s \in Symbols, NEW d \in Days, Behind(m, s, d), d < m.asked
                 PROVE  Answered(m, s, d, spoiled)
      BY DEF AnswersSound
    <3>1. /\ \E i \in DOMAIN l.list : l.list[i] = s
          /\ d \in BusinessDays /\ l.start <= d /\ d <= l.end
      BY <2>1 DEF Behind
    <3>2. Behind(l, s, d)
      BY <1>1, <1>6, <2>2, <3>1 DEF Behind
    <3>3. Answered(l, s, d, spoiled)
      BY <1>2, <2>1, <3>2 DEF AnswersSound
    <3> QED
      BY <2>1, <3>3 DEF Answered
  <2>6. DaySound(m, spoiled) /\ LoaderTyped(m)
    BY <2>1 DEF DaySound, LoaderTyped
  <2>7. Sound(m, spoiled, today)
    BY <2>1, <2>4, <2>5, <2>6 DEF Sound
  <2> QED
    BY <1>3, <2>3, <2>7, OnlyOneMoves
<1>8. CASE Len(l.todo) # 1
  <2> DEFINE rest == Tail(l.todo)
             m == [l EXCEPT !.todo = rest]
  <2>1. rest \in Seq(Symbols) /\ rest # <<>> /\ Len(rest) = Len(l.todo) - 1
        /\ \A i \in 1..Len(rest) : rest[i] = l.todo[i+1]
    <3>1. rest \in Seq(Symbols) /\ Len(rest) = Len(l.todo) - 1
          /\ \A i \in 1..Len(rest) : rest[i] = l.todo[i+1]
      BY <1>2, <1>4, HeadTailProperties
    <3>2. Len(l.todo) \in Nat /\ Len(l.todo) # 1
      BY <1>4, <1>8
    <3>3. Len(rest) # 0
      BY <3>1, <3>2
    <3> HIDE DEF rest
    <3>4. rest # <<>>
      BY <3>3
    <3> QED
      BY <3>1, <3>4
  <2>2. loader' = [loader EXCEPT ![w] = BeginSymbol(m)]
    BY <1>5, <1>8
  <2> HIDE DEF rest
  <2>3. /\ m \in LoaderStates /\ m.todo = rest
        /\ m.list = l.list /\ m.start = l.start /\ m.end = l.end
        /\ m.asked = l.asked /\ m.asOf = l.asOf /\ m.cur = l.cur
        /\ m.collected = l.collected /\ m.skipped = l.skipped
    BY <1>2, <2>1 DEF LoaderStates
  <2> HIDE DEF m
  <2>4. m.start <= m.end /\ m.end <= m.asked /\ m.asked <= today
    BY SMTT(30), <1>2, <2>3, MarketAssumption DEF DatesSound, LoaderStates, Days
  <2>5. ASSUME NEW s \in Symbols, NEW d \in Days,
               /\ \E i \in DOMAIN m.list : m.list[i] = s
               /\ \A i \in DOMAIN m.todo : m.todo[i] # s
               /\ d \in BusinessDays /\ m.start <= d /\ d <= m.end /\ d < m.asked
        PROVE  Answered(m, s, d, spoiled)
    <3>1. s # Sym(l) => \A i \in DOMAIN l.todo : l.todo[i] # s
      <4> SUFFICES ASSUME s # Sym(l), NEW i \in DOMAIN l.todo, l.todo[i] = s PROVE FALSE
        OBVIOUS
      <4>1. i \in 1..Len(l.todo) /\ l.todo[1] = Sym(l) /\ Len(l.todo) \in Nat
        BY <1>4, <1>6
      <4>2. i # 1 /\ i - 1 \in 1..Len(rest)
        BY <2>1, <4>1
      <4>3. rest[i - 1] = l.todo[i]
        BY <2>1, <4>1, <4>2
      <4>4. i - 1 \in DOMAIN m.todo
        BY <2>1, <2>3, <4>2
      <4> QED
        BY <2>3, <2>5, <4>3, <4>4
    <3>2. Behind(l, s, d)
      BY <1>1, <1>6, <2>3, <2>5, <3>1 DEF Behind
    <3>3. Answered(l, s, d, spoiled)
      BY <1>2, <2>3, <2>5, <3>2 DEF AnswersSound
    <3> QED
      BY <2>3, <3>3 DEF Answered
  <2>6. m.todo # <<>>
    BY <2>1, <2>3
  <2>7. Sound(BeginSymbol(m), spoiled, today)
    BY <1>2, <2>3, <2>4, <2>5, <2>6, BeginSound
  <2> QED
    BY <1>3, <2>2, <2>7, OnlyOneMoves
<1> QED
  BY <1>7, <1>8

LEMMA FailsKeeps ==
    ASSUME MinuteInv, NEW w \in Workers, Raise(w), calls' = calls,
           UNCHANGED <<clockVars, minuteDb, flaws, spoiled>>
    PROVE  MinuteInv'
<1>1. today \in Days /\ calls' \in 0..MaxCalls
  BY DEF MinuteInv, MarketTypeOK
<1>2. Sound(Idle, spoiled, today)
  BY <1>1, IdleSound
<1> QED
  BY <1>1, <1>2, OnlyOneMoves DEF Raise

\* Another request for the same page, with its counters as they may be.
LEMMA RetryKeeps ==
    ASSUME MinuteInv, NEW w \in Workers, loader[w].pc = "page",
           NEW t \in 0..TimeoutRetries, NEW r \in 0..RateRetries, calls' = calls,
           loader' = [loader EXCEPT ![w] = [loader[w] EXCEPT !.timeouts = t, !.limits = r]],
           UNCHANGED <<clockVars, minuteDb, flaws, spoiled>>
    PROVE  MinuteInv'
<1> DEFINE l == loader[w]
           m == [l EXCEPT !.timeouts = t, !.limits = r]
<1>1. /\ Sound(l, spoiled, today) /\ LoaderTyped(l) /\ l \in LoaderStates
      /\ DaySound(l, spoiled) /\ l.pc = "page" /\ calls' \in 0..MaxCalls
  BY Running
<1>2. loader' = [loader EXCEPT ![w] = m]
  OBVIOUS
<1> HIDE DEF l
<1>3. /\ m \in LoaderStates /\ m.pc = "page" /\ m.cursor = l.cursor /\ m.day = l.day
      /\ m.list = l.list /\ m.todo = l.todo /\ m.start = l.start /\ m.end = l.end
      /\ m.asked = l.asked /\ m.asOf = l.asOf /\ m.cur = l.cur
      /\ m.collected = l.collected /\ m.skipped = l.skipped
  BY <1>1 DEF LoaderStates
<1> HIDE DEF m
<1>4. DatesSound(m, today) /\ AnswersSound(m, spoiled)
  BY <1>1, <1>3, WithinADay
<1>5. DaySound(m, spoiled)
  BY <1>1, <1>3 DEF DaySound, PagedTo, Sym
<1>6. LoaderTyped(m)
  BY <1>1, <1>3 DEF LoaderTyped
<1>7. Sound(m, spoiled, today)
  BY <1>3, <1>4, <1>5, <1>6 DEF Sound
<1> QED
  BY <1>1, <1>2, <1>7, OnlyOneMoves

LEMMA TimeoutKeeps ==
    ASSUME MinuteInv, NEW w \in Workers, Timeout(w), UNCHANGED clockVars
    PROVE  MinuteInv'
<1> DEFINE l == loader[w]
           k == [l EXCEPT !.skipped = @ \cup {<<Sym(l), l.cur>>}]
<1>1. l.pc = "page" /\ calls' = calls /\ UNCHANGED <<clockVars, minuteDb, flaws, spoiled>>
  BY DEF Timeout
<1>2. /\ Sound(l, spoiled, today) /\ LoaderTyped(l) /\ l \in LoaderStates
      /\ DatesSound(l, today) /\ AnswersSound(l, spoiled)
      /\ l.todo # <<>> /\ Sym(l) \in Symbols /\ today \in Days /\ calls \in 0..MaxCalls
  BY <1>1, Running
<1>3. CASE l.timeouts < TimeoutRetries
  <2>1. l.timeouts + 1 \in 0..TimeoutRetries /\ l.limits \in 0..RateRetries
    BY SMTT(30), <1>2, <1>3, MinuteAssumption DEF LoaderStates
  <2>2. loader' = [loader EXCEPT ![w] = [l EXCEPT !.timeouts = l.timeouts + 1,
                                                  !.limits = l.limits]]
    <3>1. loader' = [loader EXCEPT ![w] = [l EXCEPT !.timeouts = l.timeouts + 1]]
      BY <1>3 DEF Timeout
    <3>2. [l EXCEPT !.timeouts = l.timeouts + 1]
            = [l EXCEPT !.timeouts = l.timeouts + 1, !.limits = l.limits]
      BY <1>2 DEF LoaderStates
    <3> QED
      BY <3>1, <3>2
  <2> QED
    BY <1>1, <2>1, <2>2, RetryKeeps
<1>4. CASE ~(l.timeouts < TimeoutRetries)
  <2>1. loader' = [loader EXCEPT ![w] = Collect(k, {})]
    BY <1>4 DEF Timeout
  <2>2. l.cur \in BusinessDays /\ l.cur \in Days /\ l.cur # 0
    <3>1. l.cur \in BusinessDays
      BY <1>1, <1>2 DEF LoaderTyped
    <3> QED
      BY <3>1, ADay
  <2>3. /\ k \in LoaderStates /\ k.pc = "page" /\ k.list = l.list /\ k.todo = l.todo
        /\ k.start = l.start /\ k.end = l.end /\ k.asked = l.asked /\ k.asOf = l.asOf
        /\ k.cur = l.cur /\ k.collected = l.collected
        /\ k.skipped = l.skipped \cup {<<Sym(l), l.cur>>} /\ Sym(k) = Sym(l)
    <3> HIDE DEF l
    <3>1. l.skipped \cup {<<Sym(l), l.cur>>} \in SUBSET (Symbols \X Days)
      BY <1>2, <2>2 DEF LoaderStates
    <3>2. k \in LoaderStates
      BY <1>2, <3>1 DEF LoaderStates
    <3> QED
      BY <1>1, <1>2, <3>2 DEF LoaderStates, Sym
  <2> HIDE DEF l, k
  <2>4. DatesSound(k, today) /\ AnswersSound(k, spoiled)
    BY <1>1, <1>2, <2>3, WithinADay
  <2>5. LoaderTyped(k)
    BY <1>2, <2>2, <2>3 DEF LoaderTyped
  <2>6. <<Sym(k), k.cur>> \in k.skipped
    BY <2>3
  <2>7. Sound(Collect(k, {}), spoiled, today)
    <3>1. {} \in SUBSET Bars
      OBVIOUS
    <3> QED
      BY <2>2, <2>3, <2>4, <2>5, <2>6, <3>1, CollectSound
  <2> QED
    BY <1>1, <1>2, <2>1, <2>7, OnlyOneMoves
<1> QED
  BY <1>3, <1>4

LEMMA RateLimitedKeeps ==
    ASSUME MinuteInv, NEW w \in Workers, RateLimited(w), UNCHANGED clockVars
    PROVE  MinuteInv'
<1> DEFINE l == loader[w]
<1>1. l.pc = "page" /\ calls' = calls /\ UNCHANGED <<clockVars, minuteDb, flaws, spoiled>>
  BY DEF RateLimited
<1>2. l \in LoaderStates /\ loader \in [Workers -> LoaderStates]
  BY <1>1, Running DEF MinuteInv, MinuteTypeOK
<1>3. CASE l.limits < RateRetries
  <2>1. 0 \in 0..TimeoutRetries /\ l.limits + 1 \in 0..RateRetries
    BY <1>2, <1>3, MinuteAssumption DEF LoaderStates
  <2>2. loader' = [loader EXCEPT ![w] = [loader[w] EXCEPT !.timeouts = 0,
                                                          !.limits = loader[w].limits + 1]]
    <3>1. loader' = [loader EXCEPT ![w].limits = @ + 1, ![w].timeouts = 0]
      BY <1>3 DEF RateLimited
    <3> QED
      BY <1>2, <3>1 DEF LoaderStates
  <2> QED
    BY <1>1, <2>1, <2>2, RetryKeeps
<1>4. CASE ~(l.limits < RateRetries)
  <2>1. Raise(w)
    BY <1>4 DEF RateLimited
  <2> QED
    BY <1>1, <2>1, FailsKeeps
<1> QED
  BY <1>3, <1>4

\* The rows of a day come from one complete answer or from several.
LEMMA WriteKeeps ==
    ASSUME MinuteInv, NEW w \in Workers, Write(w), UNCHANGED clockVars
    PROVE  MinuteInv'
<1> DEFINE l == loader[w]
           sym == Sym(l)
           m == Collect(l, l.day)
<1>1. l.pc = "write" /\ calls' = calls /\ UNCHANGED <<clockVars, flaws, spoiled>>
  BY DEF Write
<1>2. /\ minuteDb' = [minuteDb EXCEPT ![sym][l.cur] = @ \cup l.day]
      /\ loader' = [loader EXCEPT ![w] = m]
  BY DEF Write
<1>3. /\ LoaderTyped(l) /\ l \in LoaderStates
      /\ DatesSound(l, today) /\ AnswersSound(l, spoiled) /\ DaySound(l, spoiled)
      /\ l.todo # <<>> /\ sym \in Symbols /\ today \in Days /\ calls \in 0..MaxCalls
      /\ spoiled \in [Symbols -> [Days -> SUBSET Bars]]
      /\ minuteDb \in [Symbols -> [Days -> SUBSET Bars]]
  BY <1>1, Running
<1>4. l.cur \in BusinessDays /\ l.cur \in Days /\ l.cur # 0 /\ l.day \in SUBSET Bars
  <2>1. l.cur \in BusinessDays /\ l.day \in SUBSET Bars
    BY <1>1, <1>3 DEF LoaderTyped, LoaderStates
  <2> QED
    BY <2>1, ADay
<1>5. Complete(sym, l.cur, l.day, spoiled) /\ l.cur < l.asOf
  BY <1>1, <1>3 DEF DaySound
<1>6. l.cur < today
  <2>1. l.cur \in Nat /\ l.asOf \in Nat /\ today \in Nat /\ l.asOf <= today
    BY SMTT(30), <1>3, <1>4, MarketAssumption DEF DatesSound, LoaderStates, Days
  <2> QED
    BY <1>5, <2>1
<1> HIDE DEF l
<1>7. Sound(m, spoiled, today)
  BY <1>1, <1>3, <1>4, <1>5, CollectSound
<1> HIDE DEF sym, m
<1>8. /\ minuteDb' \in [Symbols -> [Days -> SUBSET Bars]]
      /\ \A s \in Symbols, d \in Days :
           minuteDb'[s][d] = IF s = sym /\ d = l.cur THEN minuteDb[s][d] \cup l.day
                             ELSE minuteDb[s][d]
  BY <1>2, <1>3, <1>4
<1>9. CachedDaysAreWhole'
  <2> SUFFICES ASSUME NEW s \in Symbols, NEW d \in Days, minuteDb'[s][d] # {}
               PROVE  d < today /\ minuteDb'[s][d] \subseteq Traded[s][d]
                      /\ Traded[s][d] \subseteq minuteDb'[s][d] \cup spoiled[s][d]
    BY <1>1 DEF CachedDaysAreWhole, Cached, Whole, clockVars
  <2>1. minuteDb[s][d] # {} =>
          d < today /\ minuteDb[s][d] \subseteq Traded[s][d]
          /\ Traded[s][d] \subseteq minuteDb[s][d] \cup spoiled[s][d]
    BY DEF MinuteInv, CachedDaysAreWhole, Cached, Whole
  <2>2. CASE s = sym /\ d = l.cur
    <3>1. minuteDb'[s][d] = minuteDb[s][d] \cup l.day
      BY <1>8, <2>2
    <3>2. l.day \subseteq Traded[s][d] /\ Traded[s][d] \subseteq l.day \cup spoiled[s][d]
      BY <1>5, <2>2 DEF Complete
    <3>3. minuteDb[s][d] \subseteq Traded[s][d]
      BY <2>1
    <3> QED
      BY <1>6, <2>2, <3>1, <3>2, <3>3
  <2>3. CASE ~(s = sym /\ d = l.cur)
    BY <1>8, <2>1, <2>3
  <2> QED
    BY <2>2, <2>3
<1>10. MarketTypeOK' /\ today' = today /\ today <= today' /\ Sound(m, spoiled', today')
  BY <1>1, <1>3, <1>7, MarketAssumption DEF MinuteInv, MarketTypeOK, clockVars, Days
<1>11. flaws' \in Nat /\ spoiled' = spoiled
  BY <1>1 DEF MinuteInv, MinuteTypeOK
<1> QED
  BY <1>2, <1>3, <1>8, <1>9, <1>10, <1>11, OneMoves

-----------------------------------------------------------------------------
(* A page.                                                                 *)

\* Of a day that is over, a page lacks a row up to the cursor only if it is
\* full of later ones.
LEMMA PageRows ==
    ASSUME NEW sym \in Symbols, NEW day \in Days, NEW cursor \in 0..BarsPerDay,
           NEW rows \in Answers(sym, day, cursor), today \in Days
    PROVE  /\ rows \in SUBSET Bars
           /\ ServedDay(sym, day) = day => rows \subseteq Traded[sym][day]
           /\ day < today => \A b \in Traded[sym][day] : b <= cursor =>
                \/ b \in rows
                \/ /\ Cardinality(rows) = PageSize
                   /\ \A r \in rows : b < r
<1> DEFINE served == ServedDay(sym, day)
           upTo(c) == {b \in Shown(sym, served) : b <= c}
<1>1. served \in Days /\ (served # day => Traded[sym][day] = {})
  BY ServesADay
<1>2. Traded[sym][served] \subseteq Bars /\ Traded[sym][day] \subseteq Bars
  BY <1>1, MarketAssumption
<1>3. PICK c \in {cursor, cursor + 1} : rows \in Pages(upTo(c))
  BY DEF Answers
<1>4. rows \subseteq upTo(c)
  BY <1>3 DEF Pages
<1>5. upTo(c) \subseteq Traded[sym][served]
  BY DEF Shown
<1>6. ASSUME day < today, NEW b \in Traded[sym][day], b <= cursor
      PROVE  \/ b \in rows
             \/ /\ Cardinality(rows) = PageSize
                /\ \A r \in rows : b < r
  <2>1. served = day
    BY <1>1, <1>6
  <2>2. b \in Int /\ cursor \in Int
    BY <1>2, <1>6, MarketAssumption DEF Bars
  <2>3. b <= c
    BY <1>6, <2>2
  <2>4. b \in upTo(c)
    BY <1>6, <2>1, <2>3 DEF Shown
  <2> HIDE DEF upTo
  <2> QED
    BY <1>3, <2>4 DEF Pages
<1> QED
  BY <1>2, <1>4, <1>5, <1>6

Kept(l, rows, bad) == IF ServedDay(Sym(l), l.cur) = l.cur THEN rows \ bad ELSE {}

Lost(l, rows, bad, untimed) ==
    IF rows \ untimed = {} /\ rows # {} THEN 1..l.cursor ELSE bad

\* With the page that ends a day the day is whole, up to what the source
\* spoiled in it.
LEMMA DayEnds ==
    ASSUME NEW l, Sym(l) \in Symbols, l.cur \in Days, l.cursor \in 0..BarsPerDay,
           today \in Days, l.cur < today,
           NEW rows \in Answers(Sym(l), l.cur, l.cursor),
           NEW bad \in SUBSET rows, NEW untimed \in SUBSET rows,
           PageEndsDay(rows, rows \ untimed), NEW sp, NEW more,
           PagedTo(l, l.cursor, l.day, sp),
           sp[Sym(l)][l.cur] \subseteq more[Sym(l)][l.cur],
           Lost(l, rows, bad, untimed) \cap Traded[Sym(l)][l.cur] \subseteq more[Sym(l)][l.cur]
    PROVE  Complete(Sym(l), l.cur, l.day \cup Kept(l, rows, bad), more)
<1> DEFINE day == l.cur
           cursor == l.cursor
           here == Traded[Sym(l)][day]
           got == l.day \cup Kept(l, rows, bad)
           lost == more[Sym(l)][day]
<1>1. /\ rows \in SUBSET Bars
      /\ ServedDay(Sym(l), day) = day => rows \subseteq here
      /\ \A b \in here : b <= cursor =>
           \/ b \in rows
           \/ Cardinality(rows) = PageSize /\ \A r \in rows : b < r
  BY PageRows
<1>2. l.day \subseteq here /\ \A b \in here : b > cursor => b \in l.day \cup lost
  BY DEF PagedTo
<1>3. got \subseteq here
  BY <1>1, <1>2 DEF Kept
<1>4. ASSUME NEW b \in here PROVE b \in got \cup lost
  <2>1. b \in Int /\ 1 <= b /\ cursor \in Int
    <3>1. b \in Bars
      BY MarketAssumption
    <3> QED
      BY <3>1, MarketAssumption DEF Bars
  <2>2. ServedDay(Sym(l), day) = day
    BY ServesADay
  <2>3. CASE b > cursor
    BY <1>2, <2>3
  <2>4. CASE b <= cursor /\ rows \ untimed = {} /\ rows # {}
    <3>1. b \in 1..cursor
      BY <2>1, <2>4
    <3> QED
      BY <2>4, <3>1 DEF Lost
  <2>5. CASE b <= cursor /\ ~(rows \ untimed = {} /\ rows # {})
    <3>1. b \in rows
      <4> SUFFICES ASSUME b \notin rows PROVE FALSE
        OBVIOUS
      <4>1. Cardinality(rows) = PageSize /\ \A r \in rows : b < r
        BY <1>1, <2>5
      <4>2. rows # {}
        BY <4>1, FS_EmptySet, MinuteAssumption
      <4>3. 1 \in rows
        BY <2>5, <4>1, <4>2, MinuteAssumption DEF PageEndsDay
      <4> QED
        BY <2>1, <4>1, <4>3
    <3> QED
      BY <2>2, <2>5, <3>1 DEF Kept, Lost
  <2> QED
    BY <2>1, <2>3, <2>4, <2>5
<1> QED
  BY <1>3, <1>4 DEF Complete

\* Otherwise it is whole down to the earliest row the page showed.
LEMMA DayGoesOn ==
    ASSUME NEW l, Sym(l) \in Symbols, l.cur \in Days, l.cursor \in 0..BarsPerDay,
           today \in Days, l.cur < today,
           NEW rows \in Answers(Sym(l), l.cur, l.cursor),
           NEW bad \in SUBSET rows, NEW first \in rows, NEW sp, NEW more,
           PagedTo(l, l.cursor, l.day, sp),
           sp[Sym(l)][l.cur] \subseteq more[Sym(l)][l.cur],
           bad \cap Traded[Sym(l)][l.cur] \subseteq more[Sym(l)][l.cur]
    PROVE  PagedTo(l, first - 1, l.day \cup Kept(l, rows, bad), more)
<1> DEFINE day == l.cur
           cursor == l.cursor
           here == Traded[Sym(l)][day]
           got == l.day \cup Kept(l, rows, bad)
           lost == more[Sym(l)][day]
<1>1. /\ rows \in SUBSET Bars
      /\ ServedDay(Sym(l), day) = day => rows \subseteq here
      /\ \A b \in here : b <= cursor =>
           \/ b \in rows
           \/ Cardinality(rows) = PageSize /\ \A r \in rows : b < r
  BY PageRows
<1>2. l.day \subseteq here /\ \A b \in here : b > cursor => b \in l.day \cup lost
  BY DEF PagedTo
<1>3. got \subseteq here
  BY <1>1, <1>2 DEF Kept
<1>4. ASSUME NEW b \in here, b > first - 1 PROVE b \in got \cup lost
  <2>1. b \in Int /\ cursor \in Int /\ first \in Int
    <3>1. b \in Bars /\ first \in Bars
      BY <1>1, MarketAssumption
    <3> QED
      BY <3>1, MarketAssumption DEF Bars
  <2>2. ServedDay(Sym(l), day) = day
    BY ServesADay
  <2>3. CASE b > cursor
    BY <1>2, <2>3
  <2>4. CASE b <= cursor
    <3>1. b \in rows
      BY <1>1, <1>4, <2>1, <2>4
    <3> QED
      BY <2>2, <3>1 DEF Kept
  <2> QED
    BY <2>1, <2>3, <2>4
<1> QED
  BY <1>3, <1>4 DEF PagedTo

LEMMA Spoils ==
    ASSUME NEW l \in LoaderStates, l.todo # <<>>, l.cur \in Days,
           spoiled \in [Symbols -> [Days -> SUBSET Bars]], NEW X, Spoil(l, X)
    PROVE  /\ spoiled' \in [Symbols -> [Days -> SUBSET Bars]]
           /\ \A s \in Symbols, d \in Days : spoiled[s][d] \subseteq spoiled'[s][d]
           /\ l.cur # l.asOf => X \cap Traded[Sym(l)][l.cur] \subseteq spoiled'[Sym(l)][l.cur]
<1> DEFINE hit == X \cap Traded[Sym(l)][l.cur]
<1>1. Sym(l) \in Symbols
  BY AtWork
<1>2. hit \in SUBSET Bars
  BY <1>1, MarketAssumption
<1>3. spoiled' = IF l.cur = l.asOf THEN spoiled
                 ELSE [spoiled EXCEPT ![Sym(l)][l.cur] = @ \cup hit]
  BY DEF Spoil
<1> HIDE DEF hit
<1>4. CASE l.cur = l.asOf
  BY <1>3, <1>4
<1>5. CASE l.cur # l.asOf
  <2>1. /\ spoiled' \in [Symbols -> [Days -> SUBSET Bars]]
        /\ \A s \in Symbols, d \in Days :
             spoiled'[s][d] = IF s = Sym(l) /\ d = l.cur THEN spoiled[s][d] \cup hit
                              ELSE spoiled[s][d]
    BY <1>1, <1>2, <1>3, <1>5
  <2>2. hit \subseteq spoiled'[Sym(l)][l.cur]
    BY <1>1, <2>1
  <2> QED
    BY <2>1, <2>2 DEF hit
<1> QED
  BY <1>4, <1>5

LEMMA PageKeeps ==
    ASSUME MinuteInv, NEW w \in Workers, Page(w), UNCHANGED clockVars
    PROVE  MinuteInv'
<1> DEFINE l == loader[w]
           sym == Sym(l)
           gets(rows, bad) == [l EXCEPT !.day = @ \cup Kept(l, rows, bad)]
           PagedBy(rows, bad, untimed) ==
             /\ bad = {} \/ flaws < MaxFlaws
             /\ flaws' = IF bad = {} THEN flaws ELSE flaws + 1
             /\ \/ /\ PageEndsDay(rows, rows \ untimed)
                   /\ loader' = [loader EXCEPT ![w] = FetchedDay(gets(rows, bad))]
                   /\ Spoil(l, Lost(l, rows, bad, untimed))
                \/ /\ ~PageEndsDay(rows, rows \ untimed)
                   /\ \E first \in rows \ untimed :
                        /\ \A t \in rows \ untimed : first <= t
                        /\ loader' = [loader EXCEPT ![w] = NextPage(gets(rows, bad), first)]
                   /\ Spoil(l, bad)
<1>1. l.pc = "page" /\ calls' = calls /\ minuteDb' = minuteDb
  BY DEF Page
<1>2. /\ Sound(l, spoiled, today) /\ LoaderTyped(l) /\ l \in LoaderStates
      /\ DatesSound(l, today) /\ DaySound(l, spoiled)
      /\ l.todo # <<>> /\ sym \in Symbols /\ today \in Days /\ calls \in 0..MaxCalls
      /\ spoiled \in [Symbols -> [Days -> SUBSET Bars]]
  BY <1>1, Running
<1>3. l.cur \in BusinessDays /\ l.cur \in Days /\ l.cur \in Nat /\ l.cur # 0
      /\ l.cursor \in 0..BarsPerDay /\ l.day \in SUBSET Bars
  <2>1. l.cur \in BusinessDays
    BY <1>1, <1>2 DEF LoaderTyped
  <2> QED
    BY <1>2, <2>1, ADay DEF LoaderStates
<1>4. l.cur <= l.asOf /\ (l.cur # l.asOf => l.cur < l.asOf /\ l.cur < today)
      /\ (l.cur = l.asOf => ~(l.cur < l.asked))
  <2>1. l.end \in Nat /\ l.asked \in Nat /\ l.asOf \in Nat /\ today \in Nat
    <3>1. l.end \in Days /\ l.asked \in Days /\ l.asOf \in Days
      BY <1>2 DEF LoaderStates
    <3> QED
      BY SMTT(30), <1>2, <3>1, MarketAssumption DEF Days
  <2>2. l.cur <= l.end /\ l.end <= l.asked /\ l.asked <= l.asOf /\ l.asOf <= today
    BY <1>1, <1>2, <1>3 DEF DatesSound
  <2> HIDE DEF l
  <2> QED
    BY <1>3, <2>1, <2>2
<1>5. PICK rows \in Answers(sym, l.cur, l.cursor) :
        \E bad \in SUBSET rows : \E untimed \in {{}, bad} : PagedBy(rows, bad, untimed)
  BY DEF Page, Kept, Lost
<1>6. PICK bad \in SUBSET rows, untimed \in SUBSET rows : PagedBy(rows, bad, untimed)
  BY <1>5
<1> DEFINE got == gets(rows, bad)
           lost == IF PageEndsDay(rows, rows \ untimed) THEN Lost(l, rows, bad, untimed) ELSE bad
<1>7. Spoil(l, lost)
  BY <1>6
<1>8. /\ spoiled' \in [Symbols -> [Days -> SUBSET Bars]]
      /\ \A s \in Symbols, d \in Days : spoiled[s][d] \subseteq spoiled'[s][d]
      /\ l.cur # l.asOf => lost \cap Traded[sym][l.cur] \subseteq spoiled'[sym][l.cur]
  BY <1>2, <1>3, <1>7, Spoils
<1>9. rows \in SUBSET Bars
  BY <1>2, <1>3, PageRows
<1>10. untimed \in SUBSET rows
  BY <1>6
<1>11. flaws' \in Nat
  BY <1>6 DEF MinuteInv, MinuteTypeOK
<1>12. clockVars' = clockVars /\ today' = today /\ now' = now /\ MarketTypeOK'
       /\ today' \in Int /\ today <= today'
  BY <1>1, MarketAssumption DEF MinuteInv, MarketTypeOK, Days, clockVars
<1>13. CachedDaysAreWhole'
  BY <1>1, <1>8, <1>12, TableStays
<1>14. minuteDb' \in [Symbols -> [Days -> SUBSET Bars]]
  BY <1>1 DEF MinuteInv, MinuteTypeOK
<1>15. /\ got \in LoaderStates /\ got.pc = "page" /\ got.day = l.day \cup Kept(l, rows, bad)
       /\ got.list = l.list /\ got.todo = l.todo /\ got.start = l.start /\ got.end = l.end
       /\ got.asked = l.asked /\ got.asOf = l.asOf /\ got.cur = l.cur
       /\ got.cursor = l.cursor
       /\ got.collected = l.collected /\ got.skipped = l.skipped /\ Sym(got) = sym
  <2>1. l.day \cup Kept(l, rows, bad) \in SUBSET Bars
    BY <1>3, <1>9 DEF Kept
  <2> HIDE DEF l
  <2> QED
    BY <1>1, <1>2, <2>1 DEF LoaderStates, Sym, l
<1>16. l.cur # l.asOf => PagedTo(l, l.cursor, l.day, spoiled)
  BY <1>1, <1>2, <1>4 DEF DaySound
<1>17. DatesSound(got, today) /\ AnswersSound(got, spoiled') /\ LoaderTyped(got)
  <2>1. LoaderTyped(got)
    BY <1>2, <1>3, <1>15 DEF LoaderTyped
  <2> HIDE DEF got, l
  <2> QED
    BY <1>1, <1>2, <1>8, <1>15, <2>1, WithinADay
<1>18. CASE PageEndsDay(rows, rows \ untimed)
  <2>1. loader' = [loader EXCEPT ![w] = FetchedDay(got)]
    BY <1>6, <1>18
  <2>2. l.cur # l.asOf => Complete(sym, l.cur, got.day, spoiled')
    <3> SUFFICES ASSUME l.cur # l.asOf PROVE Complete(sym, l.cur, got.day, spoiled')
      OBVIOUS
    <3>1. Lost(l, rows, bad, untimed) \cap Traded[sym][l.cur] \subseteq spoiled'[sym][l.cur]
      BY <1>8, <1>18
    <3>2. spoiled[sym][l.cur] \subseteq spoiled'[sym][l.cur] /\ l.cur < today
      BY <1>2, <1>3, <1>4, <1>8
    <3>3. PagedTo(l, l.cursor, l.day, spoiled)
      BY <1>16
    <3> HIDE DEF l, got, lost
    <3>4. Complete(sym, l.cur, l.day \cup Kept(l, rows, bad), spoiled')
      BY <1>2, <1>3, <1>10, <1>18, <3>1, <3>2, <3>3, DayEnds
    <3> QED
      BY <1>15, <3>4
  <2> HIDE DEF l, got, sym
  <2>3. CASE got.cur = got.asOf \/ got.day = {}
    <3>1. FetchedDay(got) = Collect(got, got.day)
      BY <2>3 DEF FetchedDay
    <3>2. got.cur < got.asked => Complete(Sym(got), got.cur, got.day, spoiled')
      BY <1>4, <1>15, <2>2
    <3>3. got.day \in SUBSET Bars /\ got.cur # 0
      BY <1>3, <1>15 DEF LoaderStates
    <3>4. Sound(Collect(got, got.day), spoiled', today)
      BY <1>15, <1>17, <3>2, <3>3, CollectSound
    <3> QED
      BY <1>8, <1>11, <1>12, <1>13, <1>14, <2>1, <3>1, <3>4, OneMoves
  <2>4. CASE ~(got.cur = got.asOf \/ got.day = {})
    <3> DEFINE m == [got EXCEPT !.pc = "write"]
    <3>1. FetchedDay(got) = m
      BY <2>4 DEF FetchedDay
    <3>2. /\ m \in LoaderStates /\ m.pc = "write" /\ m.day = got.day
          /\ m.list = l.list /\ m.todo = l.todo /\ m.start = l.start /\ m.end = l.end
          /\ m.asked = l.asked /\ m.asOf = l.asOf /\ m.cur = l.cur
          /\ m.collected = l.collected /\ m.skipped = l.skipped /\ Sym(m) = sym
      BY <1>15 DEF LoaderStates, Sym
    <3> HIDE DEF m
    <3>3. DatesSound(m, today) /\ AnswersSound(m, spoiled')
      BY <1>1, <1>2, <1>8, <3>2, WithinADay
    <3>4. DaySound(m, spoiled')
      BY <1>4, <1>15, <2>2, <2>4, <3>2 DEF DaySound
    <3>5. LoaderTyped(m)
      BY <1>2, <1>3, <3>2 DEF LoaderTyped
    <3>6. Sound(m, spoiled', today)
      BY <3>2, <3>3, <3>4, <3>5 DEF Sound
    <3> QED
      BY <1>8, <1>11, <1>12, <1>13, <1>14, <2>1, <3>1, <3>6, OneMoves
  <2> QED
    BY <2>3, <2>4
<1>19. CASE ~PageEndsDay(rows, rows \ untimed)
  <2>1. PICK first \in rows \ untimed : loader' = [loader EXCEPT ![w] = NextPage(got, first)]
    BY <1>6, <1>19
  <2> DEFINE m == NextPage(got, first)
  <2>2. first \in rows /\ first \in Bars /\ first - 1 \in 0..BarsPerDay
    BY <1>9, <2>1, MarketAssumption DEF Bars
  <2>3. l.cur # l.asOf => PagedTo(l, first - 1, got.day, spoiled')
    <3> SUFFICES ASSUME l.cur # l.asOf PROVE PagedTo(l, first - 1, got.day, spoiled')
      OBVIOUS
    <3>1. bad \cap Traded[sym][l.cur] \subseteq spoiled'[sym][l.cur]
      BY <1>8, <1>19
    <3>2. spoiled[sym][l.cur] \subseteq spoiled'[sym][l.cur] /\ l.cur < today
      BY <1>2, <1>3, <1>4, <1>8
    <3>3. PagedTo(l, l.cursor, l.day, spoiled)
      BY <1>16
    <3> HIDE DEF l, got, lost
    <3>4. PagedTo(l, first - 1, l.day \cup Kept(l, rows, bad), spoiled')
      BY <1>2, <1>3, <2>2, <3>1, <3>2, <3>3, DayGoesOn
    <3> QED
      BY <1>15, <3>4
  <2> HIDE DEF l, got, sym
  <2>4. 0 \in 0..TimeoutRetries /\ 0 \in 0..RateRetries
    BY MinuteAssumption
  <2>5. /\ m \in LoaderStates /\ m.pc = "page" /\ m.day = got.day /\ m.cursor = first - 1
        /\ m.list = l.list /\ m.todo = l.todo /\ m.start = l.start /\ m.end = l.end
        /\ m.asked = l.asked /\ m.asOf = l.asOf /\ m.cur = l.cur
        /\ m.collected = l.collected /\ m.skipped = l.skipped /\ Sym(m) = sym
    BY <1>15, <2>2, <2>4 DEF LoaderStates, Sym, NextPage
  <2>6. loader' = [loader EXCEPT ![w] = m]
    BY <2>1
  <2> HIDE DEF m
  <2>7. DatesSound(m, today) /\ AnswersSound(m, spoiled')
    BY <1>1, <1>2, <1>8, <2>5, WithinADay
  <2>8. DaySound(m, spoiled')
    <3>1. m.cur < m.asOf => l.cur # l.asOf
      BY <1>3, <2>5
    <3> QED
      BY <2>3, <2>5, <3>1 DEF DaySound, PagedTo, sym
  <2>9. LoaderTyped(m)
    BY <1>2, <1>3, <2>5 DEF LoaderTyped
  <2>10. Sound(m, spoiled', today)
    BY <2>5, <2>7, <2>8, <2>9 DEF Sound
  <2> QED
    BY <1>8, <1>11, <1>12, <1>13, <1>14, <2>6, <2>10, OneMoves
<1> QED
  BY <1>18, <1>19

-----------------------------------------------------------------------------
(* The daily cache.                                                        *)

\* Rows stay and answers of pykrx are remembered.
LEMMA TickKeeps ==
    ASSUME MinuteInv, DailyInv, Tick, UNCHANGED <<minuteVars, dailyVars>>
    PROVE  MinuteInv' /\ DailyInv'
<1>1. today \in Nat /\ today' \in Nat /\ today <= today' /\ MarketTypeOK'
  BY MarketAssumption DEF MinuteInv, MarketTypeOK, Tick, Days
<1>2. minuteDb' = minuteDb /\ loader' = loader /\ flaws' = flaws /\ spoiled' = spoiled
  BY DEF minuteVars
<1>3. CachedDaysAreWhole'
  BY <1>1, <1>2, TableStays
<1>4. \A w \in Workers : Sound(loader[w], spoiled, today')
  <2> TAKE w \in Workers
  <2>1. Sound(loader[w], spoiled, today)
    BY DEF MinuteInv
  <2> QED
    BY <1>1, <2>1, StaysSound
<1>5. MinuteTypeOK'
  BY <1>2 DEF MinuteInv, MinuteTypeOK
<1>6. MinuteInv'
  BY <1>1, <1>2, <1>3, <1>4, <1>5 DEF MinuteInv
<1>7. dailyDb' = dailyDb /\ answer' = answer /\ fetched' = fetched
  BY DEF dailyVars
<1>8. DailyInv'
  BY <1>7 DEF DailyInv, DailyTypeOK, HitsReachBack, HasRow
<1> QED
  BY <1>6, <1>8

LEMMA FetchDailyKeeps ==
    ASSUME DailyInv, today \in Days, NEW sym \in Symbols, NEW end \in 1..today, NEW start \in 1..end,
           FetchDailyOhlcv(sym, start, end)
    PROVE  DailyInv'
<1>1. /\ dailyDb \in [Symbols -> [Days -> {"none", "live", "final"}]]
      /\ fetched \in [Symbols -> SUBSET (Days \X Days)]
      /\ answer.rows \subseteq answer.start..answer.end
      /\ HitsReachBack
      /\ \A s \in Symbols, d \in Days : HasRow(s, d) =>
           \E r \in fetched[s] :
              /\ r[2] = d
              /\ \A e \in r[1]..d : Traded[s][e] # {} => HasRow(s, e)
  BY DEF DailyInv, DailyTypeOK
<1>2. LastDay \in Nat /\ today \in 1..LastDay /\ start \in Nat /\ end \in Nat
      /\ 1 <= start /\ start <= end /\ end <= today /\ today <= LastDay
  BY MarketAssumption DEF Days
<1>3. start \in Days /\ end \in Days /\ start..end \subseteq Days
  BY <1>2 DEF Days
<1>4. CASE Hit(sym, start, end)
  <2>1. /\ HasRow(sym, end) /\ dailyDb' = dailyDb /\ fetched' = fetched
        /\ answer' = Answer(sym, start, end, TRUE, Select(dailyDb, sym, start, end))
    BY <1>4 DEF Hit, CacheHit
  <2>2. /\ answer'.sym = sym /\ answer'.start = start /\ answer'.end = end
        /\ answer'.rows = {d \in start..end : HasRow(sym, d)}
    BY <2>1 DEF Answer, Select, HasRow
  <2>3. PICK r \in fetched[sym] :
          r[2] = end /\ \A e \in r[1]..end : Traded[sym][e] # {} => HasRow(sym, e)
    BY <1>1, <1>3, <2>1
  <2>4. r \in Days \X Days
    BY <1>1, <2>3
  <2>5. r[1] \in Nat
    BY <1>2, <2>4 DEF Days
  <2>6. \A d \in start..end : r[1] <= d /\ Traded[sym][d] # {} => d \in answer'.rows
    <3> SUFFICES ASSUME NEW d \in start..end, r[1] <= d, Traded[sym][d] # {}
                 PROVE  d \in answer'.rows
      OBVIOUS
    <3>1. d \in Int /\ d <= end
      BY <1>2
    <3>2. d \in r[1]..end
      BY <1>2, <2>5, <3>1
    <3>3. HasRow(sym, d)
      BY <2>3, <3>2
    <3> QED
      BY <2>2, <3>3
  <2>7. HitsReachBack'
    <3>1. r \in fetched'[answer'.sym] /\ r[2] = answer'.end
      BY <2>1, <2>2, <2>3
    <3>2. \A d \in answer'.start..answer'.end :
            r[1] <= d /\ Traded[answer'.sym][d] # {} => d \in answer'.rows
      BY <2>2, <2>6
    <3> QED
      BY <3>1, <3>2 DEF HitsReachBack
  <2>8. DailyTypeOK'
    BY <1>1, <2>1, <2>2 DEF DailyTypeOK
  <2> QED
    BY <1>1, <2>1, <2>7, <2>8 DEF DailyInv, HasRow
<1>5. CASE Fetch(sym, start, end)
  <2> DEFINE rows == SourceRows(sym, start, end)
  <2>1. /\ dailyDb' = Insert(sym, rows)
        /\ fetched' = [fetched EXCEPT ![sym] = @ \cup {<<start, d>> : d \in rows}]
        /\ answer' = Answer(sym, start, end, FALSE, Select(dailyDb', sym, start, end))
    BY <1>5 DEF Fetch
  <2>2. rows \subseteq start..end
    BY DEF SourceRows
  <2>3. \A e \in start..end, d \in rows : e <= d /\ Traded[sym][e] # {} => e \in rows
    <3> SUFFICES ASSUME NEW e \in start..end, NEW d \in rows, e <= d, Traded[sym][e] # {}
                 PROVE  e \in rows
      OBVIOUS
    <3>1. CASE e = d
      BY <3>1
    <3>2. CASE e # d
      <4>1. e < today
        BY <1>2, <2>2, <3>2
      <4>2. Shown(sym, e) = Traded[sym][e]
        BY <4>1 DEF Shown
      <4> QED
        BY <4>2 DEF SourceRows
    <3> QED
      BY <3>1, <3>2
  <2> HIDE DEF rows
  <2>4. /\ dailyDb' \in [Symbols -> [Days -> {"none", "live", "final"}]]
        /\ \A s \in Symbols, d \in Days :
             /\ s = sym /\ d \in rows => dailyDb'[s][d] # "none"
             /\ ~(s = sym /\ d \in rows) => dailyDb'[s][d] = dailyDb[s][d]
    <3> DEFINE next == [d \in Days |-> IF d \notin rows THEN dailyDb[sym][d]
                                       ELSE IF d = today /\ MarketOpen THEN "live" ELSE "final"]
    <3>1. dailyDb' = [dailyDb EXCEPT ![sym] = next]
      BY <2>1 DEF Insert
    <3>2. /\ next \in [Days -> {"none", "live", "final"}]
          /\ \A d \in Days : /\ d \in rows => next[d] # "none"
                             /\ d \notin rows => next[d] = dailyDb[sym][d]
      BY <1>1
    <3> HIDE DEF next
    <3> QED
      BY <1>1, <3>1, <3>2
  <2>5. \A s \in Symbols, d \in Days : HasRow(s, d)' <=> HasRow(s, d) \/ (s = sym /\ d \in rows)
    BY <2>4 DEF HasRow
  <2>6. /\ fetched' \in [Symbols -> SUBSET (Days \X Days)]
        /\ \A s \in Symbols : fetched[s] \subseteq fetched'[s]
        /\ \A d \in rows : <<start, d>> \in fetched'[sym]
    <3> DEFINE new == {<<start, d>> : d \in rows}
    <3>1. new \in SUBSET (Days \X Days) /\ \A d \in rows : <<start, d>> \in new
      BY <1>3, <2>2
    <3>2. fetched' = [fetched EXCEPT ![sym] = @ \cup new]
      BY <2>1
    <3> HIDE DEF new
    <3> QED
      BY <1>1, <3>1, <3>2
  <2>7. ASSUME NEW s \in Symbols, NEW d \in Days, HasRow(s, d)'
        PROVE  \E r \in fetched'[s] :
                  /\ r[2] = d
                  /\ \A e \in r[1]..d : Traded[s][e] # {} => HasRow(s, e)'
    <3>1. CASE s = sym /\ d \in rows
      <4>1. \A e \in start..d : e \in start..end /\ e <= d /\ e \in Days
        BY <1>2, <1>3, <2>2, <3>1
      <4>2. \A e \in start..d : Traded[s][e] # {} => HasRow(s, e)'
        BY <2>3, <2>5, <3>1, <4>1
      <4>3. <<start, d>> \in fetched'[s]
        BY <2>6, <3>1
      <4> QED
        BY <4>2, <4>3
    <3>2. CASE ~(s = sym /\ d \in rows)
      <4>1. HasRow(s, d)
        BY <2>5, <2>7, <3>2
      <4>2. PICK r \in fetched[s] :
              r[2] = d /\ \A e \in r[1]..d : Traded[s][e] # {} => HasRow(s, e)
        BY <1>1, <4>1
      <4>3. r \in Days \X Days
        BY <1>1, <4>2
      <4>4. r[1]..d \subseteq Days
        BY <1>2, <4>3 DEF Days
      <4>5. \A e \in r[1]..d : Traded[s][e] # {} => HasRow(s, e)'
        BY <2>5, <4>2, <4>4
      <4> QED
        BY <2>6, <4>2, <4>5
    <3> QED
      BY <3>1, <3>2
  <2>8. /\ ~answer'.hit /\ answer'.start = start /\ answer'.end = end
        /\ answer'.rows \subseteq start..end
    BY <2>1 DEF Answer, Select
  <2>9. HitsReachBack' /\ DailyTypeOK'
    BY <2>4, <2>6, <2>8 DEF HitsReachBack, DailyTypeOK
  <2> QED
    BY <2>7, <2>9 DEF DailyInv
<1>6. CASE FetchNothing(sym, start, end) \/ FetchRaises(sym, start, end)
  <2>1. dailyDb' = dailyDb /\ fetched' = fetched /\ ~answer'.hit /\ answer'.rows = {}
    BY <1>6 DEF FetchNothing, FetchRaises, Answer, NoAnswer
  <2>2. HitsReachBack' /\ DailyTypeOK'
    BY <1>1, <2>1 DEF HitsReachBack, DailyTypeOK
  <2> QED
    BY <1>1, <2>1, <2>2 DEF DailyInv, HasRow
<1> QED
  BY <1>4, <1>5, <1>6 DEF FetchDailyOhlcv

LEMMA DailyNextKeeps ==
    ASSUME DailyInv, today \in Days, calls \in 0..MaxCalls, DailyNext
    PROVE  DailyInv' /\ calls' \in 0..MaxCalls
<1>1. PICK s \in Symbols, end \in 1..today, start \in 1..today :
        start \in 1..end /\ FetchDailyOhlcv(s, start, end)
  <2>1. today \in Nat /\ 1 <= today
    BY MarketAssumption DEF Days
  <2>2. CASE Backfill
    BY <2>1, <2>2 DEF Backfill
  <2>3. CASE EodBar
    <3>1. today \in 1..today
      BY <2>1
    <3> QED
      BY <2>3, <3>1 DEF EodBar
  <2>4. CASE PrevClose
    <3>1. PICK s \in Symbols, session \in 1..today, d \in BusinessDays :
            d < session /\ FetchDailyOhlcv(s, d, d)
      BY <2>4 DEF PrevClose
    <3>2. d \in Nat /\ d # 0
      BY ADay
    <3>3. d \in 1..today /\ d \in 1..d
      BY <2>1, <3>1, <3>2
    <3> QED
      BY <3>1, <3>3
  <2> QED
    BY <2>2, <2>3, <2>4 DEF DailyNext
<1>2. DailyInv'
  BY <1>1, FetchDailyKeeps
<1>3. calls' \in 0..MaxCalls
  <2>1. calls' = calls + 1 /\ calls < MaxCalls
    BY <1>1 DEF FetchDailyOhlcv, Called
  <2> QED
    BY <2>1, MarketAssumption
<1> QED
  BY <1>2, <1>3

-----------------------------------------------------------------------------
(* The theorems.                                                           *)

LEMMA StepKeeps ==
    ASSUME MinuteInv, DailyInv, [Next]_vars
    PROVE  MinuteInv' /\ DailyInv'
<1>1. today \in Days /\ calls \in 0..MaxCalls
  BY DEF MinuteInv, MarketTypeOK
<1>2. CASE Tick /\ UNCHANGED <<minuteVars, dailyVars>>
  BY <1>2, TickKeeps
<1>3. CASE MinuteNext /\ UNCHANGED <<clockVars, dailyVars>>
  <2>1. dailyDb' = dailyDb /\ answer' = answer /\ fetched' = fetched
    BY <1>3 DEF dailyVars
  <2>2. DailyInv'
    BY <2>1 DEF DailyInv, DailyTypeOK, HitsReachBack, HasRow
  <2>3. PICK w \in Workers : Stream(w) \/ Work(w) \/ Fails(w)
    BY <1>3 DEF MinuteNext
  <2>4. MinuteInv'
    <3>1. CASE Stream(w)
      BY <1>3, <3>1, StreamKeeps
    <3>2. CASE LookUp(w)
      BY <1>3, <3>2, LookUpKeeps
    <3>3. CASE NextSymbol(w)
      BY <1>3, <3>3, NextSymbolKeeps
    <3>4. CASE Page(w)
      BY <1>3, <3>4, PageKeeps
    <3>5. CASE Timeout(w)
      BY <1>3, <3>5, TimeoutKeeps
    <3>6. CASE RateLimited(w)
      BY <1>3, <3>6, RateLimitedKeeps
    <3>7. CASE Write(w)
      BY <1>3, <3>7, WriteKeeps
    <3>8. CASE Fails(w)
      BY <1>3, <3>8, FailsKeeps DEF Fails
    <3> QED
      BY <2>3, <3>1, <3>2, <3>3, <3>4, <3>5, <3>6, <3>7, <3>8 DEF Work
  <2> QED
    BY <2>2, <2>4
<1>4. CASE DailyNext /\ UNCHANGED <<clockVars, minuteVars>>
  <2>1. DailyInv' /\ calls' \in 0..MaxCalls
    BY <1>1, <1>4, DailyNextKeeps
  <2>2. /\ today' = today /\ now' = now /\ minuteDb' = minuteDb /\ loader' = loader
        /\ flaws' = flaws /\ spoiled' = spoiled
    BY <1>4 DEF clockVars, minuteVars
  <2>3. MarketTypeOK' /\ MinuteTypeOK' /\ CachedDaysAreWhole'
    BY <2>1, <2>2 DEF MinuteInv, MarketTypeOK, MinuteTypeOK, CachedDaysAreWhole, Cached, Whole
  <2>4. MinuteInv'
    BY <2>2, <2>3 DEF MinuteInv
  <2> QED
    BY <2>1, <2>4
<1>5. CASE UNCHANGED vars
  <2>1. /\ today' = today /\ now' = now /\ calls' = calls
        /\ minuteDb' = minuteDb /\ loader' = loader
        /\ flaws' = flaws /\ spoiled' = spoiled
        /\ dailyDb' = dailyDb /\ answer' = answer /\ fetched' = fetched
    BY <1>5 DEF vars, clockVars, minuteVars, dailyVars
  <2>2. MarketTypeOK' /\ MinuteTypeOK' /\ CachedDaysAreWhole'
    BY <2>1 DEF MinuteInv, MarketTypeOK, MinuteTypeOK, CachedDaysAreWhole, Cached, Whole
  <2>3. MinuteInv'
    BY <2>1, <2>2 DEF MinuteInv
  <2>4. DailyInv'
    BY <2>1 DEF DailyInv, DailyTypeOK, HitsReachBack, HasRow
  <2> QED
    BY <2>3, <2>4
<1> QED
  BY <1>2, <1>3, <1>4, <1>5 DEF Next

LEMMA CachesInductive == Spec => [](MinuteInv /\ DailyInv)
<1>1. Init => MinuteInv /\ DailyInv
  <2> SUFFICES ASSUME Init PROVE MinuteInv /\ DailyInv
    OBVIOUS
  <2>1. today \in Days /\ now = 0 /\ calls = 0 /\ flaws = 0
        /\ loader = [w \in Workers |-> Idle]
        /\ minuteDb = [s \in Symbols |-> [d \in Days |-> {}]]
        /\ spoiled = [s \in Symbols |-> [d \in Days |-> {}]]
        /\ dailyDb = [s \in Symbols |-> [d \in Days |-> "none"]]
        /\ answer = NoAnswer /\ fetched = [s \in Symbols |-> {}]
    BY FirstTodayAssumption DEF Init, MinuteInit, DailyInit
  <2>2. Idle \in LoaderStates /\ Sound(Idle, spoiled, today)
    BY <2>1, IdleSound
  <2>3. \A w \in Workers : loader[w] = Idle
    BY <2>1
  <2>4. MarketTypeOK
    BY <2>1, MarketAssumption DEF MarketTypeOK
  <2>5. MinuteTypeOK
    <3>1. loader \in [Workers -> LoaderStates]
      BY <2>1, <2>2
    <3>2. Idle.pc = "idle"
      BY DEF Idle
    <3> QED
      BY <2>1, <2>3, <3>1, <3>2 DEF MinuteTypeOK
  <2>6. CachedDaysAreWhole
    BY <2>1 DEF CachedDaysAreWhole, Cached
  <2>7. MinuteInv
    BY <2>2, <2>3, <2>4, <2>5, <2>6 DEF MinuteInv
  <2>8. DailyInv
    BY <2>1 DEF DailyInv, DailyTypeOK, HitsReachBack, HasRow, NoAnswer
  <2> QED
    BY <2>7, <2>8
<1>2. MinuteInv /\ DailyInv /\ [Next]_vars => (MinuteInv /\ DailyInv)'
  BY StepKeeps
<1> QED
  BY <1>1, <1>2, PTL DEF Spec

\* The state of both caches keeps its types, for every calendar and every
\* number of processes.
THEOREM CachesTypeCorrect == Spec => []TypeOK
<1>1. MinuteInv /\ DailyInv => TypeOK
  BY DEF MinuteInv, DailyInv, TypeOK
<1> QED
  BY <1>1, CachesInductive, PTL

\* A day that the minute cache has is over and complete, whichever answers
\* failed, whichever processes stored it and however long a page is.
THEOREM CacheHoldsWholeDays == Spec => []CachedDaysAreWhole
<1>1. MinuteInv => CachedDaysAreWhole
  BY DEF MinuteInv
<1> QED
  BY <1>1, CachesInductive, PTL

\* A caller of stream gets a past day whole or not at all.
THEOREM StreamsAnswerByDays == Spec => []AnswersByWholeDays
<1>1. MinuteInv => AnswersByWholeDays
  <2> SUFFICES ASSUME MinuteInv, NEW w \in Workers, NEW s \in Symbols, NEW d \in Days,
                      Behind(loader[w], s, d), d < loader[w].asked
               PROVE  \/ Whole(s, d, loader[w].collected[s][d])
                      \/ <<s, d>> \in loader[w].skipped /\ loader[w].collected[s][d] = {}
    BY DEF AnswersByWholeDays
  <2>1. AnswersSound(loader[w], spoiled)
    BY DEF MinuteInv, Sound, Behind
  <2>2. Answered(loader[w], s, d, spoiled)
    BY <2>1 DEF AnswersSound
  <2> QED
    BY <2>2 DEF Answered, Complete, Whole
<1> QED
  BY <1>1, CachesInductive, PTL

\* A hit of the daily cache is complete as far back as some fetch that ended
\* on the same day.
THEOREM HitsAreBacked == Spec => []HitsReachBack
<1>1. DailyInv => HitsReachBack
  BY DEF DailyInv
<1> QED
  BY <1>1, CachesInductive, PTL

-----------------------------------------------------------------------------
(* Every step of a stream brings it closer to its end.                     *)

LEMMA CollectAdvances ==
    ASSUME NEW l \in LoaderStates, l.todo # <<>>, l.cur \in BusinessDays,
           NEW bars \in SUBSET Bars
    PROVE  Collect(l, bars).todo = l.todo /\ Collect(l, bars).cur < l.cur
<1> DEFINE k == [l EXCEPT !.collected[Sym(l)][l.cur] = bars]
<1>1. Sym(l) \in Symbols /\ l.cur \in Days
  BY AtWork, ADay
<1>2. k \in LoaderStates /\ k.todo = l.todo
  BY <1>1 DEF LoaderStates
<1>3. l.cur \in 1..(LastDay + 1)
  BY <1>1, MarketAssumption DEF Days
<1>4. Collect(l, bars) = ToDayBefore(k, l.cur)
  BY DEF Collect
<1> HIDE DEF k
<1> QED
  BY <1>2, <1>3, <1>4, GoesBack

\* The earliest row of a page without flaws lies before the cursor's end,
\* because a page that goes on has two rows.
LEMMA CursorDrops ==
    ASSUME NEW sym \in Symbols, NEW day \in Days, NEW cursor \in 0..BarsPerDay,
           NEW rows \in Answers(sym, day, cursor), today \in Days,
           ~(Cardinality(rows) < PageSize), NEW first \in rows,
           \A t \in rows : first <= t
    PROVE  first - 1 < cursor
<1>1. rows # {first}
  <2>1. Cardinality({first}) = 1
    BY FS_Singleton
  <2>2. 1 < PageSize
    BY MinuteAssumption
  <2> QED
    BY <2>1, <2>2
<1>2. PICK r \in rows : r # first
  BY <1>1
<1>3. r <= cursor \/ r <= cursor + 1
  <2>1. PICK c \in {cursor, cursor + 1} :
          rows \in Pages({b \in Shown(sym, ServedDay(sym, day)) : b <= c})
    BY DEF Answers
  <2>2. r <= c
    BY <2>1 DEF Pages
  <2> QED
    BY <2>1, <2>2
<1>4. r \in Int /\ first \in Int /\ cursor \in Int
  <2>1. r \in Bars /\ first \in Bars
    BY PageRows
  <2> QED
    BY <2>1, MarketAssumption DEF Bars
<1>5. first <= r
  OBVIOUS
<1> QED
  BY <1>2, <1>3, <1>4, <1>5

LEMMA PageAdvances ==
    ASSUME MinuteInv, NEW w \in Workers, Page(w)
    PROVE  Closer(loader'[w], loader[w]) \/ flaws' > flaws
<1> DEFINE l == loader[w]
           gets(rows, bad) == [l EXCEPT !.day = @ \cup Kept(l, rows, bad)]
<1>1. l.pc = "page"
  BY DEF Page
<1>2. l \in LoaderStates /\ LoaderTyped(l) /\ l.todo # <<>> /\ today \in Days
      /\ Sym(l) \in Symbols
  BY <1>1, Running
<1>3. l.cur \in BusinessDays /\ l.cur \in Days /\ l.cursor \in 0..BarsPerDay
      /\ l.day \in SUBSET Bars
  <2>1. l.cur \in BusinessDays
    BY <1>1, <1>2 DEF LoaderTyped
  <2> QED
    BY <1>2, <2>1, ADay DEF LoaderStates
<1>4. PICK rows \in Answers(Sym(l), l.cur, l.cursor) :
        \E bad \in SUBSET rows : \E untimed \in {{}, bad} :
          /\ flaws' = IF bad = {} THEN flaws ELSE flaws + 1
          /\ \/ loader' = [loader EXCEPT ![w] = FetchedDay(gets(rows, bad))]
             \/ /\ ~PageEndsDay(rows, rows \ untimed)
                /\ \E first \in rows \ untimed :
                     /\ \A t \in rows \ untimed : first <= t
                     /\ loader' = [loader EXCEPT ![w] = NextPage(gets(rows, bad), first)]
  BY ZenonT(40) DEF Page, Kept
<1>5. PICK bad \in SUBSET rows, untimed \in SUBSET rows :
        /\ bad = {} => untimed = {}
        /\ flaws' = IF bad = {} THEN flaws ELSE flaws + 1
        /\ \/ loader' = [loader EXCEPT ![w] = FetchedDay(gets(rows, bad))]
           \/ /\ ~PageEndsDay(rows, rows \ untimed)
              /\ \E first \in rows \ untimed :
                   /\ \A t \in rows \ untimed : first <= t
                   /\ loader' = [loader EXCEPT ![w] = NextPage(gets(rows, bad), first)]
  BY <1>4
<1>6. rows \in SUBSET Bars
  BY <1>2, <1>3, PageRows
<1> DEFINE got == gets(rows, bad)
<1>7. loader \in [Workers -> LoaderStates] /\ flaws \in Nat
  BY DEF MinuteInv, MinuteTypeOK
<1>8. /\ got \in LoaderStates /\ got.pc = "page" /\ got.todo = l.todo
      /\ got.cur = l.cur /\ got.cursor = l.cursor
  <2>1. l.day \cup Kept(l, rows, bad) \in SUBSET Bars
    BY <1>3, <1>6 DEF Kept
  <2> HIDE DEF l
  <2> QED
    BY <1>1, <1>2, <2>1 DEF LoaderStates
<1>9. CASE loader' = [loader EXCEPT ![w] = FetchedDay(got)]
  <2>1. loader'[w] = FetchedDay(got)
    BY <1>7, <1>9
  <2> HIDE DEF got, l
  <2>2. CASE got.cur = got.asOf \/ got.day = {}
    <3>1. got.day \in SUBSET Bars
      BY <1>8 DEF LoaderStates
    <3>2. FetchedDay(got) = Collect(got, got.day)
      BY <2>2 DEF FetchedDay
    <3>3. FetchedDay(got).todo = l.todo /\ FetchedDay(got).cur < l.cur
      BY <1>2, <1>3, <1>8, <3>1, <3>2, CollectAdvances
    <3> QED
      BY <2>1, <3>3 DEF Closer, l
  <2>3. CASE ~(got.cur = got.asOf \/ got.day = {})
    <3>1. FetchedDay(got) = [got EXCEPT !.pc = "write"]
      BY <2>3 DEF FetchedDay
    <3>2. /\ FetchedDay(got).todo = l.todo /\ FetchedDay(got).cur = l.cur
          /\ FetchedDay(got).pc = "write"
      BY <1>8, <3>1 DEF LoaderStates
    <3>3. Stage["write"] < Stage["page"]
      BY DEF Stage
    <3> QED
      BY <1>1, <2>1, <3>2, <3>3 DEF Closer, l
  <2> QED
    BY <2>2, <2>3
<1>10. CASE bad # {}
  BY <1>5, <1>7, <1>10
<1>11. ASSUME bad = {}, ~PageEndsDay(rows, rows \ untimed), NEW first \in rows \ untimed,
              \A t \in rows \ untimed : first <= t,
              loader' = [loader EXCEPT ![w] = NextPage(got, first)]
       PROVE  Closer(loader'[w], loader[w])
  <2>1. rows \ untimed = rows /\ first \in rows /\ \A t \in rows : first <= t
    BY <1>5, <1>11
  <2>2. ~(Cardinality(rows) < PageSize)
    BY <1>11 DEF PageEndsDay
  <2> HIDE DEF l, got
  <2>3. first - 1 < l.cursor
    BY <1>2, <1>3, <2>1, <2>2, CursorDrops
  <2>4. loader'[w] = NextPage(got, first)
    BY <1>7, <1>11
  <2>5. /\ loader'[w].pc = "page" /\ loader'[w].todo = l.todo /\ loader'[w].cur = l.cur
        /\ loader'[w].cursor = first - 1
    BY <1>8, <2>4 DEF NextPage, LoaderStates
  <2> QED
    BY <1>1, <2>3, <2>5 DEF Closer, l
<1> QED
  BY <1>5, <1>9, <1>10, <1>11

LEMMA RunningAdvances ==
    ASSUME MinuteInv, NEW w \in Workers, Work(w)
    PROVE  Closer(loader'[w], loader[w]) \/ flaws' > flaws
<1> DEFINE l == loader[w]
<1>1. loader \in [Workers -> LoaderStates]
  BY DEF MinuteInv, MinuteTypeOK
<1>2. l.pc \in {"day", "page", "write"}
  BY DEF Work, LookUp, NextSymbol, Page, Timeout, RateLimited, Write
<1>3. /\ l \in LoaderStates /\ LoaderTyped(l) /\ DatesSound(l, today) /\ l.todo # <<>>
      /\ Sym(l) \in Symbols
  BY <1>2, Running
<1>4. l.todo \in Seq(Symbols)
  BY <1>3 DEF LoaderStates
<1>5. l.cur # 0 => l.cur \in BusinessDays
  BY <1>2, <1>3 DEF DatesSound
<1>6. l.pc \in {"page", "write"} => l.cur \in BusinessDays
  BY <1>3 DEF LoaderTyped
<1>7. ASSUME NEW bars \in SUBSET Bars, l.cur \in BusinessDays,
             loader' = [loader EXCEPT ![w] = Collect(l, bars)]
      PROVE  Closer(loader'[w], l)
  <2>1. loader'[w] = Collect(l, bars)
    BY <1>1, <1>7
  <2>2. Collect(l, bars).todo = l.todo /\ Collect(l, bars).cur < l.cur
    BY <1>3, <1>7, CollectAdvances
  <2> QED
    BY <2>1, <2>2 DEF Closer
<1>8. CASE LookUp(w)
  <2>1. l.pc = "day" /\ l.cur # 0 /\ l.cur \in BusinessDays
    BY <1>5, <1>8 DEF LookUp
  <2>2. CASE l.cur # l.asOf /\ Cached(Sym(l), l.cur)
    <3>1. loader' = [loader EXCEPT ![w] = Collect(l, minuteDb[Sym(l)][l.cur])]
      BY <1>8, <2>2 DEF LookUp
    <3>2. minuteDb[Sym(l)][l.cur] \in SUBSET Bars
      BY <1>3, <2>1, ADay DEF MinuteInv, MinuteTypeOK
    <3> QED
      BY <1>7, <2>1, <3>1, <3>2
  <2>3. CASE ~(l.cur # l.asOf /\ Cached(Sym(l), l.cur))
    <3>1. loader'[w] = [l EXCEPT !.pc = "page", !.cursor = BarsPerDay,
                                 !.timeouts = 0, !.limits = 0]
      BY <1>1, <1>8, <2>3 DEF LookUp
    <3> HIDE DEF l
    <3>2. loader'[w].pc = "page" /\ loader'[w].todo = l.todo /\ loader'[w].cur = l.cur
      BY <1>3, <3>1 DEF LoaderStates
    <3>3. Stage["page"] < Stage["day"]
      BY DEF Stage
    <3> QED
      BY <2>1, <3>2, <3>3 DEF Closer, l
  <2> QED
    BY <2>2, <2>3
<1>9. CASE NextSymbol(w)
  <2>1. CASE Len(l.todo) = 1
    <3>1. loader'[w] = [l EXCEPT !.pc = "done", !.todo = <<>>]
      BY <1>1, <1>9, <2>1 DEF NextSymbol
    <3>2. loader'[w].pc = "done"
      BY <1>3, <3>1 DEF LoaderStates
    <3> QED
      BY <3>2 DEF Closer
  <2>2. CASE Len(l.todo) # 1
    <3> DEFINE m == [l EXCEPT !.todo = Tail(l.todo)]
    <3>1. loader'[w] = BeginSymbol(m)
      BY <1>1, <1>9, <2>2 DEF NextSymbol
    <3>2. Tail(l.todo) \in Seq(Symbols) /\ Len(Tail(l.todo)) = Len(l.todo) - 1
          /\ Len(l.todo) \in Nat
      BY <1>3, <1>4, HeadTailProperties
    <3> HIDE DEF l
    <3>3. BeginSymbol(m).todo = Tail(l.todo)
      <4> DEFINE k == [m EXCEPT !.asOf = today]
      <4>1. m \in LoaderStates /\ m.todo = Tail(l.todo)
        BY <1>3, <3>2 DEF LoaderStates
      <4>2. today \in Days
        BY DEF MinuteInv, MarketTypeOK
      <4> HIDE DEF m
      <4>3. k \in LoaderStates /\ k.todo = m.todo
        BY <4>1, <4>2 DEF LoaderStates
      <4>4. BeginSymbol(m) = ToDayBefore(k, m.end + 1)
        BY DEF BeginSymbol
      <4> HIDE DEF k
      <4>5. ToDayBefore(k, m.end + 1).todo = k.todo
        BY <4>3 DEF ToDayBefore, LoaderStates
      <4> QED
        BY <4>1, <4>3, <4>4, <4>5
    <3>4. Len(loader'[w].todo) < Len(l.todo)
      <4>1. loader'[w].todo = Tail(l.todo)
        BY <3>1, <3>3
      <4> HIDE DEF m
      <4>2. Len(loader'[w].todo) = Len(l.todo) - 1
        BY <3>2, <4>1
      <4> QED
        BY <3>2, <4>2
    <3> QED
      BY <3>4 DEF Closer, l
  <2> QED
    BY <2>1, <2>2
<1>10. CASE Page(w)
  BY <1>10, PageAdvances
<1>11. CASE Timeout(w)
  <2>1. l.pc = "page" /\ l.cur \in BusinessDays
    BY <1>6, <1>11 DEF Timeout
  <2>2. CASE l.timeouts < TimeoutRetries
    <3>1. loader'[w] = [l EXCEPT !.timeouts = @ + 1]
      BY <1>1, <1>11, <2>2 DEF Timeout
    <3> HIDE DEF l
    <3>2. /\ loader'[w].pc = "page" /\ loader'[w].todo = l.todo /\ loader'[w].cur = l.cur
          /\ loader'[w].cursor = l.cursor /\ loader'[w].limits = l.limits
          /\ loader'[w].timeouts = l.timeouts + 1 /\ l.timeouts \in Int
      BY <1>3, <2>1, <3>1, MinuteAssumption DEF LoaderStates
    <3>3. loader'[w].timeouts > l.timeouts
      BY <3>2
    <3> QED
      BY <2>1, <3>2, <3>3 DEF Closer, l
  <2>3. CASE ~(l.timeouts < TimeoutRetries)
    <3> DEFINE k == [l EXCEPT !.skipped = @ \cup {<<Sym(l), l.cur>>}]
    <3>1. loader'[w] = Collect(k, {})
      BY <1>1, <1>11, <2>3 DEF Timeout
    <3> HIDE DEF l
    <3>2. k \in LoaderStates /\ k.todo = l.todo /\ k.cur = l.cur
      <4>1. l.skipped \cup {<<Sym(l), l.cur>>} \in SUBSET (Symbols \X Days)
        BY <1>3, <2>1, ADay DEF LoaderStates
      <4> QED
        BY <1>3, <4>1 DEF LoaderStates
    <3> HIDE DEF k
    <3>3. Collect(k, {}).todo = l.todo /\ Collect(k, {}).cur < l.cur
      BY <1>3, <2>1, <3>2, CollectAdvances
    <3> QED
      BY <3>1, <3>3 DEF Closer, l
  <2> QED
    BY <2>2, <2>3
<1>12. CASE RateLimited(w)
  <2>1. l.pc = "page"
    BY <1>12 DEF RateLimited
  <2>2. CASE l.limits < RateRetries
    <3>1. loader' = [loader EXCEPT ![w].limits = @ + 1, ![w].timeouts = 0]
      BY <1>12, <2>2 DEF RateLimited
    <3>2. loader'[w] = [l EXCEPT !.limits = l.limits + 1, !.timeouts = 0]
      BY <1>1, <3>1 DEF LoaderStates
    <3> HIDE DEF l
    <3>3. /\ loader'[w].pc = "page" /\ loader'[w].todo = l.todo /\ loader'[w].cur = l.cur
          /\ loader'[w].cursor = l.cursor /\ loader'[w].limits = l.limits + 1
          /\ l.limits \in Int
      BY <1>3, <2>1, <3>2, MinuteAssumption DEF LoaderStates
    <3>4. loader'[w].limits > l.limits
      BY <3>3
    <3> QED
      BY <2>1, <3>3, <3>4 DEF Closer, l
  <2>3. CASE ~(l.limits < RateRetries)
    <3>1. loader'[w] = Idle
      BY <1>1, <1>12, <2>3 DEF RateLimited, Raise
    <3> QED
      BY <3>1 DEF Closer, Idle
  <2> QED
    BY <2>2, <2>3
<1>13. CASE Write(w)
  <2>1. loader' = [loader EXCEPT ![w] = Collect(l, l.day)] /\ l.cur \in BusinessDays
    BY <1>6, <1>13 DEF Write
  <2>2. l.day \in SUBSET Bars
    BY <1>3 DEF LoaderStates
  <2> QED
    BY <1>7, <2>1, <2>2
<1> QED
  BY <1>8, <1>9, <1>10, <1>11, <1>12, <1>13 DEF Work

\* The paging of a day ends for every page size: no step of a stream leaves
\* it as far from its end as before, except by a page with unreadable rows.
THEOREM PagingAdvances == Spec => StreamsAdvance
<1>1. ASSUME MinuteInv, [Next]_vars, NEW w \in Workers
      PROVE  \/ loader'[w] = loader[w]
             \/ loader[w].pc \in {"idle", "done"}
             \/ Closer(loader'[w], loader[w])
             \/ flaws' > flaws
  <2>1. loader \in [Workers -> LoaderStates]
    BY <1>1 DEF MinuteInv, MinuteTypeOK
  <2>2. CASE loader' = loader
    BY <2>2
  <2>3. CASE MinuteNext
    <3>1. PICK v \in Workers : Stream(v) \/ Work(v) \/ Fails(v)
      BY <2>3 DEF MinuteNext
    <3>2. CASE v = w
      <4>1. CASE Stream(w)
        BY <4>1 DEF Stream
      <4>2. CASE Work(w)
        BY <1>1, <4>2, RunningAdvances
      <4>3. CASE Fails(w)
        <5>1. loader'[w] = Idle
          BY <2>1, <4>3 DEF Fails, Raise
        <5> QED
          BY <5>1 DEF Closer, Idle
      <4> QED
        BY <3>1, <3>2, <4>1, <4>2, <4>3
    <3>3. CASE v # w
      <4>1. \E m : loader' = [loader EXCEPT ![v] = m]
        <5>1. CASE Stream(v)
          BY <5>1 DEF Stream
        <5>2. CASE LookUp(v)
          BY <5>2 DEF LookUp
        <5>3. CASE NextSymbol(v)
          BY <5>3 DEF NextSymbol
        <5>4. CASE Page(v)
          BY <5>4 DEF Page
        <5>5. CASE Timeout(v)
          BY <5>5 DEF Timeout
        <5>6. CASE RateLimited(v)
          <6>1. loader' = [loader EXCEPT ![v].limits = @ + 1, ![v].timeouts = 0]
                \/ loader' = [loader EXCEPT ![v] = Idle]
            BY <5>6 DEF RateLimited, Raise
          <6> QED
            BY <6>1
        <5>7. CASE Write(v)
          BY <5>7 DEF Write
        <5>8. CASE Fails(v)
          BY <5>8 DEF Fails, Raise
        <5> QED
          BY <3>1, <5>1, <5>2, <5>3, <5>4, <5>5, <5>6, <5>7, <5>8 DEF Work
      <4> QED
        BY <2>1, <3>3, <4>1
    <3> QED
      BY <3>2, <3>3
  <2> QED
    BY <1>1, <2>2, <2>3 DEF Next, vars, minuteVars
<1>2. MinuteInv /\ [Next]_vars =>
        [\A w \in Workers :
           \/ loader'[w] = loader[w]
           \/ loader[w].pc \in {"idle", "done"}
           \/ Closer(loader'[w], loader[w])
           \/ flaws' > flaws]_<<loader, flaws>>
  BY <1>1
<1> QED
  BY <1>2, CachesInductive, PTL DEF Spec, StreamsAdvance

=============================================================================
