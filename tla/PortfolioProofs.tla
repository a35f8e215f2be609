--------------------------- MODULE PortfolioProofs ---------------------------
(***************************************************************************)
(* What the accounts of the portfolio backtests keep to, for every universe, *)
(* every series of bars and all rates.                                     *)
(***************************************************************************)
EXTENDS Portfolios, FiniteSetTheorems, SequenceTheorems, WellFoundedInduction, TLAPS

-----------------------------------------------------------------------------
(* The inductive invariant.                                                *)

Rebalances == baseline \in {"momentum", "low_vol"}

\* Where the loop is: only a rebalancing goes through several steps with a bar
\* in hand, and what it is about to buy the strategy believes to hold.
PlaceInv ==
    /\ pc \notin {"feed", "liquidate", "done"} => Rebalances /\ bar \in Bars(Symbols)
    /\ pc # "sell" => exits = {}
    /\ pc \notin {"sell", "buy"} => entries = {}
    /\ entries \subseteq holdings
    /\ snapshot >= 0
    /\ Rebalances => \A s \in exits \cup holdings : closes[s] # <<>>

\* Every lot is believed in, or its exit is on its way.
BeliefInv ==
    baseline # "dca" =>
        /\ Held \subseteq holdings \cup exits
        /\ Cardinality(holdings) <= Places
        /\ baseline = "golden_cross" => holdings \subseteq {SmaSymbol}

\* The month is that of the last bar; no lot is of a later month, and before
\* the purchase of the month all are of earlier ones.
MonthInv ==
    baseline = "dca" =>
        /\ session # 0 => bar.sym = Target
        /\ month = IF session = 0 THEN 0 ELSE MonthOf[session]
        /\ counter <= session
        /\ \A i \in DOMAIN lots[Target] :
             /\ MonthOf[lots[Target][i].day] <= month
             /\ ~entered => MonthOf[lots[Target][i].day] < month

AccountInv == TypeOK /\ NoDebt

PortfolioInv ==
    AccountInv /\ PlaceInv /\ BeliefInv /\ CapKept /\ MonthInv /\ OncePerMonth /\ NoLookAhead

-----------------------------------------------------------------------------
(* The arithmetic of a trade.                                              *)

\* A quotient of naturals is a natural.
LEMMA DivNat == \A n \in Nat, d \in Nat \ {0} : n \div d \in Nat
OBVIOUS

\* An amount of ten thousandths gives whole won, and so does a charge on it.
LEMMA AmountType ==
    ASSUME NEW amount \in Nat, NEW rate \in Nat
    PROVE  Won(amount) \in Nat /\ Charge(amount, rate) \in Nat
<1>1. amount * rate \in Nat
  OBVIOUS
<1> QED
  BY <1>1, DivNat DEF Won, Charge

\* Two floors of parts are at most the floor of the whole.
LEMMA FloorOfParts ==
    ASSUME NEW amount \in Nat, NEW a \in Nat, NEW b \in Nat, a + b <= 100
    PROVE  Charge(amount, a) + Charge(amount, b) <= Won(amount)
<1> DEFINE x == (amount * a) \div 1000000
           y == (amount * b) \div 1000000
<1>1. amount * a \in Nat /\ amount * b \in Nat
  OBVIOUS
<1>2. amount * a + amount * b <= amount * 100
  <2>1. amount * a + amount * b = amount * (a + b)
    OBVIOUS
  <2>2. amount * (a + b) <= amount * 100
    OBVIOUS
  <2> QED
    BY <2>1, <2>2
<1>3. \A n \in Nat : (n \div 1000000) \in Nat /\ 1000000 * (n \div 1000000) <= n
  OBVIOUS
<1>4. x \in Nat /\ y \in Nat /\ 1000000 * x <= amount * a /\ 1000000 * y <= amount * b
  BY <1>1, <1>3
<1> HIDE DEF x, y
<1>5. 10000 * (x + y) <= amount
  BY <1>1, <1>2, <1>4
<1>6. \A z \in Nat : 10000 * z <= amount => z <= amount \div 10000
  OBVIOUS
<1>7. x + y <= amount \div 10000
  BY <1>4, <1>5, <1>6
<1> QED
  BY <1>7 DEF Charge, Won, x, y

\* The prices of the fills: that of a purchase can be divided by.
LEMMA FillPrices ==
    ASSUME NEW price \in Nat
    PROVE  /\ BuyFillPrice(price) \in Nat /\ SellFillPrice(price) \in Nat
           /\ price # 0 => BuyFillPrice(price) # 0
<1>1. 100 + Slippage \in Nat /\ 100 + Slippage > 0 /\ 100 - Slippage \in Nat
  BY AccountAssumption
<1>2. \A n, m \in Nat : n * m \in Nat /\ (n > 0 /\ m > 0 => n * m > 0)
  OBVIOUS
<1> QED
  BY <1>1, <1>2 DEF BuyFillPrice, SellFillPrice

\* What is allocated to a place is a number of shares.
LEMMA AllocatedQty ==
    ASSUME NEW money \in Nat, NEW slots \in Nat \ {0}, NEW price \in Nat \ {0}
    PROVE  Allocated(money, slots, price) \in Nat
<1>1. BuyFillPrice(price) \in Nat \ {0}
  BY FillPrices
<1>2. \A n, m \in Nat : n * m \in Nat /\ (n # 0 /\ m # 0 => n * m # 0)
  OBVIOUS
<1>3. slots * BuyFillPrice(price) \in Nat \ {0}
  BY <1>1, <1>2
<1>4. money * PositionPct * 100 \in Nat
  BY <1>2, AccountAssumption
<1> QED
  BY <1>3, <1>4, DivNat DEF Allocated

\* A sale never costs more than it brings.
LEMMA SaleBrings ==
    ASSUME NEW lot \in LotStates, NEW price \in Nat
    PROVE  Proceeds(lot, price) \in Nat
<1> DEFINE amount == lot.qty * SellFillPrice(price)
<1>1. amount \in Nat
  <2>1. lot.qty \in Nat /\ SellFillPrice(price) \in Nat
    BY FillPrices DEF LotStates
  <2> QED
    BY <2>1
<1> HIDE DEF amount
<1>2. Won(amount) \in Nat /\ Charge(amount, Commission) \in Nat /\ Charge(amount, SellTax) \in Nat
  BY <1>1, AmountType, AccountAssumption
<1>3. Charge(amount, Commission) + Charge(amount, SellTax) <= Won(amount)
  BY <1>1, FloorOfParts, AccountAssumption
<1>4. Won(amount) - Charge(amount, Commission) - Charge(amount, SellTax) \in Nat
  BY <1>2, <1>3
<1> QED
  BY <1>4 DEF Proceeds, amount

-----------------------------------------------------------------------------
(* The two trades.                                                         *)

\* A purchase appends one lot, or does nothing.
Bought(sym) ==
    /\ cash' \in Nat /\ profit' \in Int
    /\ lots' \in [Symbols -> Seq(LotStates)]
    /\ \A t \in Symbols : t # sym => lots'[t] = lots[t]
    /\ \/ lots'[sym] = lots[sym]
       \/ \E lot \in LotStates : lot.day = bar'.day /\ lots'[sym] = Append(lots[sym], lot)

\* A sale takes the oldest lot, if there is one.
Sold(sym) ==
    /\ cash' \in Nat /\ profit' \in Int
    /\ lots' \in [Symbols -> Seq(LotStates)]
    /\ \A t \in Symbols : t # sym => lots'[t] = lots[t]
    /\ lots'[sym] = IF lots[sym] = <<>> THEN <<>> ELSE Tail(lots[sym])

AccountTyped == cash \in Nat /\ profit \in Int /\ lots \in [Symbols -> Seq(LotStates)]

\* Buys is a purchase of a lot of the bar's day that the cash pays for.
LEMMA BuysKeeps ==
    ASSUME AccountTyped, NEW sym \in Symbols, NEW price \in Nat, NEW qty \in Nat,
           bar'.day \in Days, Buys(sym, price, qty)
    PROVE  Bought(sym)
<1> DEFINE lot == Lot(price, qty)
<1>1. lot \in LotStates /\ lot.day = bar'.day
  <2>1. qty * BuyFillPrice(price) \in Nat
    <3>1. BuyFillPrice(price) \in Nat
      BY FillPrices
    <3> QED
      BY <3>1
  <2>2. Won(qty * BuyFillPrice(price)) \in Nat
        /\ Charge(qty * BuyFillPrice(price), Commission) \in Nat
    BY <2>1, AmountType, AccountAssumption
  <2> QED
    BY <2>2 DEF Lot, LotStates
<1>2. qty > 0 /\ Affordable(lot)
        => cash' = cash - Cost(lot) /\ lots' = [lots EXCEPT ![sym] = Append(@, lot)]
           /\ profit' = profit
  BY DEF Buys
<1>3. ~(qty > 0 /\ Affordable(lot)) => UNCHANGED accountVars
  BY DEF Buys
<1> HIDE DEF lot
<1>4. CASE qty > 0 /\ Affordable(lot)
  <2>1. Cost(lot) \in Nat /\ Cost(lot) <= cash
    BY <1>1, <1>4 DEF Cost, LotStates, Affordable
  <2>2. Append(lots[sym], lot) \in Seq(LotStates)
    BY <1>1 DEF AccountTyped
  <2>3. cash' \in Nat /\ profit' \in Int
    BY <1>2, <1>4, <2>1 DEF AccountTyped
  <2>4. lots' = [lots EXCEPT ![sym] = Append(lots[sym], lot)]
    BY <1>2, <1>4
  <2>5. /\ lots' \in [Symbols -> Seq(LotStates)]
        /\ \A t \in Symbols : t # sym => lots'[t] = lots[t]
        /\ lots'[sym] = Append(lots[sym], lot)
    BY <2>2, <2>4 DEF AccountTyped
  <2> QED
    BY <1>1, <2>3, <2>5 DEF Bought
<1>5. CASE ~(qty > 0 /\ Affordable(lot))
  BY <1>3, <1>5 DEF AccountTyped, Bought, accountVars
<1> QED
  BY <1>4, <1>5

\* Sells is a sale of the oldest lot.
LEMMA SellsKeeps ==
    ASSUME AccountTyped, NEW sym \in Symbols, NEW price \in Nat, Sells(sym, price)
    PROVE  Sold(sym)
<1>1. CASE lots[sym] = <<>>
  BY <1>1 DEF AccountTyped, Sold, Sells, accountVars
<1>2. CASE lots[sym] # <<>>
  <2> DEFINE lot == Head(lots[sym])
  <2>1. lot \in LotStates /\ Tail(lots[sym]) \in Seq(LotStates)
    BY <1>2 DEF AccountTyped
  <2>2. /\ cash' = cash + Proceeds(lot, price)
        /\ profit' = profit + Proceeds(lot, price) - Cost(lot)
        /\ lots' = [lots EXCEPT ![sym] = Tail(@)]
    BY <1>2 DEF Sells
  <2> HIDE DEF lot
  <2>3. Proceeds(lot, price) \in Nat
    BY <2>1, SaleBrings
  <2>4. Cost(lot) \in Nat
    BY <2>1 DEF Cost, LotStates
  <2> QED
    BY <1>2, <2>1, <2>2, <2>3, <2>4 DEF AccountTyped, Sold
<1> QED
  BY <1>1, <1>2

-----------------------------------------------------------------------------
(* The parts of a step.                                                    *)

StreamTyped ==
    /\ bar' \in Bars(Symbols) /\ session' = bar'.day
    /\ session' \in Days /\ session <= session'
    /\ baseline' = baseline

\* A bar that comes is of this or of a later session.
LEMMA ArrivesKeeps ==
    ASSUME TypeOK, NEW syms \in SUBSET Symbols, NEW next \in Bars(syms), Arrives(next)
    PROVE  /\ StreamTyped
           /\ bar' = next
           /\ pc = "feed"
           /\ session = 0 \/ session < session' \/ (session = session' /\ next.sym > bar.sym)
<1>1. next \in Bars(Symbols) /\ next.day \in Days
  BY DEF Bars
<1>2. session \in Nat /\ next.day \in Nat /\ Days \subseteq Nat \ {0}
  BY <1>1, AccountAssumption DEF TypeOK, Days
<1>3. next.day > session \/ (next.day = session /\ next.sym > bar.sym)
  BY DEF Arrives, Follows
<1> QED
  BY <1>1, <1>2, <1>3 DEF Arrives, StreamTyped

\* The closes go on: the symbol's buffer is not empty any more.
LEMMA BufferedKeeps ==
    ASSUME closes \in [Symbols -> Seq(Closes)], seen \in [Symbols -> 0..session],
           session \in Nat, session' \in Nat, session <= session', bar'.day = session',
           bar' \in Bars(Symbols),
           NEW maxlen \in Nat \ {0}, Buffered(maxlen)
    PROVE  /\ closes' \in [Symbols -> Seq(Closes)]
           /\ seen' \in [Symbols -> 0..session']
           /\ closes'[bar'.sym] # <<>>
           /\ \A s \in Symbols : closes[s] # <<>> => closes'[s] # <<>>
<1> DEFINE sym == bar'.sym
           new == Deque(closes[sym], maxlen, bar'.close)
<1>1. sym \in Symbols /\ bar'.close \in Closes
  BY DEF Bars
<1>2. new \in Seq(Closes) /\ new # <<>>
  <2>1. closes[sym] \in Seq(Closes)
    BY <1>1
  <2>2. CASE Len(closes[sym]) < maxlen
    <3>1. new = Append(closes[sym], bar'.close)
      BY <2>2 DEF Deque
    <3> HIDE DEF new, sym
    <3> QED
      BY <1>1, <2>1, <3>1, AppendProperties
  <2>3. CASE ~(Len(closes[sym]) < maxlen)
    <3>1. closes[sym] # <<>>
      BY <2>1, <2>3
    <3>2. Tail(closes[sym]) \in Seq(Closes)
      BY <2>1, <3>1, HeadTailProperties
    <3>3. new = Append(Tail(closes[sym]), bar'.close)
      BY <2>3 DEF Deque
    <3> HIDE DEF new, sym
    <3> QED
      BY <1>1, <3>2, <3>3, AppendProperties
  <2> QED
    BY <2>2, <2>3
<1>3. closes' = [closes EXCEPT ![sym] = new] /\ seen' = [seen EXCEPT ![sym] = bar'.day]
  BY DEF Buffered
<1> HIDE DEF new, sym
<1>4. 0..session \subseteq 0..session' /\ bar'.day \in 0..session'
  OBVIOUS
<1>5. seen' \in [Symbols -> 0..session']
  BY <1>1, <1>3, <1>4
<1>6. /\ closes' \in [Symbols -> Seq(Closes)]
      /\ closes'[sym] = new
      /\ \A s \in Symbols : s # sym => closes'[s] = closes[s]
  BY <1>1, <1>2, <1>3
<1> QED
  BY <1>1, <1>2, <1>5, <1>6 DEF sym

\* After a purchase at most the symbol bought is held besides those before.
LEMMA HeldAfterPurchase ==
    ASSUME AccountTyped, NEW sym \in Symbols, Bought(sym)
    PROVE  /\ Held' \subseteq Held \cup {sym}
           /\ lots[sym] = <<>> => Len(lots'[sym]) <= 1
           /\ \A t \in Symbols : t # sym => lots'[t] = lots[t]
<1>1. ASSUME lots[sym] = <<>> PROVE Len(lots'[sym]) <= 1
  <2>1. CASE lots'[sym] = lots[sym]
    BY <1>1, <2>1
  <2>2. ASSUME NEW lot \in LotStates, lots'[sym] = Append(lots[sym], lot)
        PROVE  Len(lots'[sym]) <= 1
    <3>1. lots[sym] \in Seq(LotStates) /\ Len(lots[sym]) = 0
      BY <1>1 DEF AccountTyped
    <3>2. Len(Append(lots[sym], lot)) = 1
      BY <3>1
    <3> QED
      BY <2>2, <3>2
  <2> QED
    BY <2>1, <2>2 DEF Bought
<1> QED
  BY <1>1 DEF Bought, Held

\* After a sale the symbol is not held any more, when it had but one lot.
LEMMA HeldAfterSale ==
    ASSUME AccountTyped, NEW sym \in Symbols, Sold(sym), Len(lots[sym]) <= 1
    PROVE  Held' = Held \ {sym} /\ lots'[sym] = <<>>
<1>1. lots'[sym] = <<>>
  <2>1. CASE lots[sym] = <<>>
    BY <2>1 DEF Sold
  <2>2. CASE lots[sym] # <<>>
    <3>1. lots[sym] \in Seq(LotStates)
      BY DEF AccountTyped
    <3>2. Tail(lots[sym]) \in Seq(LotStates) /\ Len(Tail(lots[sym])) = Len(lots[sym]) - 1
      BY <2>2, <3>1, HeadTailProperties
    <3>3. Len(lots[sym]) \in Nat /\ Len(Tail(lots[sym])) \in Nat
      BY <3>1, <3>2, LenProperties
    <3>4. Tail(lots[sym]) = <<>>
      BY <3>2, <3>3, EmptySeq
    <3> QED
      BY <2>2, <3>4 DEF Sold
  <2> QED
    BY <2>1, <2>2
<1> QED
  BY <1>1 DEF Sold, Held

\* A subset of places is not larger, and finite.
LEMMA SmallerStill ==
    ASSUME NEW S, NEW T \in SUBSET S, NEW n \in Nat,
           S \subseteq Symbols, Cardinality(S) <= n
    PROVE  Cardinality(T) <= n /\ IsFiniteSet(T)
<1>1. IsFiniteSet(S)
  BY AccountAssumption, FS_Subset
<1>2. IsFiniteSet(T) /\ Cardinality(T) <= Cardinality(S) /\ Cardinality(S) \in Nat
      /\ Cardinality(T) \in Nat
  BY <1>1, FS_Subset, FS_CardinalityType
<1> QED
  BY <1>2

\* There is a place at least.
LEMMA PlacesNat == Places \in Nat \ {0}
  BY RebalancingAssumption, RsiAssumption DEF Places

-----------------------------------------------------------------------------
(* The steps.                                                              *)

\* A bar's close, the last close of a symbol and a stop are prices of signals.
LEMMA PriceOfClose == \A c \in Closes \cup {0} : c * 100 \in Nat /\ (c # 0 => c * 100 # 0)
  BY AccountAssumption

LEMMA PortfolioInit == Init => PortfolioInv
<1> SUFFICES ASSUME Init PROVE PortfolioInv
  OBVIOUS
<1> USE DEF Init, DcaInit, RebalanceInit, RsiInit
<1>1. Held = {}
  BY DEF Held
<1>2. TypeOK
  <2>1. closes \in [Symbols -> Seq(Closes)] /\ lots \in [Symbols -> Seq(LotStates)]
    BY EmptySeq
  <2>2. MaxDay \in Nat /\ 0 \in 0..MaxDay /\ StartingCapital \in Nat
    BY AccountAssumption
  <2>3. session = bar.day /\ session \in 0..MaxDay /\ bar = NoBar
    BY <2>2 DEF NoBar
  <2>4. DcaTypeOK
    BY <2>2 DEF DcaTypeOK
  <2>5. RebalanceTypeOK
    BY DEF RebalanceTypeOK
  <2>6. RsiTypeOK
    BY <2>2 DEF RsiTypeOK
  <2>7. /\ seen \in [Symbols -> 0..session] /\ latest \in [Symbols -> {0} \cup Closes]
        /\ cash \in Int /\ profit \in Int
    BY <2>2
  <2> QED
    BY <2>1, <2>3, <2>4, <2>5, <2>6, <2>7 DEF TypeOK
<1>3. NoDebt
  BY AccountAssumption DEF NoDebt
<1>4. PlaceInv
  BY DEF PlaceInv
<1>5. Cardinality({}) = 0
  BY FS_EmptySet
<1>6. BeliefInv
  BY <1>1, <1>5, PlacesNat DEF BeliefInv
<1>7. CapKept
  BY <1>1, <1>5, PlacesNat DEF CapKept
<1>8. MonthInv /\ OncePerMonth
  <2>1. lots[Target] = <<>>
    BY DcaAssumption
  <2>2. DOMAIN lots[Target] = {}
    BY <2>1
  <2> QED
    BY <2>2 DEF MonthInv, OncePerMonth
<1>9. NoLookAhead
  BY DEF NoLookAhead
<1> QED
  BY <1>2, <1>3, <1>4, <1>6, <1>7, <1>8, <1>9 DEF PortfolioInv, AccountInv

\* The stream ends, or nothing is left to close.
LEMMA EndKeeps ==
    ASSUME PortfolioInv, EndOfStream \/ Liquidated,
           UNCHANGED <<dcaVars, rebalanceVars, rsiVars>>
    PROVE  PortfolioInv'
<1>1. /\ pc \in {"feed", "liquidate"} /\ pc' \in {"liquidate", "done"}
      /\ UNCHANGED <<baseline, bar, session, latest, cash, lots, profit, closes, seen, holdings>>
      /\ UNCHANGED <<month, counter, entered, exits, entries, period, snapshot, stops, lastExit>>
  BY DEF EndOfStream, Liquidated, streamVars, accountVars, bufferVars, dcaVars,
         rebalanceVars, rsiVars
<1>2. AccountInv'
  BY <1>1 DEF PortfolioInv, AccountInv, TypeOK, NoDebt, DcaTypeOK, RebalanceTypeOK, RsiTypeOK
<1>3. PlaceInv'
  BY <1>1 DEF PortfolioInv, PlaceInv, Rebalances
<1>4. BeliefInv' /\ CapKept'
  BY <1>1 DEF PortfolioInv, BeliefInv, CapKept, Held, Places
<1>5. MonthInv' /\ OncePerMonth' /\ NoLookAhead'
  BY <1>1 DEF PortfolioInv, MonthInv, OncePerMonth, NoLookAhead
<1> QED
  BY <1>2, <1>3, <1>4, <1>5 DEF PortfolioInv

\* A lot is closed in thought, in every backtest but that of dca.
LEMMA LiquidateKeeps ==
    ASSUME PortfolioInv, Liquidate, baseline # "dca",
           UNCHANGED <<dcaVars, rebalanceVars, rsiVars>>
    PROVE  PortfolioInv'
<1>1. /\ pc = "liquidate"
      /\ UNCHANGED <<baseline, bar, session, latest, pc, closes, seen, holdings>>
      /\ UNCHANGED <<month, counter, entered, exits, entries, period, snapshot, stops, lastExit>>
  BY DEF Liquidate, streamVars, bufferVars, dcaVars, rebalanceVars, rsiVars
<1>2. PICK s \in Held : Sells(s, latest[s] * 100)
  BY DEF Liquidate
<1>3. s \in Symbols /\ AccountTyped /\ latest[s] * 100 \in Nat
  BY PriceOfClose DEF Held, PortfolioInv, AccountInv, TypeOK, NoDebt, AccountTyped
<1>4. Sold(s)
  BY <1>2, <1>3, SellsKeeps
<1>5. Len(lots[s]) <= 1
  BY <1>3 DEF PortfolioInv, CapKept
<1>6. Held' = Held \ {s} /\ lots'[s] = <<>>
  BY <1>3, <1>4, <1>5, HeldAfterSale
<1>7. AccountInv'
  BY <1>1, <1>4 DEF PortfolioInv, AccountInv, TypeOK, NoDebt, DcaTypeOK, RebalanceTypeOK,
                    RsiTypeOK, Sold
<1>8. PlaceInv'
  BY <1>1 DEF PortfolioInv, PlaceInv, Rebalances
<1>9. BeliefInv'
  BY <1>1, <1>6 DEF PortfolioInv, BeliefInv, Places
<1>10. CapKept'
  <2>1. Cardinality(Held') <= Places
    BY <1>6, SmallerStill, PlacesNat DEF PortfolioInv, CapKept, Held
  <2>2. \A t \in Symbols : Len(lots'[t]) <= 1
    BY <1>4, <1>6 DEF PortfolioInv, CapKept, Sold
  <2>3. Places' = Places
    BY <1>1 DEF Places
  <2> QED
    BY <2>1, <2>2, <2>3 DEF CapKept
<1>11. MonthInv' /\ OncePerMonth' /\ NoLookAhead'
  BY <1>1 DEF PortfolioInv, MonthInv, OncePerMonth, NoLookAhead
<1> QED
  BY <1>7, <1>8, <1>9, <1>10, <1>11 DEF PortfolioInv

-----------------------------------------------------------------------------
(* dca.                                                                    *)

\* The bars of the one symbol are of later and later days, so months only grow.
LEMMA DcaClock ==
    ASSUME PortfolioInv, baseline = "dca", NEW next \in Bars({Target}), Arrives(next)
    PROVE  /\ session < session' /\ session' \in Days /\ bar'.sym = Target
           /\ MonthOf[bar'.day] \in Nat \ {0} /\ month \in Nat
           /\ month <= MonthOf[bar'.day]
<1>1. {Target} \in SUBSET Symbols
  BY DcaAssumption
<1>2. /\ session' = bar'.day /\ session' \in Days /\ session <= session' /\ bar' = next
      /\ session = 0 \/ session < session' \/ (session = session' /\ next.sym > bar.sym)
  BY <1>1, ArrivesKeeps DEF PortfolioInv, AccountInv, StreamTyped
<1>3. bar'.sym = Target /\ Target \in Nat
  BY <1>2, DcaAssumption, AccountAssumption DEF Bars
<1>4. session \in Nat /\ MaxDay \in Nat /\ session <= MaxDay
  BY AccountAssumption DEF PortfolioInv, AccountInv, TypeOK
<1>5. session < session'
  <2>1. session # 0 => bar.sym = Target
    BY DEF PortfolioInv, MonthInv
  <2>2. ~(Target > Target)
    BY <1>3
  <2> QED
    BY <1>2, <1>3, <1>4, <2>1, <2>2 DEF Days
<1>6. month = IF session = 0 THEN 0 ELSE MonthOf[session]
  BY DEF PortfolioInv, MonthInv
<1>7. MonthOf \in [Days -> Nat \ {0}] /\ \A d, e \in Days : d <= e => MonthOf[d] <= MonthOf[e]
  BY AccountAssumption
<1>8. session # 0 => session \in Days
  BY <1>4 DEF Days
<1> QED
  BY <1>2, <1>3, <1>5, <1>6, <1>7, <1>8

\* A bar: the lots before it are of earlier months when there is a signal.
LEMMA DcaBarKeeps ==
    ASSUME PortfolioInv, baseline = "dca", DcaBar, UNCHANGED <<rebalanceVars, rsiVars>>
    PROVE  PortfolioInv'
<1>1. PICK next \in Bars({Target}) : Arrives(next)
  BY DEF DcaBar
<1>2. /\ session < session' /\ session' \in Days /\ bar'.sym = Target
      /\ MonthOf[bar'.day] \in Nat \ {0} /\ month \in Nat /\ month <= MonthOf[bar'.day]
  BY <1>1, DcaClock
<1>3. /\ bar' \in Bars(Symbols) /\ session' = bar'.day /\ baseline' = baseline /\ pc = "feed"
  BY <1>1, ArrivesKeeps, DcaAssumption DEF PortfolioInv, AccountInv, StreamTyped
<1>4. /\ UNCHANGED <<pc, closes, seen, holdings, exits, entries, period, snapshot, stops, lastExit>>
      /\ latest' = [latest EXCEPT ![bar'.sym] = bar'.close]
      /\ month' = MonthOf[bar'.day] /\ counter' = Count
      /\ entered' = ((~NewMonth /\ entered) \/ DcaSignal)
  BY DEF DcaBar, DcaOnBar, Closed, bufferVars, rebalanceVars, rsiVars
<1>5. AccountTyped /\ Target \in Symbols /\ bar'.close * 100 \in Nat \ {0}
  <2>1. bar'.close \in Closes
    BY <1>3 DEF Bars
  <2>2. bar'.close \in Nat \ {0}
    BY <2>1, AccountAssumption
  <2> QED
    BY <2>1, <2>2, DcaAssumption, PriceOfClose
       DEF AccountTyped, PortfolioInv, AccountInv, TypeOK, NoDebt
<1>6. DcaQty \in Nat
  <2>1. BuyFillPrice(bar'.close * 100) \in Nat \ {0}
    BY <1>5, FillPrices
  <2>2. MonthlyInvestment * 10000 \in Nat
    BY DcaAssumption, AccountAssumption
  <2> QED
    BY <2>1, <2>2, DivNat DEF DcaQty
<1>7. DcaSignal => Bought(Target)
  BY <1>2, <1>3, <1>5, <1>6, BuysKeeps DEF DcaBar
<1>8. ~DcaSignal => UNCHANGED accountVars
  BY DEF DcaBar
<1>9. counter' \in 0..MaxDay /\ counter' <= session'
  <2>1. session \in Nat /\ session' \in Nat \ {0} /\ MaxDay \in Nat /\ session' <= MaxDay
    BY <1>2, AccountAssumption DEF PortfolioInv, AccountInv, TypeOK, Days
  <2>2. counter \in Nat /\ counter <= session
    BY DEF PortfolioInv, AccountInv, TypeOK, DcaTypeOK, MonthInv
  <2> QED
    BY <1>2, <1>4, <2>1, <2>2 DEF Count
<1>10. AccountTyped'
  BY <1>5, <1>7, <1>8 DEF AccountTyped, Bought, accountVars
<1>11. AccountInv'
  <2>1. session' \in 0..MaxDay /\ 0..session \subseteq 0..session'
    BY <1>2, AccountAssumption DEF PortfolioInv, AccountInv, TypeOK, Days
  <2>2. latest' \in [Symbols -> {0} \cup Closes]
    BY <1>3, <1>4 DEF PortfolioInv, AccountInv, TypeOK, Bars
  <2>3. DcaTypeOK'
    BY <1>2, <1>3, <1>4, <1>9 DEF DcaTypeOK, PortfolioInv, AccountInv, TypeOK, DcaSignal
  <2>4. seen' \in [Symbols -> 0..session']
    BY <1>4, <2>1 DEF PortfolioInv, AccountInv, TypeOK
  <2>5. RebalanceTypeOK' /\ RsiTypeOK'
    BY <1>3, <1>4 DEF PortfolioInv, AccountInv, TypeOK, RebalanceTypeOK, RsiTypeOK
  <2>6. cash' \in Int /\ profit' \in Int /\ lots' \in [Symbols -> Seq(LotStates)] /\ NoDebt'
    BY <1>10 DEF AccountTyped, NoDebt
  <2> QED
    BY <1>3, <1>4, <2>1, <2>2, <2>3, <2>4, <2>5, <2>6 DEF PortfolioInv, AccountInv, TypeOK
<1>12. PlaceInv' /\ NoLookAhead'
  BY <1>3, <1>4 DEF PortfolioInv, PlaceInv, NoLookAhead, Rebalances
<1>13. BeliefInv' /\ CapKept'
  BY <1>3 DEF BeliefInv, CapKept
<1> DEFINE old == lots[Target]
           Earlier(n) == \A i \in DOMAIN old : MonthOf[old[i].day] < n
<1>14. old \in Seq(LotStates) /\ \A i \in DOMAIN old : MonthOf[old[i].day] \in Nat
  <2>1. old \in Seq(LotStates)
    BY <1>5 DEF AccountTyped
  <2>2. \A i \in DOMAIN old : old[i] \in LotStates
    BY <2>1
  <2> QED
    BY <2>1, <2>2, AccountAssumption DEF LotStates
<1>15. /\ \A i \in DOMAIN old : MonthOf[old[i].day] <= month
       /\ ~entered => Earlier(month)
       /\ \A i, j \in DOMAIN old : i < j => MonthOf[old[i].day] < MonthOf[old[j].day]
  BY DEF PortfolioInv, MonthInv, OncePerMonth
<1>16. NewMonth \/ ~entered => Earlier(month')
  BY <1>2, <1>4, <1>14, <1>15 DEF NewMonth
<1>17. month' = (IF session' = 0 THEN 0 ELSE MonthOf[session'])
  BY <1>2, <1>3, <1>4 DEF Days
<1>18. CASE lots'[Target] = old
  <2>1. \A i \in DOMAIN old : MonthOf[old[i].day] <= month'
    BY <1>2, <1>4, <1>14, <1>15
  <2>2. ~entered' => Earlier(month')
    BY <1>4, <1>16
  <2> HIDE DEF old
  <2> QED
    BY <1>2, <1>3, <1>9, <1>11, <1>12, <1>13, <1>15, <1>17, <1>18, <2>1, <2>2
       DEF PortfolioInv, MonthInv, OncePerMonth
<1>19. ASSUME NEW lot \in LotStates, lot.day = bar'.day, lots'[Target] = Append(old, lot),
              DcaSignal
       PROVE  PortfolioInv'
  <2>1. Earlier(month') /\ entered'
    BY <1>4, <1>16, <1>19 DEF DcaSignal
  <2>2. MonthOf[lot.day] = month' /\ month' \in Nat
    BY <1>2, <1>4, <1>19
  <2> HIDE DEF old
  <2> DEFINE all == lots'[Target]
  <2>3. /\ DOMAIN all = 1..(Len(old) + 1) /\ DOMAIN old = 1..Len(old) /\ Len(old) \in Nat
        /\ all[Len(old) + 1] = lot
        /\ \A i \in DOMAIN old : all[i] = old[i]
    BY <1>14, <1>19, AppendProperties, LenProperties
  <2>4. \A i \in DOMAIN all : i \in DOMAIN old \/ i = Len(old) + 1
    BY <2>3
  <2> HIDE DEF all
  <2>5. \A i \in DOMAIN all : MonthOf[all[i].day] <= month'
    BY <1>14, <2>1, <2>2, <2>3, <2>4
  <2>6. \A i, j \in DOMAIN all : i < j => MonthOf[all[i].day] < MonthOf[all[j].day]
    BY <1>15, <2>1, <2>2, <2>3, <2>4
  <2> QED
    BY <1>2, <1>3, <1>9, <1>11, <1>12, <1>13, <1>17, <2>1, <2>5, <2>6
       DEF PortfolioInv, MonthInv, OncePerMonth, all
<1> QED
  BY <1>7, <1>8, <1>18, <1>19 DEF Bought, accountVars

\* The last lots become trades, the oldest first.
LEMMA DcaLiquidateKeeps ==
    ASSUME PortfolioInv, baseline = "dca", DcaLiquidate, UNCHANGED <<rebalanceVars, rsiVars>>
    PROVE  PortfolioInv'
<1> DEFINE old == lots[Target]
<1>1. /\ pc = "liquidate" /\ old # <<>>
      /\ UNCHANGED <<baseline, bar, session, latest, pc, cash, closes, seen, holdings>>
      /\ UNCHANGED <<month, counter, entered, exits, entries, period, snapshot, stops, lastExit>>
      /\ profit' = profit + Proceeds(Head(old), latest[Target] * 100) - Cost(Head(old))
      /\ lots' = [lots EXCEPT ![Target] = Tail(old)]
  BY DEF DcaLiquidate, streamVars, bufferVars, dcaVars, rebalanceVars, rsiVars
<1>2. Target \in Symbols /\ AccountTyped /\ latest[Target] * 100 \in Nat
  BY PriceOfClose, DcaAssumption DEF PortfolioInv, AccountInv, TypeOK, NoDebt, AccountTyped
<1>3. old \in Seq(LotStates)
  BY <1>2 DEF AccountTyped
<1>4. /\ Head(old) \in LotStates /\ Tail(old) \in Seq(LotStates)
      /\ Len(Tail(old)) = Len(old) - 1
      /\ \A i \in 1..Len(Tail(old)) : Tail(old)[i] = old[i + 1]
  <2> HIDE DEF old
  <2> QED
    BY <1>1, <1>3, HeadTailProperties
<1> HIDE DEF old
<1>5. profit' \in Int
  <2>1. Proceeds(Head(old), latest[Target] * 100) \in Nat
    BY <1>2, <1>4, SaleBrings
  <2>2. Cost(Head(old)) \in Nat
    BY <1>4 DEF Cost, LotStates
  <2> QED
    BY <1>1, <1>2, <2>1, <2>2 DEF AccountTyped
<1>6. lots' \in [Symbols -> Seq(LotStates)] /\ lots'[Target] = Tail(old)
  BY <1>1, <1>2, <1>4 DEF AccountTyped
<1>7. AccountInv'
  BY <1>1, <1>5, <1>6 DEF PortfolioInv, AccountInv, TypeOK, NoDebt, DcaTypeOK,
                          RebalanceTypeOK, RsiTypeOK
<1>8. PlaceInv' /\ BeliefInv' /\ CapKept' /\ NoLookAhead'
  BY <1>1 DEF PortfolioInv, PlaceInv, BeliefInv, CapKept, NoLookAhead, Rebalances
<1>9. /\ \A i \in DOMAIN old :
           /\ MonthOf[old[i].day] <= month
           /\ ~entered => MonthOf[old[i].day] < month
      /\ \A i, j \in DOMAIN old : i < j => MonthOf[old[i].day] < MonthOf[old[j].day]
  BY DEF PortfolioInv, MonthInv, OncePerMonth, old
<1>10. DOMAIN old = 1..Len(old) /\ Len(old) \in Nat /\ DOMAIN Tail(old) = 1..(Len(old) - 1)
  BY <1>3, <1>4, LenProperties
<1>11. \A i \in DOMAIN Tail(old) : i + 1 \in DOMAIN old /\ Tail(old)[i] = old[i + 1]
  BY <1>4, <1>10
<1>12. \A i, j \in DOMAIN Tail(old) : i < j => i + 1 < j + 1
  BY <1>10
<1>13. MonthInv' /\ OncePerMonth'
  <2> DEFINE all == Tail(old)
  <2>1. \A i \in DOMAIN all : /\ MonthOf[all[i].day] <= month
                              /\ ~entered => MonthOf[all[i].day] < month
    <3> SUFFICES ASSUME NEW i \in DOMAIN all
                 PROVE  /\ MonthOf[all[i].day] <= month
                        /\ ~entered => MonthOf[all[i].day] < month
      OBVIOUS
    <3>1. i + 1 \in DOMAIN old /\ all[i] = old[i + 1]
      BY <1>11
    <3> QED
      BY <1>9, <3>1
  <2>2. \A i, j \in DOMAIN all : i < j => MonthOf[all[i].day] < MonthOf[all[j].day]
    <3> SUFFICES ASSUME NEW i \in DOMAIN all, NEW j \in DOMAIN all, i < j
                 PROVE  MonthOf[all[i].day] < MonthOf[all[j].day]
      OBVIOUS
    <3>1. i + 1 \in DOMAIN old /\ j + 1 \in DOMAIN old /\ i + 1 < j + 1
      BY <1>11, <1>12
    <3>2. MonthOf[old[i + 1].day] < MonthOf[old[j + 1].day]
      BY <1>9, <3>1
    <3> QED
      BY <1>11, <3>2
  <2>3. lots'[Target] = all
    BY <1>6
  <2> HIDE DEF all
  <2>4. OncePerMonth'
    BY <1>1, <2>2, <2>3 DEF OncePerMonth
  <2>5. MonthInv'
    BY <1>1, <2>1, <2>3 DEF PortfolioInv, MonthInv
  <2> QED
    BY <2>4, <2>5
<1> QED
  BY <1>7, <1>8, <1>13 DEF PortfolioInv

-----------------------------------------------------------------------------
(* golden_cross.                                                           *)

\* What the stream and the account are after a step, whatever it was.
LEMMA TypesTogether ==
    ASSUME baseline' \in Baselines, bar' \in Bars(Symbols), session' = bar'.day,
           pc' \in {"feed", "on_time", "sell", "buy", "on_bar", "liquidate", "done"},
           latest' \in [Symbols -> {0} \cup Closes],
           closes' \in [Symbols -> Seq(Closes)],
           seen' \in [Symbols -> 0..session'],
           holdings' \subseteq Symbols,
           AccountTyped', DcaTypeOK', RebalanceTypeOK', RsiTypeOK'
    PROVE  AccountInv'
<1>1. session' \in 0..MaxDay
  BY AccountAssumption DEF Bars, Days
<1>2. cash' \in Int /\ profit' \in Int /\ NoDebt'
  BY DEF AccountTyped, NoDebt
<1> QED
  BY <1>1, <1>2 DEF AccountInv, TypeOK, AccountTyped

\* A bar of a backtest that neither rebalances nor is dca.
LEMMA BarOnlyTypes ==
    ASSUME PortfolioInv, NEW syms \in SUBSET Symbols, NEW next \in Bars(syms), Arrives(next),
           Closed, NEW maxlen \in Nat \ {0}, Buffered(maxlen)
    PROVE  /\ StreamTyped /\ bar' = next /\ pc = "feed"
           /\ latest' \in [Symbols -> {0} \cup Closes]
           /\ closes' \in [Symbols -> Seq(Closes)]
           /\ seen' \in [Symbols -> 0..session']
           /\ bar'.sym \in Symbols /\ bar'.close * 100 \in Nat \ {0}
<1>1. StreamTyped /\ bar' = next /\ pc = "feed"
  BY ArrivesKeeps DEF PortfolioInv, AccountInv
<1>2. bar'.sym \in Symbols /\ bar'.close \in Closes /\ bar'.close \in Nat \ {0}
  BY <1>1, AccountAssumption DEF StreamTyped, Bars
<1>3. latest' \in [Symbols -> {0} \cup Closes]
  BY <1>2 DEF Closed, PortfolioInv, AccountInv, TypeOK
<1>4. session \in Nat /\ session' \in Nat
  BY <1>1, AccountAssumption DEF StreamTyped, PortfolioInv, AccountInv, TypeOK, Days
<1>5. closes' \in [Symbols -> Seq(Closes)] /\ seen' \in [Symbols -> 0..session']
  BY <1>1, <1>4, BufferedKeeps DEF StreamTyped, PortfolioInv, AccountInv, TypeOK
<1> QED
  BY <1>1, <1>2, <1>3, <1>5, PriceOfClose

\* A bar: the one symbol is bought when it is neither held nor believed in,
\* and sold when it is believed in.
LEMMA GoldenBarKeeps ==
    ASSUME PortfolioInv, baseline = "golden_cross", GoldenBar,
           UNCHANGED <<dcaVars, rebalanceVars, rsiVars>>
    PROVE  PortfolioInv'
<1>1. PICK next \in Bars({SmaSymbol}) : Arrives(next)
  BY DEF GoldenBar
<1>2. /\ StreamTyped /\ bar' = next /\ pc = "feed"
      /\ latest' \in [Symbols -> {0} \cup Closes]
      /\ closes' \in [Symbols -> Seq(Closes)]
      /\ seen' \in [Symbols -> 0..session']
      /\ bar'.sym \in Symbols /\ bar'.close * 100 \in Nat \ {0}
  BY <1>1, BarOnlyTypes, GoldenCrossAssumption DEF GoldenBar
<1>3. /\ UNCHANGED <<pc, month, counter, entered, exits, entries, period, snapshot, stops, lastExit>>
      /\ GoldenOnBar
  BY DEF GoldenBar, dcaVars, rebalanceVars, rsiVars
<1>4. AccountTyped /\ SmaSymbol \in Symbols /\ bar'.day \in Days /\ cash \in Nat
  BY <1>2, GoldenCrossAssumption
     DEF AccountTyped, PortfolioInv, AccountInv, TypeOK, NoDebt, StreamTyped, Bars
<1>5. /\ exits = {} /\ entries = {} /\ Held \subseteq holdings /\ holdings \subseteq {SmaSymbol}
      /\ baseline' = "golden_cross"
  BY <1>2 DEF PortfolioInv, PlaceInv, BeliefInv, StreamTyped
<1>6. Allocated(cash, 1, bar'.close * 100) \in Nat
  <2> DEFINE price == bar'.close * 100
  <2>1. price \in Nat \ {0} /\ 1 \in Nat \ {0}
    BY <1>2
  <2> HIDE DEF price
  <2>2. Allocated(cash, 1, price) \in Nat
    BY <1>4, <2>1, AllocatedQty
  <2> QED
    BY <2>2 DEF price
<1>7. CrossesUp /\ lots[SmaSymbol] = <<>> => Bought(SmaSymbol)
  BY <1>2, <1>4, <1>6, BuysKeeps DEF GoldenBar, GoldenBuy
<1>8. CrossesUp /\ lots[SmaSymbol] # <<>> => UNCHANGED accountVars
  BY DEF GoldenBar, GoldenBuy
<1>9. ~CrossesUp /\ CrossesDown => Sold(SmaSymbol)
  BY <1>2, <1>4, SellsKeeps DEF GoldenBar, GoldenExit
<1>10. ~CrossesUp /\ ~CrossesDown => UNCHANGED accountVars
  BY DEF GoldenBar
<1>11. AccountTyped'
  BY <1>4, <1>7, <1>8, <1>9, <1>10 DEF AccountTyped, Bought, Sold, accountVars
<1>12. holdings' \subseteq {SmaSymbol}
  BY <1>3, <1>5 DEF GoldenOnBar
<1>13. /\ Held' \subseteq holdings'
       /\ \A s \in Symbols : Len(lots'[s]) <= 1
  <2>1. \A s \in Symbols : Len(lots[s]) <= 1
    BY <1>5 DEF PortfolioInv, CapKept
  <2>2. CASE CrossesUp /\ lots[SmaSymbol] = <<>>
    <3>1. Bought(SmaSymbol) /\ holdings' = {SmaSymbol}
      BY <1>3, <1>7, <2>2 DEF GoldenOnBar
    <3> QED
      BY <1>4, <1>5, <2>1, <2>2, <3>1, HeldAfterPurchase
  <2>3. CASE CrossesUp /\ lots[SmaSymbol] # <<>>
    BY <1>3, <1>5, <1>8, <2>1, <2>3 DEF GoldenOnBar, Held, accountVars
  <2>4. CASE ~CrossesUp /\ CrossesDown
    <3>1. Held' = Held \ {SmaSymbol} /\ lots'[SmaSymbol] = <<>>
      BY <1>4, <1>9, <2>1, <2>4, HeldAfterSale
    <3>2. \A s \in Symbols : s # SmaSymbol => lots'[s] = lots[s]
      BY <1>9, <2>4 DEF Sold
    <3> QED
      BY <1>5, <2>1, <3>1, <3>2
  <2>5. CASE ~CrossesUp /\ ~CrossesDown
    BY <1>3, <1>5, <1>10, <2>1, <2>5 DEF GoldenOnBar, Held, accountVars
  <2> QED
    BY <2>2, <2>3, <2>4, <2>5
<1>14. AccountInv'
  <2>1. DcaTypeOK' /\ RebalanceTypeOK'
    BY <1>3 DEF PortfolioInv, AccountInv, TypeOK, DcaTypeOK, RebalanceTypeOK
  <2>2. RsiTypeOK'
    BY <1>3, <1>5 DEF PortfolioInv, AccountInv, TypeOK, RsiTypeOK
  <2>3. baseline' \in Baselines /\ pc' = "feed"
    BY <1>2, <1>3 DEF PortfolioInv, AccountInv, TypeOK, StreamTyped
  <2>4. holdings' \subseteq Symbols
    BY <1>4, <1>12
  <2> QED
    BY <1>2, <1>11, <2>1, <2>2, <2>3, <2>4, TypesTogether DEF StreamTyped
<1>15. PlaceInv' /\ NoLookAhead'
  BY <1>2, <1>3, <1>5 DEF PortfolioInv, PlaceInv, NoLookAhead, Rebalances
<1>16. Cardinality(holdings') <= 1 /\ Cardinality(Held') <= 1
  <2>1. Cardinality({SmaSymbol}) = 1 /\ {SmaSymbol} \subseteq Symbols
    BY <1>4, FS_Singleton
  <2>2. holdings' \in SUBSET {SmaSymbol} /\ Held' \in SUBSET {SmaSymbol}
    BY <1>12, <1>13
  <2>3. Cardinality({SmaSymbol}) <= 1
    BY <2>1
  <2> QED
    BY <2>1, <2>2, <2>3, SmallerStill
<1>17. Places' = 1
  BY <1>5 DEF Places
<1>18. BeliefInv' /\ CapKept'
  BY <1>3, <1>5, <1>12, <1>13, <1>16, <1>17 DEF BeliefInv, CapKept
<1>19. MonthInv' /\ OncePerMonth'
  BY <1>5 DEF MonthInv, OncePerMonth
<1> QED
  BY <1>14, <1>15, <1>18, <1>19 DEF PortfolioInv

-----------------------------------------------------------------------------
(* rsi_mr.                                                                 *)

\* What each of its steps does with the stream, and what it leaves alone.
LEMMA RsiArrivesKeeps ==
    ASSUME PortfolioInv, baseline = "rsi_mr", RsiArrives, UNCHANGED <<dcaVars, rebalanceVars>>
    PROVE  /\ baseline' = "rsi_mr" /\ pc = "feed" /\ pc' = "feed"
           /\ bar' \in Bars(Symbols) /\ session' = bar'.day
           /\ latest' \in [Symbols -> {0} \cup Closes]
           /\ closes' \in [Symbols -> Seq(Closes)]
           /\ seen' \in [Symbols -> 0..session']
           /\ bar'.sym \in Symbols /\ bar'.close \in Nat \ {0} /\ bar'.day \in Days
           /\ bar'.close * 100 \in Nat \ {0}
           /\ exits = {} /\ exits' = {} /\ entries' = {}
           /\ Held \subseteq holdings /\ Cardinality(holdings) <= MaxPositions
           /\ DcaTypeOK' /\ RebalanceTypeOK' /\ RsiTypeOK /\ AccountTyped
           /\ Places' = MaxPositions /\ holdings \subseteq Symbols
           /\ \A s \in Symbols : Len(lots[s]) <= 1
<1>1. PICK next \in Bars(Symbols) : Arrives(next)
  BY DEF RsiArrives
<1>2. RsiPeriod + 1 \in Nat \ {0}
  BY RsiAssumption
<1>3. /\ StreamTyped /\ bar' = next /\ pc = "feed"
      /\ latest' \in [Symbols -> {0} \cup Closes]
      /\ closes' \in [Symbols -> Seq(Closes)]
      /\ seen' \in [Symbols -> 0..session']
      /\ bar'.sym \in Symbols /\ bar'.close * 100 \in Nat \ {0}
  BY <1>1, <1>2, BarOnlyTypes DEF RsiArrives
<1>4. /\ pc' = "feed"
      /\ UNCHANGED <<month, counter, entered, exits, entries, period, snapshot>>
  BY <1>3 DEF RsiArrives, dcaVars, rebalanceVars
<1>5. bar'.close \in Nat \ {0} /\ bar'.day \in Days
  BY <1>3, AccountAssumption DEF StreamTyped, Bars
<1>6. /\ exits = {} /\ entries = {} /\ Held \subseteq holdings
      /\ Cardinality(holdings) <= MaxPositions /\ \A s \in Symbols : Len(lots[s]) <= 1
  BY <1>3 DEF PortfolioInv, PlaceInv, BeliefInv, CapKept, Places
<1>7. DcaTypeOK' /\ RebalanceTypeOK' /\ RsiTypeOK /\ AccountTyped /\ holdings \subseteq Symbols
  BY <1>4 DEF PortfolioInv, AccountInv, TypeOK, NoDebt, AccountTyped, DcaTypeOK,
              RebalanceTypeOK
<1>8. baseline' = "rsi_mr"
  BY <1>3 DEF StreamTyped
<1>9. Places' = MaxPositions
  BY <1>8 DEF Places
<1>10. bar' \in Bars(Symbols) /\ session' = bar'.day
  BY <1>3 DEF StreamTyped
<1> QED
  BY <1>3, <1>4, <1>5, <1>6, <1>7, <1>8, <1>9, <1>10

\* A step keeps everything when it keeps lots, belief and stops together.
LEMMA RsiTogether ==
    ASSUME PortfolioInv, baseline = "rsi_mr", RsiArrives, UNCHANGED <<dcaVars, rebalanceVars>>,
           AccountTyped', RsiTypeOK', holdings' \subseteq Symbols,
           Held' \subseteq holdings', Cardinality(holdings') <= MaxPositions,
           \A s \in Symbols : Len(lots'[s]) <= 1
    PROVE  PortfolioInv'
<1>1. /\ baseline' = "rsi_mr" /\ pc' = "feed"
      /\ exits' = {} /\ entries' = {} /\ Places' = MaxPositions
  BY RsiArrivesKeeps
<1>2. AccountInv'
  <2>1. baseline' \in Baselines
    BY <1>1 DEF PortfolioInv, AccountInv, TypeOK
  <2> QED
    BY <1>1, <2>1, RsiArrivesKeeps, TypesTogether
<1>3. PlaceInv' /\ NoLookAhead'
  <2>1. snapshot' = snapshot
    BY DEF rebalanceVars
  <2> QED
    BY <1>1, <2>1 DEF PortfolioInv, PlaceInv, NoLookAhead, Rebalances
<1>4. Cardinality(Held') <= MaxPositions
  BY SmallerStill, RsiAssumption
<1>5. BeliefInv' /\ CapKept'
  BY <1>1, <1>4 DEF BeliefInv, CapKept
<1>6. MonthInv' /\ OncePerMonth'
  BY <1>1 DEF MonthInv, OncePerMonth
<1> QED
  BY <1>2, <1>3, <1>5, <1>6 DEF PortfolioInv

\* A symbol is left: its one lot is sold and its place is free.
LEMMA RsiLeaves ==
    ASSUME PortfolioInv, baseline = "rsi_mr", RsiArrives, UNCHANGED <<dcaVars, rebalanceVars>>,
           Leaves, NEW price \in Nat, Sells(bar'.sym, price)
    PROVE  PortfolioInv'
<1> DEFINE sym == bar'.sym
<1>1. /\ sym \in Symbols /\ AccountTyped /\ RsiTypeOK /\ holdings \subseteq Symbols
      /\ Held \subseteq holdings /\ Cardinality(holdings) <= MaxPositions
      /\ \A s \in Symbols : Len(lots[s]) <= 1
      /\ baseline' = "rsi_mr" /\ bar'.day \in Days
  BY RsiArrivesKeeps
<1>2. /\ holdings' = holdings \ {sym}
      /\ stops' = [stops EXCEPT ![sym] = 0]
      /\ lastExit' = [lastExit EXCEPT ![sym] = bar'.day]
  BY DEF Leaves
<1>3. Sells(sym, price)
  OBVIOUS
<1> HIDE DEF sym
<1>4. Sold(sym)
  BY <1>1, <1>3, SellsKeeps
<1>5. Held' = Held \ {sym} /\ lots'[sym] = <<>>
  BY <1>1, <1>4, HeldAfterSale
<1>6. \A s \in Symbols : Len(lots'[s]) <= 1
  BY <1>1, <1>4, <1>5 DEF Sold
<1>7. RsiTypeOK'
  <2>1. Days \subseteq 0..MaxDay
    BY AccountAssumption DEF Days
  <2>2. stops' \in [Symbols -> Nat] /\ lastExit' \in [Symbols -> 0..MaxDay]
    BY <1>1, <1>2, <2>1 DEF RsiTypeOK
  <2>3. \A s \in Symbols : s \in holdings' <=> stops'[s] > 0
    BY <1>1, <1>2 DEF RsiTypeOK, PortfolioInv
  <2> QED
    BY <2>2, <2>3 DEF RsiTypeOK
<1>8. holdings' \subseteq Symbols /\ Cardinality(holdings') <= MaxPositions
  BY <1>1, <1>2, SmallerStill, RsiAssumption
<1>9. AccountTyped'
  BY <1>4 DEF AccountTyped, Sold
<1> QED
  BY <1>1, <1>2, <1>5, <1>6, <1>7, <1>8, <1>9, RsiTogether

LEMMA StopLossKeeps ==
    ASSUME PortfolioInv, baseline = "rsi_mr", StopLoss, UNCHANGED <<dcaVars, rebalanceVars>>
    PROVE  PortfolioInv'
<1>1. RsiArrives /\ Leaves /\ Sells(bar'.sym, stops[bar'.sym])
  BY DEF StopLoss
<1>2. stops[bar'.sym] \in Nat
  BY <1>1, RsiArrivesKeeps DEF RsiTypeOK
<1> QED
  BY <1>1, <1>2, RsiLeaves

LEMMA TakeProfitKeeps ==
    ASSUME PortfolioInv, baseline = "rsi_mr", TakeProfit, UNCHANGED <<dcaVars, rebalanceVars>>
    PROVE  PortfolioInv'
<1> DEFINE price == bar'.close * 100
<1>1. RsiArrives /\ Leaves /\ Sells(bar'.sym, price)
  BY DEF TakeProfit
<1>2. price \in Nat
  BY <1>1, RsiArrivesKeeps
<1> HIDE DEF price
<1> QED
  BY <1>1, <1>2, RsiLeaves

\* A symbol is entered: it was neither believed in nor held, and there was a
\* place for it.
LEMMA EnterKeeps ==
    ASSUME PortfolioInv, baseline = "rsi_mr", Enter, UNCHANGED <<dcaVars, rebalanceVars>>
    PROVE  PortfolioInv'
<1> DEFINE sym == bar'.sym
           price == bar'.close * 100
           slots == MaxPositions - Cardinality(Held)
<1>1. /\ RsiArrives /\ Enters
      /\ holdings' = holdings \cup {sym}
      /\ stops' = [stops EXCEPT ![sym] = bar'.close * (100 - StopLossPct)]
      /\ RsiBuys(sym, price)
      /\ lastExit' = lastExit
  BY DEF Enter
<1>2. /\ sym \in Symbols /\ AccountTyped /\ RsiTypeOK /\ holdings \subseteq Symbols
      /\ Held \subseteq holdings
      /\ \A s \in Symbols : Len(lots[s]) <= 1
      /\ baseline' = "rsi_mr" /\ bar'.day \in Days
      /\ bar'.close \in Nat \ {0} /\ price \in Nat \ {0}
  BY <1>1, RsiArrivesKeeps
<1>3. sym \notin holdings /\ Cardinality(holdings) < MaxPositions
  BY <1>1 DEF Enters
<1>4. lots[sym] = <<>>
  BY <1>2, <1>3 DEF Held
<1>5. IsFiniteSet(holdings) /\ Cardinality(Held) \in Nat /\ Cardinality(holdings) \in Nat
  BY <1>2, AccountAssumption, FS_Subset, FS_CardinalityType
<1>6. slots \in Int /\ MaxPositions \in Nat
  BY <1>5, RsiAssumption
<1>7. slots <= 0 => UNCHANGED accountVars
  BY <1>1 DEF RsiBuys
<1>8. slots > 0 => Buys(sym, price, Allocated(cash, slots, price))
  <2> HIDE DEF sym, price
  <2> SUFFICES ASSUME slots > 0 PROVE Buys(sym, price, Allocated(cash, slots, price))
    OBVIOUS
  <2>1. ~(slots <= 0)
    BY <1>6
  <2> QED
    BY <1>1, <1>4, <2>1 DEF RsiBuys
<1>9. bar'.close * (100 - StopLossPct) \in Nat /\ bar'.close * (100 - StopLossPct) > 0
  <2>1. 100 - StopLossPct \in Nat \ {0}
    BY RsiAssumption
  <2>2. \A n, m \in Nat \ {0} : n * m \in Nat /\ n * m > 0
    OBVIOUS
  <2> QED
    BY <1>2, <2>1, <2>2
<1> HIDE DEF sym, price, slots
<1>10. slots > 0 => Bought(sym)
  <2> SUFFICES ASSUME slots > 0 PROVE Bought(sym)
    OBVIOUS
  <2>1. cash \in Nat /\ slots \in Nat \ {0}
    BY <1>2, <1>6 DEF AccountTyped
  <2>2. Allocated(cash, slots, price) \in Nat
    BY <1>2, <2>1, AllocatedQty
  <2> QED
    BY <1>2, <1>8, <2>2, BuysKeeps
<1>11. /\ AccountTyped' /\ Held' \subseteq holdings'
       /\ \A s \in Symbols : Len(lots'[s]) <= 1
  <2>1. CASE slots > 0
    <3>1. Bought(sym)
      BY <1>10, <2>1
    <3>2. Held' \subseteq Held \cup {sym} /\ Len(lots'[sym]) <= 1
          /\ \A t \in Symbols : t # sym => lots'[t] = lots[t]
      BY <1>2, <1>4, <3>1, HeldAfterPurchase
    <3>3. AccountTyped'
      BY <3>1 DEF Bought, AccountTyped
    <3> QED
      BY <1>1, <1>2, <3>2, <3>3
  <2>2. CASE ~(slots > 0)
    <3>1. UNCHANGED accountVars
      BY <1>6, <1>7, <2>2
    <3> QED
      BY <1>1, <1>2, <3>1 DEF accountVars, AccountTyped, Held
  <2> QED
    BY <2>1, <2>2
<1>12. Cardinality(holdings') <= MaxPositions /\ holdings' \subseteq Symbols
  <2>1. Cardinality(holdings') = Cardinality(holdings) + 1
    BY <1>1, <1>3, <1>5, FS_AddElement
  <2> QED
    BY <1>1, <1>2, <1>3, <1>5, <1>6, <2>1
<1>13. RsiTypeOK'
  <2> DEFINE stop == bar'.close * (100 - StopLossPct)
  <2>1. stop \in Nat /\ stop > 0 /\ stops' = [stops EXCEPT ![sym] = stop]
    BY <1>1, <1>9
  <2> HIDE DEF stop
  <2>2. stops' \in [Symbols -> Nat] /\ lastExit' \in [Symbols -> 0..MaxDay]
    BY <1>1, <1>2, <2>1 DEF RsiTypeOK
  <2>3. \A s \in Symbols : s \in holdings' <=> stops'[s] > 0
    BY <1>1, <1>2, <2>1 DEF RsiTypeOK
  <2> QED
    BY <2>2, <2>3 DEF RsiTypeOK
<1> QED
  BY <1>1, <1>11, <1>12, <1>13, RsiTogether

LEMMA PassKeeps ==
    ASSUME PortfolioInv, baseline = "rsi_mr", Pass, UNCHANGED <<dcaVars, rebalanceVars>>
    PROVE  PortfolioInv'
<1>1. RsiArrives /\ UNCHANGED <<cash, lots, profit, holdings, stops, lastExit>>
  BY DEF Pass, accountVars, rsiVars
<1>2. /\ AccountTyped /\ RsiTypeOK /\ holdings \subseteq Symbols
      /\ Held \subseteq holdings /\ Cardinality(holdings) <= MaxPositions
      /\ \A s \in Symbols : Len(lots[s]) <= 1
      /\ baseline' = "rsi_mr"
  BY <1>1, RsiArrivesKeeps
<1>3. AccountTyped' /\ RsiTypeOK' /\ Held' = Held
  BY <1>1, <1>2 DEF AccountTyped, RsiTypeOK, Held
<1>4. /\ holdings' \subseteq Symbols /\ Held' \subseteq holdings'
      /\ Cardinality(holdings') <= MaxPositions
      /\ \A s \in Symbols : Len(lots'[s]) <= 1
  BY <1>1, <1>2, <1>3
<1> QED
  BY <1>1, <1>3, <1>4, RsiTogether

-----------------------------------------------------------------------------
(* momentum and low_volatility.                                            *)

\* What is common to all that happens with one bar in hand: the account and
\* the belief may change, the stream and the buffers do not.
LEMMA InHandTogether ==
    ASSUME PortfolioInv, pc \in {"on_time", "sell", "buy"},
           pc' \in {"on_time", "sell", "buy", "on_bar"},
           UNCHANGED <<streamVars, bufferVars, dcaVars, rsiVars>>,
           AccountTyped', RebalanceTypeOK', holdings' \subseteq Symbols,
           Held' \subseteq holdings' \cup exits',
           Cardinality(holdings') <= TopN, Cardinality(Held') <= TopN,
           \A s \in Symbols : Len(lots'[s]) <= 1,
           pc' # "sell" => exits' = {},
           pc' \notin {"sell", "buy"} => entries' = {},
           entries' \subseteq holdings', snapshot' >= 0,
           \A s \in exits' \cup holdings' : closes[s] # <<>>
    PROVE  PortfolioInv'
<1>1. /\ UNCHANGED <<baseline, bar, session, latest, closes, seen>>
      /\ UNCHANGED <<month, counter, entered, stops, lastExit>>
  BY DEF streamVars, bufferVars, dcaVars, rsiVars
<1>2. Rebalances /\ bar \in Bars(Symbols) /\ baseline \in {"momentum", "low_vol"}
  BY DEF PortfolioInv, PlaceInv, Rebalances
<1>3. AccountInv'
  <2>1. DcaTypeOK' /\ RsiTypeOK'
    BY <1>1, <1>2 DEF PortfolioInv, AccountInv, TypeOK, DcaTypeOK, RsiTypeOK
  <2>2. baseline' \in Baselines /\ session' = bar'.day /\ latest' \in [Symbols -> {0} \cup Closes]
        /\ closes' \in [Symbols -> Seq(Closes)] /\ seen' \in [Symbols -> 0..session']
    BY <1>1 DEF PortfolioInv, AccountInv, TypeOK
  <2>3. bar' \in Bars(Symbols)
    BY <1>1, <1>2
  <2> QED
    BY <2>1, <2>2, <2>3, TypesTogether
<1>4. PlaceInv'
  <2>1. Rebalances' /\ bar' \in Bars(Symbols)
    BY <1>1, <1>2 DEF Rebalances
  <2> QED
    BY <1>1, <2>1 DEF PlaceInv
<1>5. BeliefInv' /\ CapKept'
  <2>1. Places' = TopN /\ baseline' # "golden_cross"
    BY <1>1, <1>2 DEF Places
  <2> QED
    BY <2>1 DEF BeliefInv, CapKept
<1>6. NoLookAhead'
  BY <1>1 DEF PortfolioInv, NoLookAhead
<1>7. MonthInv' /\ OncePerMonth'
  BY <1>1, <1>2 DEF MonthInv, OncePerMonth
<1> QED
  BY <1>3, <1>4, <1>5, <1>6, <1>7 DEF PortfolioInv

\* What a step of a rebalancing starts from.
LEMMA InHand ==
    ASSUME PortfolioInv, pc \in {"on_time", "sell", "buy"}
    PROVE  /\ bar \in Bars(Symbols) /\ bar.day \in Days /\ Places = TopN
           /\ baseline # "dca" /\ baseline # "golden_cross"
           /\ AccountTyped /\ RebalanceTypeOK /\ holdings \subseteq Symbols
           /\ Held \subseteq holdings \cup exits
           /\ Cardinality(holdings) <= TopN /\ Cardinality(Held) <= TopN
           /\ \A s \in Symbols : Len(lots[s]) <= 1
           /\ pc # "sell" => exits = {}
           /\ pc \notin {"sell", "buy"} => entries = {}
           /\ entries \subseteq holdings
           /\ snapshot \in Nat
           /\ \A s \in exits \cup holdings : closes[s] # <<>>
<1>1. bar \in Bars(Symbols) /\ baseline \in {"momentum", "low_vol"} /\ Rebalances
  BY DEF PortfolioInv, PlaceInv, Rebalances
<1>2. bar.day \in Days /\ Places = TopN
  BY <1>1 DEF Bars, Places
<1>3. AccountTyped /\ RebalanceTypeOK /\ holdings \subseteq Symbols
  BY DEF PortfolioInv, AccountInv, TypeOK, NoDebt, AccountTyped
<1>4. /\ Held \subseteq holdings \cup exits
      /\ Cardinality(holdings) <= TopN /\ Cardinality(Held) <= TopN
      /\ \A s \in Symbols : Len(lots[s]) <= 1
  BY <1>1, <1>2 DEF PortfolioInv, BeliefInv, CapKept
<1>5. /\ pc # "sell" => exits = {}
      /\ pc \notin {"sell", "buy"} => entries = {}
      /\ entries \subseteq holdings
      /\ \A s \in exits \cup holdings : closes[s] # <<>>
  BY <1>1 DEF PortfolioInv, PlaceInv
<1>6. snapshot \in Nat
  BY <1>3 DEF PortfolioInv, PlaceInv, RebalanceTypeOK
<1> QED
  BY <1>1, <1>2, <1>3, <1>4, <1>5, <1>6

\* The last close of a symbol that has one is a price.
LEMMA LastCloseIsPrice ==
    ASSUME PortfolioInv, NEW s \in Symbols, closes[s] # <<>>
    PROVE  LastClose(s) * 100 \in Nat \ {0}
<1>1. closes[s] \in Seq(Closes)
  BY DEF PortfolioInv, AccountInv, TypeOK
<1>2. Len(closes[s]) \in Nat \ {0} /\ DOMAIN closes[s] = 1..Len(closes[s])
  BY <1>1, EmptySeq, LenProperties
<1>3. closes[s][Len(closes[s])] \in Closes
  BY <1>1, <1>2, LenProperties
<1>4. LastClose(s) \in Closes /\ LastClose(s) # 0
  BY <1>3, AccountAssumption DEF LastClose
<1> QED
  BY <1>4, PriceOfClose

\* The best of the candidates are believed in from now on: what is not among
\* them is to be sold, and each of them has a close to be traded at.
LEMMA OnTimeKeeps ==
    ASSUME PortfolioInv, OnTime, UNCHANGED <<dcaVars, rsiVars>>
    PROVE  PortfolioInv'
<1>1. pc = "on_time" /\ pc' = "sell" /\ UNCHANGED <<streamVars, accountVars, bufferVars, snapshot>>
      /\ period' = PeriodOf(bar.day)
  BY DEF OnTime
<1>2. PICK top \in SUBSET Candidates : Cardinality(top) = TopN /\ Rebalance(top)
  BY DEF OnTime
<1>3. /\ exits' = holdings \ top /\ entries' = top \ holdings /\ holdings' = top
  BY <1>2 DEF Rebalance
<1>4. /\ bar.day \in Days /\ AccountTyped /\ RebalanceTypeOK /\ holdings \subseteq Symbols
      /\ Held \subseteq holdings \cup exits /\ exits = {}
      /\ Cardinality(Held) <= TopN
      /\ \A s \in Symbols : Len(lots[s]) <= 1
      /\ snapshot \in Nat
      /\ \A s \in exits \cup holdings : closes[s] # <<>>
  BY <1>1, InHand
<1>5. \A s \in top : s \in Symbols /\ closes[s] # <<>>
  <2> SUFFICES ASSUME NEW s \in top PROVE s \in Symbols /\ closes[s] # <<>>
    OBVIOUS
  <2>1. s \in Symbols /\ Len(closes[s]) >= Lookback
    BY <1>2 DEF Candidates
  <2>2. Len(<<>>) = 0 /\ Lookback > 0
    BY RebalancingAssumption
  <2> QED
    BY <2>1, <2>2, RebalancingAssumption
<1>6. RebalanceTypeOK'
  <2>1. MonthOf[bar.day] \in Nat \ {0}
    BY <1>4, AccountAssumption
  <2>2. PeriodOf(bar.day) \in Nat
    <3>1. MonthInterval \in Nat \ {0}
      BY RebalancingAssumption
    <3>2. (MonthOf[bar.day] - 1) \div MonthInterval \in Nat
      BY <2>1, <3>1, DivNat
    <3> QED
      BY <2>1, <3>2 DEF PeriodOf
  <2> QED
    BY <1>1, <1>3, <1>4, <1>5, <2>2 DEF RebalanceTypeOK
<1>7. UNCHANGED <<cash, lots, profit, snapshot>> /\ AccountTyped' /\ Held' = Held
  BY <1>1, <1>4 DEF accountVars, AccountTyped, Held
<1>8. /\ holdings' \subseteq Symbols /\ Held' \subseteq holdings' \cup exits'
      /\ entries' \subseteq holdings'
      /\ \A s \in exits' \cup holdings' : closes[s] # <<>>
  BY <1>3, <1>4, <1>5, <1>7
<1>9. Cardinality(holdings') <= TopN /\ Cardinality(Held') <= TopN /\ snapshot' >= 0
      /\ \A s \in Symbols : Len(lots'[s]) <= 1
  BY <1>2, <1>3, <1>4, <1>7, RebalancingAssumption
<1> QED
  BY <1>1, <1>6, <1>7, <1>8, <1>9, InHandTogether

\* The phases go on: nothing is due, the sales are done, the purchases are.
LEMMA PhaseKeeps ==
    ASSUME PortfolioInv, NotDue \/ ExitsDone \/ EntriesDone, UNCHANGED <<dcaVars, rsiVars>>
    PROVE  PortfolioInv'
<1>1. /\ UNCHANGED <<streamVars, accountVars, bufferVars, holdings, period, exits, entries>>
      /\ pc \in {"on_time", "sell", "buy"} /\ pc' \in {"buy", "on_bar"}
      /\ snapshot' \in {snapshot, cash}
      /\ pc = "sell" => exits = {} /\ pc' = "buy"
      /\ pc = "buy" => entries = {}
  BY DEF NotDue, ExitsDone, EntriesDone, rebalanceVars
<1>2. /\ AccountTyped /\ RebalanceTypeOK /\ holdings \subseteq Symbols
      /\ Held \subseteq holdings \cup exits
      /\ Cardinality(holdings) <= TopN /\ Cardinality(Held) <= TopN
      /\ \A s \in Symbols : Len(lots[s]) <= 1
      /\ exits = {} /\ (pc \notin {"sell", "buy"} => entries = {})
      /\ entries \subseteq holdings /\ snapshot \in Nat
      /\ \A s \in exits \cup holdings : closes[s] # <<>>
  BY <1>1, InHand
<1>3. AccountTyped' /\ Held' = Held /\ lots' = lots
  BY <1>1, <1>2 DEF accountVars, AccountTyped, Held
<1>4. snapshot' \in Nat
  BY <1>1, <1>2 DEF AccountTyped
<1>5. RebalanceTypeOK'
  BY <1>1, <1>2, <1>4 DEF RebalanceTypeOK
<1>6. /\ exits' = {} /\ entries' \subseteq holdings' /\ snapshot' >= 0
      /\ pc' \notin {"sell", "buy"} => entries' = {}
  BY <1>1, <1>2, <1>4
<1>7. /\ holdings' \subseteq Symbols /\ Held' \subseteq holdings' \cup exits'
      /\ Cardinality(holdings') <= TopN /\ Cardinality(Held') <= TopN
      /\ \A s \in Symbols : Len(lots'[s]) <= 1
      /\ \A s \in exits' \cup holdings' : closes[s] # <<>>
  BY <1>1, <1>2, <1>3
<1>8. pc' \in {"on_time", "sell", "buy", "on_bar"} /\ UNCHANGED <<streamVars, bufferVars, dcaVars, rsiVars>>
  BY <1>1
<1> QED
  BY <1>1, <1>3, <1>5, <1>6, <1>7, <1>8, InHandTogether

\* A symbol that is not among the best any more loses its lot.
LEMMA ExecuteExitKeeps ==
    ASSUME PortfolioInv, ExecuteExit, UNCHANGED <<dcaVars, rsiVars>>
    PROVE  PortfolioInv'
<1>1. pc = "sell" /\ UNCHANGED <<streamVars, pc, bufferVars, holdings, period, entries, snapshot>>
  BY DEF ExecuteExit
<1>2. PICK s \in exits : exits' = exits \ {s} /\ Sells(s, LastClose(s) * 100)
  BY DEF ExecuteExit
<1>3. /\ AccountTyped /\ RebalanceTypeOK /\ holdings \subseteq Symbols
      /\ Held \subseteq holdings \cup exits
      /\ Cardinality(holdings) <= TopN /\ Cardinality(Held) <= TopN
      /\ \A t \in Symbols : Len(lots[t]) <= 1
      /\ entries \subseteq holdings /\ snapshot \in Nat
      /\ \A t \in exits \cup holdings : closes[t] # <<>>
  BY <1>1, InHand
<1>4. s \in Symbols /\ exits \subseteq Symbols
  BY <1>2, <1>3 DEF RebalanceTypeOK
<1>5. LastClose(s) * 100 \in Nat
  BY <1>2, <1>3, <1>4, LastCloseIsPrice
<1>6. Sold(s)
  BY <1>2, <1>3, <1>4, <1>5, SellsKeeps
<1>7. Held' = Held \ {s} /\ lots'[s] = <<>>
  BY <1>3, <1>4, <1>6, HeldAfterSale
<1>8. \A t \in Symbols : Len(lots'[t]) <= 1
  BY <1>3, <1>6, <1>7 DEF Sold
<1>9. Cardinality(Held') <= TopN
  BY <1>3, <1>7, SmallerStill, RebalancingAssumption DEF Held
<1>10. AccountTyped'
  BY <1>6 DEF Sold, AccountTyped
<1>11. RebalanceTypeOK'
  BY <1>1, <1>2, <1>3 DEF RebalanceTypeOK
<1>12. /\ holdings' \subseteq Symbols /\ Held' \subseteq holdings' \cup exits'
       /\ Cardinality(holdings') <= TopN /\ entries' \subseteq holdings' /\ snapshot' >= 0
       /\ \A t \in exits' \cup holdings' : closes[t] # <<>>
  BY <1>1, <1>2, <1>3, <1>7
<1> QED
  BY <1>1, <1>8, <1>9, <1>10, <1>11, <1>12, InHandTogether

\* One of the best gets a lot when it has none: it is believed in already, so
\* no more is held than believed.
LEMMA AttemptBuyKeeps ==
    ASSUME PortfolioInv, AttemptBuy, UNCHANGED <<dcaVars, rsiVars>>
    PROVE  PortfolioInv'
<1>1. pc = "buy" /\ UNCHANGED streamVars
      /\ UNCHANGED <<pc, bufferVars, holdings, period, exits, snapshot>>
  BY DEF AttemptBuy
<1>2. PICK s \in entries :
        /\ entries' = entries \ {s}
        /\ IF lots[s] # <<>> THEN UNCHANGED accountVars
           ELSE Buys(s, LastClose(s) * 100, Allocated(snapshot, TopN, LastClose(s) * 100))
  BY DEF AttemptBuy
<1>3. /\ AccountTyped /\ RebalanceTypeOK /\ holdings \subseteq Symbols
      /\ exits = {} /\ Held \subseteq holdings \cup exits
      /\ Cardinality(holdings) <= TopN
      /\ \A t \in Symbols : Len(lots[t]) <= 1
      /\ entries \subseteq holdings /\ snapshot \in Nat
      /\ \A t \in exits \cup holdings : closes[t] # <<>>
      /\ bar.day \in Days
  BY <1>1, InHand
<1>4. s \in Symbols /\ s \in holdings
  BY <1>3
<1>5. LastClose(s) * 100 \in Nat \ {0}
  BY <1>3, <1>4, LastCloseIsPrice
<1>6. lots[s] = <<>> => Bought(s)
  <2> SUFFICES ASSUME lots[s] = <<>> PROVE Bought(s)
    OBVIOUS
  <2> DEFINE price == LastClose(s) * 100
  <2>1. price \in Nat \ {0} /\ Buys(s, price, Allocated(snapshot, TopN, price))
    BY <1>2, <1>5
  <2> HIDE DEF price
  <2>2. Allocated(snapshot, TopN, price) \in Nat
    BY <1>3, <2>1, AllocatedQty, RebalancingAssumption
  <2>3. bar'.day \in Days
    BY <1>1, <1>3 DEF streamVars
  <2> QED
    BY <1>3, <1>4, <2>1, <2>2, <2>3, BuysKeeps
<1>7. /\ AccountTyped' /\ Held' \subseteq holdings
      /\ \A t \in Symbols : Len(lots'[t]) <= 1
  <2>1. CASE lots[s] = <<>>
    <3>1. Held' \subseteq Held \cup {s} /\ Len(lots'[s]) <= 1
          /\ \A t \in Symbols : t # s => lots'[t] = lots[t]
      BY <1>3, <1>4, <1>6, <2>1, HeldAfterPurchase
    <3>2. AccountTyped'
      BY <1>6, <2>1 DEF Bought, AccountTyped
    <3> QED
      BY <1>3, <1>4, <3>1, <3>2
  <2>2. CASE lots[s] # <<>>
    BY <1>2, <1>3, <2>2 DEF accountVars, AccountTyped, Held
  <2> QED
    BY <2>1, <2>2
<1>8. Cardinality(Held') <= TopN
  BY <1>3, <1>7, SmallerStill, RebalancingAssumption
<1>9. RebalanceTypeOK'
  BY <1>1, <1>2, <1>3 DEF RebalanceTypeOK
<1>10. /\ holdings' \subseteq Symbols /\ Held' \subseteq holdings' \cup exits'
       /\ Cardinality(holdings') <= TopN /\ entries' \subseteq holdings' /\ snapshot' >= 0
       /\ exits' = {}
       /\ \A t \in exits' \cup holdings' : closes[t] # <<>>
  BY <1>1, <1>2, <1>3, <1>7
<1> QED
  BY <1>1, <1>7, <1>8, <1>9, <1>10, InHandTogether

\* The first bar of a new session finds all closes of earlier sessions.
LEMMA RebalanceBarKeeps ==
    ASSUME PortfolioInv, Rebalances, RebalanceBar, UNCHANGED <<dcaVars, rsiVars>>
    PROVE  PortfolioInv'
<1>1. PICK next \in Bars(Symbols) : Arrives(next)
  BY DEF RebalanceBar
<1>2. StreamTyped /\ pc = "feed"
  BY <1>1, ArrivesKeeps DEF PortfolioInv, AccountInv
<1>3. /\ pc' = IF session \in {0, session'} THEN "on_bar" ELSE "on_time"
      /\ UNCHANGED <<latest, cash, lots, profit, closes, seen, holdings>>
      /\ UNCHANGED <<period, exits, entries, snapshot, month, counter, entered, stops, lastExit>>
  BY DEF RebalanceBar, accountVars, bufferVars, rebalanceVars, dcaVars, rsiVars
<1>4. baseline' = baseline /\ baseline \in {"momentum", "low_vol"}
  BY <1>2 DEF StreamTyped, Rebalances
<1>5. /\ session \in Nat /\ session' \in Nat /\ session <= session' /\ session' = bar'.day
      /\ bar' \in Bars(Symbols)
  BY <1>2, AccountAssumption DEF StreamTyped, PortfolioInv, AccountInv, TypeOK, Days
<1>6. seen' \in [Symbols -> 0..session']
  BY <1>3, <1>5 DEF PortfolioInv, AccountInv, TypeOK
<1>7. AccountInv'
  <2>1. DcaTypeOK' /\ RebalanceTypeOK' /\ RsiTypeOK'
    BY <1>3, <1>4 DEF PortfolioInv, AccountInv, TypeOK, DcaTypeOK, RebalanceTypeOK, RsiTypeOK
  <2>2. AccountTyped' /\ baseline' \in Baselines /\ latest' \in [Symbols -> {0} \cup Closes]
        /\ closes' \in [Symbols -> Seq(Closes)] /\ holdings' \subseteq Symbols
    BY <1>3, <1>4 DEF PortfolioInv, AccountInv, TypeOK, NoDebt, AccountTyped
  <2>3. pc' \in {"on_bar", "on_time"}
    BY <1>3
  <2> QED
    BY <1>5, <1>6, <2>1, <2>2, <2>3, TypesTogether
<1>8. PlaceInv'
  BY <1>2, <1>3, <1>4, <1>5 DEF PortfolioInv, PlaceInv, Rebalances
<1>9. BeliefInv' /\ CapKept'
  <2>1. Places' = Places /\ Held' = Held
    BY <1>3, <1>4 DEF Places, Held
  <2> QED
    BY <1>3, <1>4, <2>1 DEF PortfolioInv, BeliefInv, CapKept
<1>10. NoLookAhead'
  <2> SUFFICES ASSUME pc' \in {"on_time", "sell", "buy"}, NEW s \in Symbols
               PROVE  seen'[s] < bar'.day
    BY DEF NoLookAhead
  <2>1. session # session'
    BY <1>3
  <2>2. seen[s] \in 0..session
    BY DEF PortfolioInv, AccountInv, TypeOK
  <2> QED
    BY <1>3, <1>5, <2>1, <2>2
<1>11. MonthInv' /\ OncePerMonth'
  BY <1>4 DEF MonthInv, OncePerMonth
<1> QED
  BY <1>7, <1>8, <1>9, <1>10, <1>11 DEF PortfolioInv

\* The bar's close comes into its buffer at last.
LEMMA RebalanceOnBarKeeps ==
    ASSUME PortfolioInv, RebalanceOnBar, UNCHANGED <<dcaVars, rsiVars>>
    PROVE  PortfolioInv'
<1>1. /\ pc = "on_bar" /\ pc' = "feed"
      /\ UNCHANGED <<baseline, bar, session, cash, lots, profit, holdings>>
      /\ UNCHANGED <<period, exits, entries, snapshot, month, counter, entered, stops, lastExit>>
      /\ latest' = [latest EXCEPT ![bar'.sym] = bar'.close]
      /\ Buffered(Lookback)
  BY DEF RebalanceOnBar, Closed, accountVars, rebalanceVars, dcaVars, rsiVars
<1>2. bar \in Bars(Symbols) /\ Rebalances /\ baseline \in {"momentum", "low_vol"}
  BY <1>1 DEF PortfolioInv, PlaceInv, Rebalances
<1>3. bar'.sym \in Symbols /\ bar'.close \in Closes /\ bar' \in Bars(Symbols)
  BY <1>1, <1>2 DEF Bars
<1>4. session \in Nat /\ session' = session /\ bar'.day = session'
  BY <1>1, AccountAssumption DEF PortfolioInv, AccountInv, TypeOK
<1>5. /\ closes' \in [Symbols -> Seq(Closes)] /\ seen' \in [Symbols -> 0..session']
      /\ \A s \in Symbols : closes[s] # <<>> => closes'[s] # <<>>
  <2>1. closes \in [Symbols -> Seq(Closes)] /\ seen \in [Symbols -> 0..session]
    BY DEF PortfolioInv, AccountInv, TypeOK
  <2>2. session \in Nat /\ session' \in Nat /\ session <= session'
    BY <1>4
  <2>3. Lookback \in Nat \ {0}
    BY RebalancingAssumption
  <2> QED
    BY <1>1, <1>3, <1>4, <2>1, <2>2, <2>3, BufferedKeeps
<1>6. latest' \in [Symbols -> {0} \cup Closes]
  BY <1>1, <1>3 DEF PortfolioInv, AccountInv, TypeOK
<1>7. AccountInv'
  <2>1. DcaTypeOK' /\ RebalanceTypeOK' /\ RsiTypeOK'
    BY <1>1, <1>2 DEF PortfolioInv, AccountInv, TypeOK, DcaTypeOK, RebalanceTypeOK, RsiTypeOK
  <2>2. AccountTyped' /\ baseline' \in Baselines /\ holdings' \subseteq Symbols
    BY <1>1 DEF PortfolioInv, AccountInv, TypeOK, NoDebt, AccountTyped
  <2> QED
    BY <1>1, <1>3, <1>4, <1>5, <1>6, <2>1, <2>2, TypesTogether
<1>8. PlaceInv'
  <2>1. exits \cup holdings \subseteq Symbols
    BY DEF PortfolioInv, AccountInv, TypeOK, RebalanceTypeOK
  <2>2. \A s \in exits \cup holdings : closes[s] # <<>>
    BY <1>2 DEF PortfolioInv, PlaceInv
  <2> QED
    BY <1>1, <1>5, <2>1, <2>2 DEF PortfolioInv, PlaceInv
<1>9. BeliefInv' /\ CapKept'
  <2>1. Places' = Places /\ Held' = Held
    BY <1>1 DEF Places, Held
  <2> QED
    BY <1>1, <2>1 DEF PortfolioInv, BeliefInv, CapKept
<1>10. NoLookAhead' /\ MonthInv' /\ OncePerMonth'
  BY <1>1, <1>2 DEF NoLookAhead, MonthInv, OncePerMonth
<1> QED
  BY <1>7, <1>8, <1>9, <1>10 DEF PortfolioInv

-----------------------------------------------------------------------------
(* Sums.  MoneyAddsUp folds the addition over the lots of every symbol; that *)
(* the order of the fold does not matter, and what a sum does when one lot  *)
(* comes or goes, is proved by descent to a smallest part of the domain for *)
(* which it would be wrong.                                                *)

\* The element a fold takes next.
Chosen(T) == CHOOSE x \in T : TRUE

\* g holds the sum of f over every part of its domain, as a fold computes it.
SumsOf(f, g) ==
    g = [T \in SUBSET DOMAIN f |-> IF T = {} THEN 0 ELSE f[Chosen(T)] + g[T \ {Chosen(T)}]]

PartSums(f) == CHOOSE g : SumsOf(f, g)

\* Among the parts of a finite set one has no smaller one.
LEMMA SmallestPart ==
    ASSUME NEW D, IsFiniteSet(D), NEW B \in SUBSET SUBSET D, B # {}
    PROVE  \E T \in B : \A S \in B : ~(S \subseteq T /\ S # T)
<1>1. IsWellFoundedOn(StrictSubsetOrdering(D), SUBSET D)
  BY FS_StrictSubsetOrderingWellFounded, FS_FiniteSubsetsOfFinite
<1>2. PICK T \in B : \A S \in B : ~(<<S, T>> \in StrictSubsetOrdering(D))
  BY <1>1, WFMin
<1> QED
  BY <1>2 DEF StrictSubsetOrdering

\* The sums exist.
LEMMA SumsExist ==
    ASSUME NEW D, IsFiniteSet(D), NEW f \in [D -> Int]
    PROVE  SumsOf(f, PartSums(f))
<1> DEFINE Step(g, T) == IF T = {} THEN 0 ELSE f[Chosen(T)] + g[T \ {Chosen(T)}]
           UpTo(n) == \E g \in [SUBSET D -> Int] :
                        \A T \in SUBSET D : Cardinality(T) <= n => g[T] = Step(g, T)
           Bad == {n \in Nat : ~UpTo(n)}
           Less == OpToRel(<, Nat)
<1>0. \A T \in SUBSET D : /\ IsFiniteSet(T) /\ Cardinality(T) \in Nat
                          /\ T # {} => /\ Chosen(T) \in T
                                       /\ T \ {Chosen(T)} \in SUBSET D
                                       /\ Cardinality(T \ {Chosen(T)}) = Cardinality(T) - 1
  <2> SUFFICES ASSUME NEW T \in SUBSET D
               PROVE  /\ IsFiniteSet(T) /\ Cardinality(T) \in Nat
                      /\ T # {} => /\ Chosen(T) \in T
                                   /\ T \ {Chosen(T)} \in SUBSET D
                                   /\ Cardinality(T \ {Chosen(T)}) = Cardinality(T) - 1
    OBVIOUS
  <2>1. IsFiniteSet(T) /\ Cardinality(T) \in Nat
    BY FS_Subset, FS_CardinalityType
  <2>2. T # {} => Chosen(T) \in T
    BY DEF Chosen
  <2> QED
    BY <2>1, <2>2, FS_RemoveElement
<1>1. UpTo(0)
  <2>1. [T \in SUBSET D |-> 0] \in [SUBSET D -> Int]
    OBVIOUS
  <2>2. ASSUME NEW T \in SUBSET D, Cardinality(T) <= 0 PROVE T = {}
    <3>1. IsFiniteSet(T) /\ Cardinality(T) \in Nat
      BY <1>0
    <3>2. Cardinality(T) = 0
      BY <2>2, <3>1
    <3> QED
      BY <3>1, <3>2, FS_EmptySet
  <2> QED
    BY <2>1, <2>2
<1>2. \A n \in Nat : UpTo(n) => UpTo(n + 1)
  <2> SUFFICES ASSUME NEW n \in Nat, UpTo(n) PROVE UpTo(n + 1)
    OBVIOUS
  <2>1. PICK g \in [SUBSET D -> Int] :
               \A T \in SUBSET D : Cardinality(T) <= n => g[T] = Step(g, T)
    OBVIOUS
  <2> DEFINE h == [T \in SUBSET D |-> Step(g, T)]
  <2>2. h \in [SUBSET D -> Int]
    <3>1. ASSUME NEW T \in SUBSET D PROVE Step(g, T) \in Int
      <4>1. CASE T = {}
        BY <4>1
      <4>2. CASE T # {}
        <5>1. Chosen(T) \in D /\ T \ {Chosen(T)} \in SUBSET D
          BY <1>0, <4>2
        <5>2. f[Chosen(T)] \in Int /\ g[T \ {Chosen(T)}] \in Int
          BY <5>1
        <5> QED
          BY <4>2, <5>2
      <4> QED
        BY <4>1, <4>2
    <3> QED
      BY <3>1
  <2>3. \A T \in SUBSET D : Cardinality(T) <= n => h[T] = g[T]
    BY <2>1
  <2>4. \A T \in SUBSET D : Cardinality(T) <= n + 1 => h[T] = Step(h, T)
    <3> SUFFICES ASSUME NEW T \in SUBSET D, Cardinality(T) <= n + 1, T # {}
                 PROVE  h[T] = Step(h, T)
      OBVIOUS
    <3>1. Cardinality(T \ {Chosen(T)}) <= n /\ T \ {Chosen(T)} \in SUBSET D
      BY <1>0
    <3> QED
      BY <2>3, <3>1
  <2> HIDE DEF h
  <2> QED
    BY <2>2, <2>4
<1> HIDE DEF UpTo
<1>3. Bad = {}
  <2> SUFFICES ASSUME Bad # {} PROVE FALSE
    OBVIOUS
  <2>1. IsWellFoundedOn(Less, Nat) /\ Bad \subseteq Nat
    BY NatLessThanWellFounded
  <2>2. \A i, j \in Nat : i < j => <<i, j>> \in Less
    BY DEF OpToRel
  <2> HIDE DEF Less, Bad
  <2>3. PICK n \in Bad : \A m \in Bad : ~(<<m, n>> \in Less)
    BY <2>1, WFMin
  <2>4. n \in Nat /\ n # 0 /\ ~UpTo(n)
    BY <1>1, <2>1, <2>3 DEF Bad
  <2>5. n - 1 \in Nat /\ n - 1 < n /\ (n - 1) + 1 = n
    BY <2>4
  <2>6. UpTo(n - 1)
    BY <2>2, <2>3, <2>4, <2>5 DEF Bad
  <2> QED
    BY <1>2, <2>4, <2>5, <2>6
<1>4. UpTo(Cardinality(D))
  BY <1>0, <1>3
<1>5. PICK g \in [SUBSET D -> Int] :
             \A T \in SUBSET D : Cardinality(T) <= Cardinality(D) => g[T] = Step(g, T)
  BY <1>4 DEF UpTo
<1>6. \A T \in SUBSET D : g[T] = Step(g, T)
  BY <1>5, FS_Subset
<1>7. g = [T \in SUBSET D |-> Step(g, T)]
  BY <1>6
<1>8. SumsOf(f, g)
  BY <1>7 DEF SumsOf
<1> QED
  BY <1>8 DEF PartSums

\* The fold of the functions module is the last of these sums.
LEMMA FoldIsSum ==
    ASSUME NEW f
    PROVE  FoldFunction(+, 0, f) = PartSums(f)[DOMAIN f]
BY Zenon DEF FoldFunction, FoldFunctionOnSet, MapThenFoldSet, PartSums, SumsOf, Chosen

\* The equation of the sums, at a part of the domain.
SumsUp(f, D, p) ==
    \A T \in SUBSET D :
       /\ T = {} => p[T] = 0
       /\ T # {} => Chosen(T) \in T /\ p[T] = f[Chosen(T)] + p[T \ {Chosen(T)}]

LEMMA PartsSumUp ==
    ASSUME NEW D, IsFiniteSet(D), NEW f \in [D -> Int]
    PROVE  SumsUp(f, D, PartSums(f))
<1>1. SumsOf(f, PartSums(f))
  BY SumsExist
<1> HIDE DEF PartSums
<1>2. \A T \in SUBSET D : T # {} => Chosen(T) \in T
  BY DEF Chosen
<1> QED
  BY <1>1, <1>2 DEF SumsOf, SumsUp

\* Two functions that differ at one place have sums that differ by as much.
AgreeBut(f, g, D, x) == \A y \in D \ {x} : f[y] = g[y]

LEMMA SumsDiffer ==
    ASSUME NEW D, IsFiniteSet(D), NEW f \in [D -> Int], NEW g \in [D -> Int], NEW x \in D,
           AgreeBut(f, g, D, x)
    PROVE  PartSums(f)[D] \in Int /\ PartSums(g)[D] = PartSums(f)[D] + g[x] - f[x]
<1> DEFINE p == PartSums(f)
           q == PartSums(g)
<1>0. SumsUp(f, D, p) /\ SumsUp(g, D, q)
  BY PartsSumUp
<1> HIDE DEF p, q
<1> DEFINE Good(S) == /\ p[S] \in Int /\ q[S] \in Int
                      /\ q[S] = IF x \in S THEN p[S] + g[x] - f[x] ELSE p[S]
           Bad == {S \in SUBSET D : ~Good(S)}
<1>1. Bad \in SUBSET SUBSET D
  OBVIOUS
<1>2. ASSUME Bad # {} PROVE FALSE
  <2> HIDE DEF Bad
  <2>1. PICK S \in Bad : \A R \in Bad : ~(R \subseteq S /\ R # S)
    BY <1>1, <1>2, SmallestPart
  <2> HIDE DEF Good
  <2>2. S \in SUBSET D /\ ~Good(S) /\ \A R \in SUBSET D : R \subseteq S /\ R # S => Good(R)
    BY <2>1 DEF Bad
  <2>3. CASE S = {}
    <3>1. p[S] = 0 /\ q[S] = 0
      BY <1>0, <2>2, <2>3 DEF SumsUp
    <3> QED
      BY <2>2, <2>3, <3>1 DEF Good
  <2>4. CASE S # {}
    <3> DEFINE c == Chosen(S)
               R == S \ {c}
    <3>1. c \in S /\ p[S] = f[c] + p[R] /\ q[S] = g[c] + q[R]
      BY <1>0, <2>2, <2>4 DEF SumsUp
    <3>2. R \in SUBSET D /\ R \subseteq S /\ R # S
      BY <2>2, <3>1
    <3> HIDE DEF c
    <3>3. Good(R)
      BY <2>2, <3>2
    <3>4. /\ c \in D /\ f[c] \in Int /\ g[c] \in Int /\ f[x] \in Int /\ g[x] \in Int
          /\ c # x => f[c] = g[c] /\ (x \in S <=> x \in R)
          /\ c = x => x \in S /\ x \notin R
      BY <2>2, <3>1 DEF AgreeBut
    <3> HIDE DEF R
    <3>5. Good(S)
      BY <3>1, <3>3, <3>4 DEF Good
    <3> QED
      BY <2>2, <3>5
  <2> QED
    BY <2>3, <2>4
<1>3. D \in SUBSET D /\ (D \notin Bad => Good(D))
  OBVIOUS
<1>4. Good(D)
  BY <1>2, <1>3
<1> QED
  BY <1>4 DEF p, q

\* Zeros sum up to nothing.
LEMMA ZerosSumUp ==
    ASSUME NEW D, NEW f, \A x \in D : f[x] = 0, IsFiniteSet(D),
           NEW p, SumsUp(f, D, p), NEW T \in SUBSET D
    PROVE  p[T] = 0
<1> DEFINE Bad == {S \in SUBSET D : p[S] # 0}
<1>1. Bad \in SUBSET SUBSET D
  OBVIOUS
<1>2. ASSUME Bad # {} PROVE FALSE
  <2> HIDE DEF Bad
  <2>1. PICK S \in Bad : \A R \in Bad : ~(R \subseteq S /\ R # S)
    BY <1>1, <1>2, SmallestPart
  <2>2. S # {} /\ S \in SUBSET D /\ p[S] # 0
    BY <2>1 DEF SumsUp, Bad
  <2>3. Chosen(S) \in S /\ p[S] = f[Chosen(S)] + p[S \ {Chosen(S)}]
    BY <2>2 DEF SumsUp
  <2>4. f[Chosen(S)] = 0 /\ p[S \ {Chosen(S)}] = 0
    BY <2>1, <2>2, <2>3 DEF Bad
  <2> QED
    BY <2>2, <2>3, <2>4
<1> QED
  BY <1>2

\* Every element of a part may be taken first: the order does not matter.
LEMMA AnyFirst ==
    ASSUME NEW D, IsFiniteSet(D), NEW f \in [D -> Int], NEW p, SumsUp(f, D, p),
           NEW T \in SUBSET D
    PROVE  p[T] \in Int /\ \A x \in T : p[T] = f[x] + p[T \ {x}]
<1> DEFINE Good(S) == p[S] \in Int /\ \A x \in S : p[S] = f[x] + p[S \ {x}]
           Bad == {S \in SUBSET D : ~Good(S)}
<1>1. Bad \in SUBSET SUBSET D
  OBVIOUS
<1>2. ASSUME Bad # {} PROVE FALSE
  <2> HIDE DEF Bad
  <2>1. PICK S \in Bad : \A R \in Bad : ~(R \subseteq S /\ R # S)
    BY <1>1, <1>2, SmallestPart
  <2> HIDE DEF Good
  <2>2. S \in SUBSET D /\ ~Good(S) /\ \A R \in SUBSET D : R \subseteq S /\ R # S => Good(R)
    BY <2>1 DEF Bad
  <2>3. CASE S = {}
    <3>1. p[S] = 0
      BY <2>2, <2>3 DEF SumsUp
    <3> QED
      BY <2>2, <2>3, <3>1 DEF Good
  <2>4. CASE S # {}
    <3> DEFINE c == Chosen(S)
               R == S \ {c}
    <3>1. c \in S /\ p[S] = f[c] + p[R]
      BY <2>2, <2>4 DEF SumsUp
    <3> HIDE DEF c
    <3>2. R \in SUBSET D /\ R \subseteq S /\ R # S /\ c \notin R
      BY <2>2, <3>1
    <3>3. Good(R) /\ f[c] \in Int
      BY <2>2, <3>1, <3>2
    <3>4. p[S] \in Int
      BY <3>1, <3>3 DEF Good
    <3>5. ASSUME NEW x \in S PROVE p[S] = f[x] + p[S \ {x}]
      <4>1. CASE x = c
        BY <3>1, <4>1
      <4>2. CASE x # c
        <5> DEFINE Q == S \ {x}
        <5>1. Q \in SUBSET D /\ Q \subseteq S /\ Q # S /\ c \in Q /\ x \in R
          BY <2>2, <3>1, <4>2
        <5>2. R \ {x} = Q \ {c}
          OBVIOUS
        <5> HIDE DEF Q, R
        <5>3. Good(Q)
          BY <2>2, <5>1
        <5>4. p[R] = f[x] + p[R \ {x}]
          BY <3>3, <5>1 DEF Good
        <5>5. p[Q] = f[c] + p[Q \ {c}]
          BY <5>1, <5>3 DEF Good
        <5>6. f[x] \in Int /\ p[R \ {x}] \in Int
          <6>1. R \ {x} \in SUBSET D /\ R \ {x} \subseteq S /\ R \ {x} # S
            BY <3>1, <3>2 DEF R
          <6> QED
            BY <2>2, <6>1 DEF Good
        <5>7. p[S] = f[c] + (f[x] + p[R \ {x}])
          BY <3>1, <5>4
        <5>8. p[Q] = f[c] + p[R \ {x}]
          BY <5>2, <5>5
        <5>9. p[S] = f[x] + p[Q]
          BY <3>3, <5>6, <5>7, <5>8
        <5> QED
          BY <5>9 DEF Q
      <4> QED
        BY <4>1, <4>2
    <3> QED
      BY <2>2, <3>4, <3>5 DEF Good
  <2> QED
    BY <2>3, <2>4
<1>3. Good(T)
  BY <1>2
<1> QED
  BY <1>3

\* Where two functions agree their sums do.
LEMMA SumsAgree ==
    ASSUME NEW D, IsFiniteSet(D), NEW E, NEW f, NEW g, D \subseteq E, \A x \in D : f[x] = g[x],
           NEW p, NEW q, SumsUp(f, D, p), SumsUp(g, E, q), NEW T \in SUBSET D
    PROVE  p[T] = q[T]
<1> DEFINE Bad == {S \in SUBSET D : p[S] # q[S]}
<1>1. Bad \in SUBSET SUBSET D
  OBVIOUS
<1>2. ASSUME Bad # {} PROVE FALSE
  <2> HIDE DEF Bad
  <2>1. PICK S \in Bad : \A R \in Bad : ~(R \subseteq S /\ R # S)
    BY <1>1, <1>2, SmallestPart
  <2>2. S \in SUBSET D /\ S \in SUBSET E /\ p[S] # q[S]
    BY <2>1 DEF Bad
  <2>3. CASE S = {}
    BY <2>2, <2>3 DEF SumsUp
  <2>4. CASE S # {}
    <3>1. /\ Chosen(S) \in S /\ p[S] = f[Chosen(S)] + p[S \ {Chosen(S)}]
          /\ q[S] = g[Chosen(S)] + q[S \ {Chosen(S)}]
      BY <2>2, <2>4 DEF SumsUp
    <3>2. p[S \ {Chosen(S)}] = q[S \ {Chosen(S)}]
      BY <2>1, <2>2, <3>1 DEF Bad
    <3> QED
      BY <2>2, <3>1, <3>2
  <2> QED
    BY <2>3, <2>4
<1> QED
  BY <1>2


-----------------------------------------------------------------------------
(* The books.                                                              *)

LotCosts(q) == [i \in DOMAIN q |-> Cost(q[i])]

\* What the lots of one symbol have cost, and those of all symbols.
LotSum(q) == PartSums(LotCosts(q))[DOMAIN q]

SymbolCosts(l) == [s \in Symbols |-> LotSum(l[s])]

Books(l) == PartSums(SymbolCosts(l))[Symbols]

Balance == cash + Books(lots) - profit

BooksInv == (baseline # "dca" \/ pc = "feed") => Balance = StartingCapital

LEMMA CostsTyped ==
    ASSUME NEW q \in Seq(LotStates)
    PROVE  /\ LotCosts(q) \in [1..Len(q) -> Int] /\ DOMAIN q = 1..Len(q)
           /\ IsFiniteSet(1..Len(q)) /\ LotSum(q) \in Int
           /\ SumsUp(LotCosts(q), 1..Len(q), PartSums(LotCosts(q)))
<1>1. DOMAIN q = 1..Len(q) /\ Len(q) \in Nat /\ \A i \in 1..Len(q) : q[i] \in LotStates
  BY LenProperties, ElementOfSeq
<1>2. \A lot \in LotStates : Cost(lot) \in Int
  BY DEF Cost, LotStates
<1>3. LotCosts(q) \in [1..Len(q) -> Int]
  BY <1>1, <1>2 DEF LotCosts
<1>4. IsFiniteSet(1..Len(q))
  BY <1>1, FS_Interval
<1>5. SumsUp(LotCosts(q), 1..Len(q), PartSums(LotCosts(q)))
  BY <1>3, <1>4, PartsSumUp
<1>6. PartSums(LotCosts(q))[1..Len(q)] \in Int
  BY <1>3, <1>4, <1>5, AnyFirst
<1> QED
  BY <1>1, <1>3, <1>4, <1>5, <1>6 DEF LotSum

LEMMA NoLots == LotSum(<<>>) = 0
<1>1. <<>> \in Seq(LotStates) /\ Len(<<>>) = 0
  OBVIOUS
<1>2. SumsUp(LotCosts(<<>>), 1..0, PartSums(LotCosts(<<>>))) /\ DOMAIN <<>> = 1..0
  BY <1>1, CostsTyped
<1>3. 1..0 = {}
  OBVIOUS
<1> QED
  BY <1>2, <1>3 DEF LotSum, SumsUp

\* A lot at the end of the list adds its cost.
LEMMA OneLotMore ==
    ASSUME NEW q \in Seq(LotStates), NEW lot \in LotStates
    PROVE  LotSum(Append(q, lot)) = LotSum(q) + Cost(lot)
<1> DEFINE r == Append(q, lot)
           n == Len(q)
           D == 1..n
           E == 1..(n + 1)
<1>1. r \in Seq(LotStates) /\ Len(r) = n + 1 /\ n \in Nat
  BY AppendProperties, LenProperties
<1>2. r[n + 1] = lot /\ \A i \in D : r[i] = q[i]
  BY AppendProperties
<1>3. /\ LotCosts(q) \in [D -> Int] /\ DOMAIN q = D /\ IsFiniteSet(D) /\ LotSum(q) \in Int
      /\ SumsUp(LotCosts(q), D, PartSums(LotCosts(q)))
  BY CostsTyped
<1> HIDE DEF r
<1>4. /\ LotCosts(r) \in [E -> Int] /\ DOMAIN r = E /\ IsFiniteSet(E)
      /\ SumsUp(LotCosts(r), E, PartSums(LotCosts(r)))
  BY <1>1, CostsTyped
<1>5. D \subseteq E /\ n + 1 \in E /\ E \ {n + 1} = D
  BY <1>1
<1>6. LotCosts(r)[n + 1] = Cost(lot) /\ \A i \in D : LotCosts(q)[i] = LotCosts(r)[i]
  BY <1>2, <1>3, <1>4, <1>5 DEF LotCosts
<1> HIDE DEF D, E, n
<1>7. PartSums(LotCosts(q))[D] = PartSums(LotCosts(r))[D]
  BY <1>3, <1>4, <1>5, <1>6, SumsAgree
<1>8. PartSums(LotCosts(r))[E] = LotCosts(r)[n + 1] + PartSums(LotCosts(r))[E \ {n + 1}]
  BY <1>4, <1>5, AnyFirst
<1>9. Cost(lot) \in Int
  BY DEF Cost, LotStates
<1>10. LotSum(q) = PartSums(LotCosts(q))[D] /\ LotSum(r) = PartSums(LotCosts(r))[E]
  BY <1>3, <1>4 DEF LotSum
<1>11. LotSum(r) = Cost(lot) + LotSum(q)
  BY <1>5, <1>6, <1>7, <1>8, <1>10
<1> QED
  BY <1>3, <1>9, <1>11 DEF r

\* The only lot of a symbol takes its cost along.
LEMMA OneLotOnly ==
    ASSUME NEW q \in Seq(LotStates), q # <<>>, Len(q) <= 1
    PROVE  LotSum(q) = Cost(Head(q)) /\ LotSum(Tail(q)) = 0
<1>1. Len(q) = 1 /\ Head(q) \in LotStates
  <2>1. Head(q) \in LotStates
    BY HeadTailProperties
  <2>2. Len(q) \in Nat /\ Len(q) # 0
    BY EmptySeq, LenProperties
  <2>3. Len(q) = 1
    BY <2>2
  <2> QED
    BY <2>1, <2>3
<1>2. Tail(q) = <<>>
  <2>1. Tail(q) \in Seq(LotStates) /\ Len(Tail(q)) = Len(q) - 1
    BY HeadTailProperties
  <2>2. Len(Tail(q)) = 0
    BY <1>1, <2>1
  <2> QED
    BY <2>1, <2>2, EmptySeq
<1>3. q = Append(<<>>, Head(q))
  BY <1>1
<1>4. <<>> \in Seq(LotStates)
  OBVIOUS
<1>5. LotSum(Append(<<>>, Head(q))) = LotSum(<<>>) + Cost(Head(q))
  BY <1>1, <1>4, OneLotMore
<1>6. Cost(Head(q)) \in Int
  BY <1>1 DEF Cost, LotStates
<1>7. LotSum(q) = LotSum(<<>>) + Cost(Head(q))
  BY <1>3, <1>5
<1>8. LotSum(Tail(q)) = LotSum(<<>>)
  BY <1>2
<1> QED
  BY <1>6, <1>7, <1>8, NoLots

\* When the lots of one symbol change, the books change by as much.
LEMMA SymbolSums ==
    ASSUME NEW f \in [Symbols -> Int], NEW g \in [Symbols -> Int], NEW s \in Symbols,
           AgreeBut(f, g, Symbols, s)
    PROVE  /\ PartSums(f)[Symbols] \in Int
           /\ PartSums(g)[Symbols] = PartSums(f)[Symbols] + g[s] - f[s]
<1>1. IsFiniteSet(Symbols)
  BY AccountAssumption
<1> QED
  BY <1>1, SumsDiffer

LEMMA BooksOfOne ==
    ASSUME NEW l \in [Symbols -> Seq(LotStates)], NEW m \in [Symbols -> Seq(LotStates)],
           NEW s \in Symbols, \A t \in Symbols : t # s => m[t] = l[t]
    PROVE  Books(l) \in Int /\ Books(m) = Books(l) + LotSum(m[s]) - LotSum(l[s])
<1> DEFINE f == SymbolCosts(l)
           g == SymbolCosts(m)
<1>1. f \in [Symbols -> Int] /\ g \in [Symbols -> Int]
  BY CostsTyped DEF SymbolCosts
<1>2. AgreeBut(f, g, Symbols, s)
  BY DEF SymbolCosts, AgreeBut
<1>3. f[s] = LotSum(l[s]) /\ g[s] = LotSum(m[s])
  BY DEF SymbolCosts
<1> HIDE DEF f, g
<1>4. f \in [Symbols -> Int] /\ g \in [Symbols -> Int] /\ s \in Symbols
  BY <1>1
<1>5. /\ PartSums(f)[Symbols] \in Int
      /\ PartSums(g)[Symbols] = PartSums(f)[Symbols] + g[s] - f[s]
  BY <1>2, <1>4, SymbolSums
<1>6. Books(l) = PartSums(f)[Symbols] /\ Books(m) = PartSums(g)[Symbols]
  BY DEF Books, f, g
<1> QED
  BY <1>3, <1>5, <1>6

\* MoneyAddsUp with the sums in place of the folds.
LEMMA BooksAsSum == BooksInv /\ TypeOK => MoneyAddsUp
<1> SUFFICES ASSUME BooksInv, TypeOK, baseline # "dca" \/ pc = "feed" PROVE MoneyAddsUp
  BY DEF MoneyAddsUp
<1>1. ASSUME NEW q
      PROVE  FoldFunction(+, 0, [i \in DOMAIN q |-> Cost(q[i])]) = LotSum(q)
  <2>1. DOMAIN LotCosts(q) = DOMAIN q
    BY DEF LotCosts
  <2>2. FoldFunction(+, 0, LotCosts(q)) = LotSum(q)
    BY <2>1, FoldIsSum DEF LotSum
  <2> QED
    BY <2>2 DEF LotCosts
<1>2. [s \in Symbols |-> FoldFunction(+, 0, [i \in DOMAIN lots[s] |-> Cost(lots[s][i])])]
        = SymbolCosts(lots)
  BY <1>1 DEF SymbolCosts
<1>3. FoldFunction(+, 0, SymbolCosts(lots)) = Books(lots)
  <2>1. DOMAIN SymbolCosts(lots) = Symbols
    BY DEF SymbolCosts
  <2> QED
    BY <2>1, FoldIsSum DEF Books
<1>4. lots \in [Symbols -> Seq(LotStates)] /\ cash \in Int /\ profit \in Int
  BY DEF TypeOK
<1>5. Books(lots) \in Int
  <2>1. Target \in Symbols
    BY DcaAssumption
  <2> QED
    BY <1>4, <2>1, BooksOfOne
<1>6. cash + Books(lots) = StartingCapital + profit
  BY <1>4, <1>5, AccountAssumption DEF BooksInv, Balance
<1> QED
  BY <1>2, <1>3, <1>6 DEF MoneyAddsUp

-----------------------------------------------------------------------------
(* No trade changes the balance.                                           *)

AccountInt == cash \in Int /\ profit \in Int /\ lots \in [Symbols -> Seq(LotStates)]

LEMMA NoTradeBalances ==
    ASSUME UNCHANGED accountVars
    PROVE  Balance' = Balance
<1>1. cash' = cash /\ lots' = lots /\ profit' = profit
  BY DEF accountVars
<1>2. Books(lots)' = Books(lots')
  BY DEF Books, SymbolCosts, LotSum, LotCosts, PartSums, SumsOf, Chosen, Cost
<1> QED
  BY <1>1, <1>2 DEF Balance

\* A purchase turns cash into a lot of the same cost.
LEMMA BuysBalances ==
    ASSUME AccountInt, AccountInt', NEW sym \in Symbols, NEW price, NEW qty,
           Buys(sym, price, qty)
    PROVE  Balance' = Balance
<1> DEFINE lot == Lot(price, qty)
<1>1. CASE UNCHANGED accountVars
  BY <1>1, NoTradeBalances
<1>2. CASE /\ cash' = cash - Cost(lot) /\ profit' = profit
           /\ lots' = [lots EXCEPT ![sym] = Append(@, lot)]
  <2> HIDE DEF lot
  <2>1. lots'[sym] = Append(lots[sym], lot) /\ \A t \in Symbols : t # sym => lots'[t] = lots[t]
    BY <1>2 DEF AccountInt
  <2>2. lots[sym] \in Seq(LotStates) /\ lots'[sym] \in Seq(LotStates)
    BY DEF AccountInt
  <2>3. lot \in LotStates
    <3>1. Len(lots[sym]) \in Nat /\ Len(lots'[sym]) = Len(lots[sym]) + 1
          /\ lots'[sym][Len(lots[sym]) + 1] = lot
      BY <2>1, <2>2
    <3> QED
      BY <2>2, <3>1, ElementOfSeq
  <2>4. LotSum(lots'[sym]) = LotSum(lots[sym]) + Cost(lot)
    BY <2>1, <2>2, <2>3, OneLotMore
  <2>5. /\ Books(lots) \in Int
        /\ Books(lots') = Books(lots) + LotSum(lots'[sym]) - LotSum(lots[sym])
    BY <2>1, BooksOfOne DEF AccountInt
  <2>6. LotSum(lots[sym]) \in Int /\ Cost(lot) \in Int
    <3>1. LotSum(lots[sym]) \in Int
      BY <2>2, CostsTyped
    <3>2. Cost(lot) \in Int
      BY <2>3 DEF Cost, LotStates
    <3> QED
      BY <3>1, <3>2
  <2>7. Books(lots)' = Books(lots')
    BY DEF Books, SymbolCosts, LotSum, LotCosts, PartSums, SumsOf, Chosen, Cost
  <2>8. Balance' = cash' + Books(lots') - profit' /\ Balance = cash + Books(lots) - profit
    BY <2>7 DEF Balance
  <2>9. /\ cash \in Int /\ profit \in Int /\ cash' = cash - Cost(lot) /\ profit' = profit
        /\ Books(lots') = Books(lots) + Cost(lot)
    BY <1>2, <2>4, <2>5, <2>6 DEF AccountInt
  <2> QED
    BY <2>5, <2>6, <2>8, <2>9
<1> QED
  BY <1>1, <1>2 DEF Buys, accountVars

\* A sale turns a lot into cash, and the difference is the profit.
LEMMA SellsBalances ==
    ASSUME AccountInt, AccountInt', NEW sym \in Symbols, NEW price \in Nat,
           Len(lots[sym]) <= 1, Sells(sym, price)
    PROVE  Balance' = Balance
<1>1. CASE lots[sym] = <<>>
  BY <1>1, NoTradeBalances DEF Sells
<1>2. CASE lots[sym] # <<>>
  <2> DEFINE lot == Head(lots[sym])
  <2>1. /\ cash' = cash + Proceeds(lot, price)
        /\ profit' = profit + Proceeds(lot, price) - Cost(lot)
        /\ lots' = [lots EXCEPT ![sym] = Tail(@)]
    BY <1>2 DEF Sells
  <2>2. lots[sym] \in Seq(LotStates) /\ lot \in LotStates
    BY <1>2, HeadTailProperties DEF AccountInt
  <2>3. LotSum(lots[sym]) = Cost(lot) /\ LotSum(Tail(lots[sym])) = 0
    BY <1>2, <2>2, OneLotOnly
  <2>4. lots'[sym] = Tail(lots[sym]) /\ \A t \in Symbols : t # sym => lots'[t] = lots[t]
    BY <2>1 DEF AccountInt
  <2> HIDE DEF lot
  <2>5. Proceeds(lot, price) \in Nat /\ Cost(lot) \in Int
    BY <2>2, SaleBrings DEF Cost, LotStates
  <2>6. /\ Books(lots) \in Int
        /\ Books(lots') = Books(lots) + LotSum(lots'[sym]) - LotSum(lots[sym])
    BY <2>4, BooksOfOne DEF AccountInt
  <2>7. Books(lots)' = Books(lots')
    BY DEF Books, SymbolCosts, LotSum, LotCosts, PartSums, SumsOf, Chosen, Cost
  <2>8. Books(lots') = Books(lots) - Cost(lot)
    BY <2>3, <2>4, <2>5, <2>6
  <2>9. Balance' = cash' + Books(lots') - profit' /\ Balance = cash + Books(lots) - profit
    BY <2>7 DEF Balance
  <2>10. cash \in Int /\ profit \in Int
    BY DEF AccountInt
  <2>11. cash' = cash + Proceeds(lot, price) /\ profit' = profit + Proceeds(lot, price) - Cost(lot)
    BY <2>1
  <2>12. Books(lots) \in Int
    BY <2>6
  <2>13. \A c, p, b, paid, cost \in Int : (c + paid) + (b - cost) - (p + paid - cost) = c + b - p
    OBVIOUS
  <2>14. Balance' = (cash + Proceeds(lot, price)) + (Books(lots) - Cost(lot))
                      - (profit + Proceeds(lot, price) - Cost(lot))
    BY <2>8, <2>9, <2>11
  <2>15. Proceeds(lot, price) \in Int
    BY <2>5
  <2> HIDE DEF Balance, Proceeds, Cost, Books
  <2> QED
    BY <2>5, <2>9, <2>10, <2>12, <2>13, <2>14, <2>15
<1> QED
  BY <1>1, <1>2

-----------------------------------------------------------------------------
(* Every step of a backtest keeps the books.                               *)

LEMMA AccountIsInt == PortfolioInv => AccountInt
BY DEF PortfolioInv, AccountInv, TypeOK, AccountInt

LEMMA BooksInit == Init => BooksInv
<1> SUFFICES ASSUME Init PROVE BooksInv
  OBVIOUS
<1> DEFINE f == SymbolCosts(lots)
<1>1. \A s \in Symbols : lots[s] = <<>>
  BY DEF Init
<1>2. \A s \in Symbols : f[s] = 0
  BY <1>1, NoLots DEF SymbolCosts
<1>3. IsFiniteSet(Symbols) /\ f \in [Symbols -> Int]
  <2>1. f = [s \in Symbols |-> f[s]]
    BY DEF SymbolCosts
  <2> HIDE DEF f
  <2> QED
    BY <1>2, <2>1, AccountAssumption
<1> HIDE DEF f
<1>4. SumsUp(f, Symbols, PartSums(f))
  BY <1>3, PartsSumUp
<1>5. PartSums(f)[Symbols] = 0
  BY <1>2, <1>3, <1>4, ZerosSumUp
<1>6. Books(lots) = 0
  BY <1>5 DEF Books, f
<1>7. cash = StartingCapital /\ profit = 0 /\ StartingCapital \in Nat
  BY AccountAssumption DEF Init
<1> QED
  BY <1>6, <1>7 DEF BooksInv, Balance

LEMMA DcaBarBalances ==
    ASSUME AccountInt, AccountInt', DcaBar
    PROVE  Balance' = Balance
<1>1. CASE DcaSignal
  <2> DEFINE price == bar'.close * 100
  <2>1. Buys(Target, price, DcaQty) /\ Target \in Symbols
    BY <1>1, DcaAssumption DEF DcaBar
  <2> HIDE DEF price
  <2> QED
    BY <2>1, BuysBalances
<1>2. CASE ~DcaSignal
  BY <1>2, NoTradeBalances DEF DcaBar
<1> QED
  BY <1>1, <1>2

LEMMA GoldenBarBalances ==
    ASSUME PortfolioInv, AccountInt', baseline = "golden_cross", GoldenBar
    PROVE  Balance' = Balance
<1> DEFINE price == bar'.close * 100
           qty == Allocated(cash, 1, price)
<1>1. PICK next \in Bars({SmaSymbol}) : Arrives(next)
  BY DEF GoldenBar
<1>2. price \in Nat /\ SmaSymbol \in Symbols
  BY <1>1, BarOnlyTypes, GoldenCrossAssumption DEF GoldenBar
<1>3. AccountInt /\ Len(lots[SmaSymbol]) <= 1
  BY <1>2, AccountIsInt DEF PortfolioInv, CapKept
<1>4. CASE CrossesUp /\ lots[SmaSymbol] = <<>>
  <2>1. Buys(SmaSymbol, price, qty)
    BY <1>4 DEF GoldenBar, GoldenBuy
  <2> HIDE DEF price, qty
  <2> QED
    BY <1>2, <1>3, <2>1, BuysBalances
<1>5. CASE ~CrossesUp /\ CrossesDown
  <2>1. Sells(SmaSymbol, price)
    BY <1>5 DEF GoldenBar, GoldenExit
  <2> HIDE DEF price
  <2> QED
    BY <1>2, <1>3, <2>1, SellsBalances
<1>6. CASE (CrossesUp /\ lots[SmaSymbol] # <<>>) \/ (~CrossesUp /\ ~CrossesDown)
  BY <1>6, NoTradeBalances DEF GoldenBar, GoldenBuy
<1> QED
  BY <1>4, <1>5, <1>6

LEMMA LiquidateBalances ==
    ASSUME PortfolioInv, AccountInt', baseline # "dca", Liquidate
    PROVE  Balance' = Balance
<1>1. PICK s \in Held : Sells(s, latest[s] * 100)
  BY DEF Liquidate
<1> DEFINE price == latest[s] * 100
<1>2. s \in Symbols /\ price \in Nat
  BY PriceOfClose DEF Held, PortfolioInv, AccountInv, TypeOK
<1>3. AccountInt /\ Len(lots[s]) <= 1 /\ Sells(s, price)
  BY <1>1, <1>2, AccountIsInt DEF PortfolioInv, CapKept
<1> HIDE DEF price
<1> QED
  BY <1>2, <1>3, SellsBalances

LEMMA ExecuteExitBalances ==
    ASSUME PortfolioInv, AccountInt', ExecuteExit
    PROVE  Balance' = Balance
<1>1. PICK s \in exits : Sells(s, LastClose(s) * 100)
  BY DEF ExecuteExit
<1> DEFINE price == LastClose(s) * 100
<1>2. /\ RebalanceTypeOK /\ \A t \in Symbols : Len(lots[t]) <= 1
      /\ \A t \in exits \cup holdings : closes[t] # <<>>
  BY InHand DEF ExecuteExit
<1>3. s \in Symbols /\ closes[s] # <<>>
  BY <1>1, <1>2 DEF RebalanceTypeOK
<1>4. price \in Nat
  BY <1>3, LastCloseIsPrice
<1>5. AccountInt /\ Len(lots[s]) <= 1 /\ Sells(s, price)
  BY <1>1, <1>2, <1>3, AccountIsInt
<1> HIDE DEF price
<1> QED
  BY <1>3, <1>4, <1>5, SellsBalances

LEMMA AttemptBuyBalances ==
    ASSUME PortfolioInv, AccountInt', AttemptBuy
    PROVE  Balance' = Balance
<1>1. PICK s \in entries :
        IF lots[s] # <<>> THEN UNCHANGED accountVars
        ELSE Buys(s, LastClose(s) * 100, Allocated(snapshot, TopN, LastClose(s) * 100))
  BY DEF AttemptBuy
<1> DEFINE price == LastClose(s) * 100
           qty == Allocated(snapshot, TopN, price)
<1>2. s \in Symbols /\ AccountInt
  BY AccountIsInt DEF PortfolioInv, AccountInv, TypeOK, RebalanceTypeOK
<1>3. CASE lots[s] # <<>>
  BY <1>1, <1>3, NoTradeBalances
<1>4. CASE lots[s] = <<>>
  <2>1. Buys(s, price, qty)
    BY <1>1, <1>4
  <2> HIDE DEF price, qty
  <2> QED
    BY <1>2, <2>1, BuysBalances
<1> QED
  BY <1>3, <1>4

\* rsi_mr sells at the stop or at the close, and buys into a free place.
LEMMA RsiBalances ==
    ASSUME PortfolioInv, AccountInt', baseline = "rsi_mr", StopLoss \/ TakeProfit \/ Enter \/ Pass,
           UNCHANGED <<dcaVars, rebalanceVars>>
    PROVE  Balance' = Balance
<1> DEFINE sym == bar'.sym
           stop == stops[sym]
           price == bar'.close * 100
           qty == Allocated(cash, MaxPositions - Cardinality(Held), price)
<1>1. RsiArrives /\ AccountInt
  BY AccountIsInt DEF StopLoss, TakeProfit, Enter, Pass
<1>2. sym \in Symbols /\ stop \in Nat /\ price \in Nat /\ Len(lots[sym]) <= 1
  BY <1>1, RsiArrivesKeeps DEF RsiTypeOK
<1>3. CASE StopLoss
  <2>1. Sells(sym, stop)
    BY <1>3 DEF StopLoss
  <2> HIDE DEF sym, stop
  <2> QED
    BY <1>1, <1>2, <2>1, SellsBalances
<1>4. CASE TakeProfit
  <2>1. Sells(sym, price)
    BY <1>4 DEF TakeProfit
  <2> HIDE DEF sym, price
  <2> QED
    BY <1>1, <1>2, <2>1, SellsBalances
<1>5. CASE Enter
  <2>1. UNCHANGED accountVars \/ Buys(sym, price, qty)
    BY <1>5 DEF Enter, RsiBuys
  <2> HIDE DEF sym, price, qty
  <2> QED
    BY <1>1, <1>2, <2>1, NoTradeBalances, BuysBalances
<1>6. CASE Pass
  BY <1>6, NoTradeBalances DEF Pass
<1> QED
  BY <1>3, <1>4, <1>5, <1>6

LEMMA BooksStep == PortfolioInv /\ PortfolioInv' /\ BooksInv /\ [Next]_vars => BooksInv'
<1> SUFFICES ASSUME PortfolioInv, PortfolioInv', BooksInv, [Next]_vars PROVE BooksInv'
  OBVIOUS
<1>0. AccountInt /\ AccountInt'
  <2>1. (PortfolioInv => AccountInt)'
    BY AccountIsInt, PTL
  <2> QED
    BY <2>1, AccountIsInt
<1>1. CASE Dca
  <2>1. CASE DcaBar
    <3>1. Balance' = Balance /\ pc = "feed"
      BY <1>0, <2>1, DcaBarBalances DEF DcaBar, Arrives
    <3> QED
      BY <3>1 DEF BooksInv
  <2>2. CASE EndOfStream \/ Liquidated \/ DcaLiquidate
    <3>1. pc' # "feed" /\ baseline' = "dca"
      BY <1>1, <2>2 DEF Dca, EndOfStream, Liquidated, DcaLiquidate, streamVars
    <3> QED
      BY <3>1 DEF BooksInv
  <2> QED
    BY <1>1, <2>1, <2>2 DEF Dca
<1>2. SUFFICES ASSUME baseline # "dca" PROVE Balance' = Balance
  <2>1. CASE baseline = "dca"
    <3>1. [Next]_vars => Dca \/ UNCHANGED vars
      BY <2>1 DEF Next, Golden, Momentum, LowVolatility, Rsi
    <3>2. CASE UNCHANGED vars
      <4>1. pc' = pc /\ baseline' = baseline /\ UNCHANGED accountVars
        BY <3>2 DEF vars, streamVars
      <4> QED
        BY <4>1, NoTradeBalances DEF BooksInv
    <3> QED
      BY <1>1, <3>1, <3>2
  <2>2. CASE baseline # "dca"
    BY <1>2, <2>2 DEF BooksInv
  <2> QED
    BY <2>1, <2>2
<1>3. CASE Golden
  <2>1. CASE GoldenBar
    BY <1>0, <1>3, <2>1, GoldenBarBalances DEF Golden
  <2>2. CASE Liquidate
    BY <1>0, <1>2, <2>2, LiquidateBalances
  <2>3. CASE EndOfStream \/ Liquidated
    BY <2>3, NoTradeBalances DEF EndOfStream, Liquidated
  <2> QED
    BY <1>3, <2>1, <2>2, <2>3 DEF Golden
<1>4. CASE RebalanceNext
  <2>1. CASE ExecuteExit
    BY <1>0, <2>1, ExecuteExitBalances
  <2>2. CASE AttemptBuy
    BY <1>0, <2>2, AttemptBuyBalances
  <2>3. CASE Liquidate
    BY <1>0, <1>2, <2>3, LiquidateBalances
  <2>4. CASE \/ RebalanceBar \/ OnTime \/ NotDue \/ ExitsDone \/ EntriesDone \/ RebalanceOnBar
             \/ EndOfStream \/ Liquidated
    <3>1. UNCHANGED accountVars
      BY <2>4 DEF RebalanceBar, OnTime, NotDue, ExitsDone, EntriesDone, RebalanceOnBar,
                  EndOfStream, Liquidated
    <3> QED
      BY <3>1, NoTradeBalances
  <2> QED
    BY <1>4, <2>1, <2>2, <2>3, <2>4 DEF RebalanceNext
<1>5. CASE Rsi /\ UNCHANGED <<dcaVars, rebalanceVars>>
  <2>1. CASE StopLoss \/ TakeProfit \/ Enter \/ Pass
    BY <1>0, <1>5, <2>1, RsiBalances DEF Rsi
  <2>2. CASE Liquidate
    BY <1>0, <1>2, <2>2, LiquidateBalances
  <2>3. CASE EndOfStream \/ Liquidated
    BY <2>3, NoTradeBalances DEF EndOfStream, Liquidated
  <2> QED
    BY <1>5, <2>1, <2>2, <2>3 DEF Rsi
<1>6. CASE UNCHANGED vars
  BY <1>6, NoTradeBalances DEF vars
<1> QED
  BY <1>2, <1>3, <1>4, <1>5, <1>6 DEF Next, Dca, Momentum, LowVolatility

-----------------------------------------------------------------------------
(* The theorems.                                                           *)

LEMMA PortfolioStep == PortfolioInv /\ [Next]_vars => PortfolioInv'
<1> SUFFICES ASSUME PortfolioInv, [Next]_vars PROVE PortfolioInv'
  OBVIOUS
<1>1. CASE Dca /\ UNCHANGED <<rebalanceVars, rsiVars>>
  <2>1. baseline = "dca"
    BY <1>1 DEF Dca
  <2>2. CASE DcaBar
    BY <1>1, <2>1, <2>2, DcaBarKeeps
  <2>3. CASE (EndOfStream \/ Liquidated) /\ UNCHANGED dcaVars
    BY <1>1, <2>3, EndKeeps
  <2>4. CASE DcaLiquidate
    BY <1>1, <2>1, <2>4, DcaLiquidateKeeps
  <2> QED
    BY <1>1, <2>2, <2>3, <2>4 DEF Dca
<1>2. CASE Golden /\ UNCHANGED <<dcaVars, rebalanceVars, rsiVars>>
  <2>1. baseline = "golden_cross" /\ baseline # "dca"
    BY <1>2 DEF Golden
  <2>2. CASE GoldenBar
    BY <1>2, <2>1, <2>2, GoldenBarKeeps
  <2>3. CASE EndOfStream \/ Liquidated
    BY <1>2, <2>3, EndKeeps
  <2>4. CASE Liquidate
    BY <1>2, <2>1, <2>4, LiquidateKeeps
  <2> QED
    BY <1>2, <2>2, <2>3, <2>4 DEF Golden
<1>3. CASE (Momentum \/ LowVolatility) /\ UNCHANGED <<dcaVars, rsiVars>>
  <2>1. Rebalances /\ baseline # "dca" /\ RebalanceNext
    BY <1>3 DEF Momentum, LowVolatility, Rebalances
  <2>2. CASE RebalanceBar
    BY <1>3, <2>1, <2>2, RebalanceBarKeeps
  <2>3. CASE OnTime
    BY <1>3, <2>3, OnTimeKeeps
  <2>4. CASE NotDue \/ ExitsDone \/ EntriesDone
    BY <1>3, <2>4, PhaseKeeps
  <2>5. CASE ExecuteExit
    BY <1>3, <2>5, ExecuteExitKeeps
  <2>6. CASE AttemptBuy
    BY <1>3, <2>6, AttemptBuyKeeps
  <2>7. CASE RebalanceOnBar
    BY <1>3, <2>7, RebalanceOnBarKeeps
  <2>8. CASE (EndOfStream \/ Liquidated) /\ UNCHANGED rebalanceVars
    BY <1>3, <2>8, EndKeeps
  <2>9. CASE Liquidate /\ UNCHANGED rebalanceVars
    BY <1>3, <2>1, <2>9, LiquidateKeeps
  <2> QED
    BY <2>1, <2>2, <2>3, <2>4, <2>5, <2>6, <2>7, <2>8, <2>9 DEF RebalanceNext
<1>4. CASE Rsi /\ UNCHANGED <<dcaVars, rebalanceVars>>
  <2>1. baseline = "rsi_mr" /\ baseline # "dca"
    BY <1>4 DEF Rsi
  <2>2. CASE StopLoss
    BY <1>4, <2>1, <2>2, StopLossKeeps
  <2>3. CASE TakeProfit
    BY <1>4, <2>1, <2>3, TakeProfitKeeps
  <2>4. CASE Enter
    BY <1>4, <2>1, <2>4, EnterKeeps
  <2>5. CASE Pass
    BY <1>4, <2>1, <2>5, PassKeeps
  <2>6. CASE (EndOfStream \/ Liquidated) /\ UNCHANGED rsiVars
    BY <1>4, <2>6, EndKeeps
  <2>7. CASE Liquidate /\ UNCHANGED rsiVars
    BY <1>4, <2>1, <2>7, LiquidateKeeps
  <2> QED
    BY <1>4, <2>2, <2>3, <2>4, <2>5, <2>6, <2>7 DEF Rsi
<1>5. CASE UNCHANGED vars
  <2> USE <1>5 DEF vars, streamVars, accountVars, bufferVars, dcaVars, rebalanceVars, rsiVars
  <2>1. AccountInv'
    BY DEF PortfolioInv, AccountInv, TypeOK, NoDebt, DcaTypeOK, RebalanceTypeOK, RsiTypeOK
  <2>2. PlaceInv'
    BY DEF PortfolioInv, PlaceInv, Rebalances
  <2>3. BeliefInv' /\ CapKept'
    BY DEF PortfolioInv, BeliefInv, CapKept, Held, Places
  <2>4. MonthInv' /\ OncePerMonth' /\ NoLookAhead'
    BY DEF PortfolioInv, MonthInv, OncePerMonth, NoLookAhead
  <2> QED
    BY <2>1, <2>2, <2>3, <2>4 DEF PortfolioInv
<1> QED
  BY <1>1, <1>2, <1>3, <1>4, <1>5 DEF Next

LEMMA PortfolioInvariant == Spec => []PortfolioInv
BY PortfolioInit, PortfolioStep, PTL DEF Spec

\* Every variable of every backtest keeps its type: amounts are whole, closes
\* are those of bars, nothing is seen before its session.
THEOREM PortfolioTypeCorrect == Spec => []TypeOK
<1>1. PortfolioInv => TypeOK
  BY DEF PortfolioInv, AccountInv
<1> QED
  BY <1>1, PortfolioInvariant, PTL

\* With charges of at most the amount no backtest is ever in debt.
THEOREM PortfoliosNeverInDebt == Spec => []NoDebt
<1>1. PortfolioInv => NoDebt
  BY DEF PortfolioInv, AccountInv
<1> QED
  BY <1>1, PortfolioInvariant, PTL

\* No lot is held that its strategy does not believe to hold: each will be sold.
THEOREM LotsAreBelieved == Spec => []EveryLotIsBelieved
<1>1. PortfolioInv => EveryLotIsBelieved
  BY DEF PortfolioInv, PlaceInv, BeliefInv, EveryLotIsBelieved
<1> QED
  BY <1>1, PortfolioInvariant, PTL

\* The places of the configuration are those of the account, also between the
\* sales and the purchases of a rebalancing.
THEOREM PlacesAreKept == Spec => []CapKept
<1>1. PortfolioInv => CapKept
  BY DEF PortfolioInv
<1> QED
  BY <1>1, PortfolioInvariant, PTL

\* A rebalancing decides and trades at closes of earlier sessions.
THEOREM NeverLooksAhead == Spec => []NoLookAhead
<1>1. PortfolioInv => NoLookAhead
  BY DEF PortfolioInv
<1> QED
  BY <1>1, PortfolioInvariant, PTL

\* dca buys a month once, whatever days its bars lack.
THEOREM MonthIsBoughtOnce == Spec => []OncePerMonth
<1>1. PortfolioInv => OncePerMonth
  BY DEF PortfolioInv
<1> QED
  BY <1>1, PortfolioInvariant, PTL

\* Cash, the cost of the lots and the profit of the trades add up to the
\* starting capital in every backtest, with every amount floored on its own.
THEOREM PortfolioMoneyAddsUp == Spec => []MoneyAddsUp
<1>1. PortfolioInv /\ BooksInv => MoneyAddsUp
  BY BooksAsSum DEF PortfolioInv, AccountInv
<1>2. Spec => []BooksInv
  BY BooksInit, BooksStep, PortfolioInvariant, PTL DEF Spec
<1> QED
  BY <1>1, <1>2, PortfolioInvariant, PTL
=============================================================================
