-------------------------- MODULE MCBacktestEngine --------------------------
(* Bars of one price each, and one that touches stop and take alike.       *)
EXTENDS BacktestEngine

Flat(price) == [high |-> price, low |-> price, close |-> price]

MCShapes == {Flat(90), Flat(100), Flat(110), [high |-> 110, low |-> 90, close |-> 100]}
=============================================================================
