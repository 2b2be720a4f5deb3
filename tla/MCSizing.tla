------------------------------ MODULE MCSizing ------------------------------
(* Sizing for TLC: two tickers that move together, apart or against each   *)
(* other, policies with loose, tight and disabled caps, two lenses.        *)
EXTENDS Sizing

MCTickers == <<"A", "B">>

Facts(pe, eps, cum, bar, dd) ==
  [pe |-> pe, pb |-> 0, eps |-> eps, cum |-> cum, bar |-> bar, dd |-> dd, adv |-> 90]

\* A provider that has no bars of A leaves the correlation unmeasured.
Known == Facts(11, 1, 12, 11, 200)
NoData == [Facts(0, 0, None, 0, 0) EXCEPT !.adv = 0]
MCMarkets ==
  {[facts |-> [A |-> m[1], B |-> b], rho |-> m[2], overlap |-> m[3]] :
     m \in {<<Known, -1, 200>>, <<Known, 0, 200>>, <<NoData, 0, 1>>},
     b \in {Facts(40, -1, -15, 70, 800), Facts(18, 2, 20, 27, 300)}}
MCHorizons == {365}

Policy == [risk |-> [kelly |-> 0, pos |-> 0, trade |-> 0, agg |-> 0, equity |-> 0],
           weights |-> NoWeights, ratio |-> 0]
MCPolicies == {Policy,
               [Policy EXCEPT !.risk.pos = -1000, !.risk.agg = -1000],
               [Policy EXCEPT !.risk.trade = 600, !.risk.agg = 400, !.risk.equity = 100]}

MCLenses ==
  {[prior |-> [val |-> 16, qual |-> 10, mom |-> 4], weights |-> [ev |-> 45, risk |-> 25, liq |-> 15, hor |-> 15],
    ratio |-> 25, kelly |-> 0, trade |-> 0, agg |-> 0],
   [prior |-> [val |-> 8, qual |-> 16, mom |-> 6], weights |-> [ev |-> 25, risk |-> 45, liq |-> 15, hor |-> 15],
    ratio |-> 20, kelly |-> 50, trade |-> 75, agg |-> 75]}

Unset == [prior |-> NoPrior, weights |-> NoWeights, ratio |-> 0,
          kelly |-> 0, trade |-> 0, agg |-> 0]
MCOverrides == {[Unset EXCEPT !.kelly = 200, !.trade = 150, !.agg = 200]}

MCConstraints ==
  {[kind |-> "drawdown_limit", limit |-> 500], [kind |-> "drawdown_limit", limit |-> 1000],
   [kind |-> "drawdown_limit", limit |-> 10000],
   [kind |-> "risk_tolerance", tolerance |-> "conservative"],
   [kind |-> "risk_tolerance", tolerance |-> "aggressive"]}

MCMarketSignals ==
  {[kind |-> "thesis_break", ticker |-> t, x |-> 0] : t \in {"", "A", "B"}} \cup
  {[kind |-> "valuation_change", ticker |-> "A", x |-> 300], [kind |-> "earnings", ticker |-> "B", x |-> 200],
   [kind |-> "price_move", ticker |-> "A", x |-> -400], [kind |-> "rumour", ticker |-> "A", x |-> 900]}
=============================================================================
