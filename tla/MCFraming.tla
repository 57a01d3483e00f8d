------------------------------- MODULE MCFraming -------------------------------
(***************************************************************************)
(* Games at the numbers where an encoding changes its length: 0, 127, 128, *)
(* the largest value of a resource, and every building of the catalogue on *)
(* offer; up to three keys, which may replace each other in the mailbox.   *)
(***************************************************************************)
EXTENDS Framing

Game(type, count, money, offer) ==
    [buildings |-> type :> count, offer |-> offer, value |-> [MONEY |-> money, CO2 |-> 0]]

Offer(id, type) == <<[id |-> id, type |-> type, ticks |-> Catalog[type].ticks]>>

Offered == {Game(t, 128, 1000000000, Offer(127, t)) : t \in BuildingPool}

NoOffer == Game("ROAD_IMPROVEMENT", 0, 127, << >>)

MCGameScripts ==
    {<<g>> : g \in Offered}
    \union {<<Game("POWER_PLANT", 1, 16384, Offer(0, "AIRPORT_EXPANSION")), NoOffer>>}

MCKeyScripts == [1 .. 3 -> {"a", "r", "s"}]
=============================================================================
