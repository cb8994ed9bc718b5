---------------------------- MODULE PeerContract ----------------------------
(***************************************************************************)
(* What the peer mesh promises of its cycles, with nothing of how: no      *)
(* frames, no views, no clocks, no restarts.  A leg trades only after FIRE,*)
(* FIRE comes only after every leg was promised by its node, a refusal is  *)
(* final, and a node gives back only what it filled beyond the other leg.  *)
(* Several cycles may move in one step.                                    *)
(***************************************************************************)
EXTENDS PeerCycles

VARIABLE cycle \* cycle[o]: what happened of o

ContractInit == cycle = [o \in Opps |-> NoCycle]

\* A node promises or refuses its own leg, once, and never after FIRE.
KeepsPromises(o, c, d) ==
    /\ c.promised \subseteq d.promised /\ c.refused \subseteq d.refused
    /\ d.promised \subseteq Legs(o) /\ d.promised \cap d.refused = {}
    /\ c.declared => d.promised = c.promised /\ d.refused = c.refused

Declares(o, c, d) ==
    /\ c.declared => d.declared
    /\ d.declared => d.promised = Legs(o)

\* A leg is sent once, after FIRE.
Trades(o, c, d) ==
    \A n \in Nodes : d.trade[n] # c.trade[n] =>
        /\ ~Traded(c, n) /\ n \in Legs(o)
        /\ d.declared /\ d.trade[n] \in Quantities

\* The excess over the other leg's fill is given back, once, to the unit.
Recovers(o, c, d) ==
    \A n \in Nodes : d.recovered[n] # c.recovered[n] =>
        /\ c.recovered[n] = 0 /\ Traded(d, n)
        /\ \E m \in Legs(o) \ {n} :
             Traded(d, m) /\ d.recovered[n] = d.trade[n] - d.trade[m]

CycleStep(o, c, d) ==
    KeepsPromises(o, c, d) /\ Declares(o, c, d) /\ Trades(o, c, d) /\ Recovers(o, c, d)

ContractNext ==
    /\ cycle' \in [Opps -> CycleType]
    /\ \A o \in Opps : CycleStep(o, cycle[o], cycle'[o])

ContractSpec == ContractInit /\ [][ContractNext]_cycle
=============================================================================
