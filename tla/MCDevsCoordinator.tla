-------------------------- MODULE MCDevsCoordinator --------------------------
(* A flat model of three atomic models a, b and an executive e, plus one    *)
(* model n that only the executive can create.  a and b are coupled both   *)
(* ways (so confluent bags and requests arise), e drives a.  One timed view *)
(* observes a every time unit and one event view observes b.               *)
EXTENDS DevsCoordinator

CONSTANTS a, b, e, n, tv, ev, fv

MCConn == {<<e, a>>, <<a, b>>, <<b, a>>, <<n, b>>}
MCPeriod == [v \in TimedViews |-> 1]
MCInitObs == {<<tv, a>>, <<ev, b>>}
=============================================================================
