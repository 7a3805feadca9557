-------------------------- MODULE MCVgaController --------------------------
(* Instances of the controller for TLC.                                    *)
EXTENDS VgaController

\* Software sets GO for good, and the memory keeps up: what is left to choose is
\* when each word comes, and when the base is written.
MemoryInTime == settled => InTime'
SteadyNext == SetGo \/ WriteBase \/ ((Clk50Edge \/ PxEdge) /\ MemoryInTime)
\* The clocks run as long as the memory can keep up.
SteadyFairness ==
  WF_vars(Clk50Edge /\ MemoryInTime) /\ WF_vars(PxEdge /\ MemoryInTime)
SteadySpec == Init /\ [][SteadyNext]_vars /\ SteadyFairness
=============================================================================
