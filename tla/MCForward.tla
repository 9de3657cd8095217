------------------------------ MODULE MCForward ------------------------------
(* Two layers of three experts of two pages each, top-2 routing, so that one *)
(* pick may be found and the other missing, and one predicted expert.  A     *)
(* layer needs four pages, the prefetch for the next two more, and a failed  *)
(* call leaves at most one transfer behind: seven slots, for twelve pages,   *)
(* are just RoomForPrefetch.  The ledger holds one expert.                   *)
EXTENDS Forward, TLC
CONSTANTS x, y, z, gate, down

MCExperts == {x, y, z}
MCKinds == <<gate, down>>
MCPicks == {p \in MCExperts \X MCExperts : p[1] # p[2]}
MCCandidates == {<<e>> : e \in MCExperts}
MCBatches == {}
MCSymmetry == Permutations(MCExperts)
=============================================================================
