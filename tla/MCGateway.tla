----------------------------- MODULE MCGateway -----------------------------
(* Instances of Gateway for TLC.                                           *)
EXTENDS GatewayService, TLC

(* Clients, envelopes and workerMsgs are interchangeable.                  *)
Symmetry ==
  Permutations(Clients) \cup Permutations(Envelopes) \cup Permutations(Msgs)
=============================================================================
