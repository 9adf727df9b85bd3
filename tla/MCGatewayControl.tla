---------------------------- MODULE MCGatewayControl ----------------------------
(* Instances of GatewayControl for TLC. *)
EXTENDS GatewayControl, TLC

CONSTANT firstEndpoint

SharedNetwork == [c \in Clients |-> "net"]

\* Two scenarios in one instance.  Two gateways at one endpoint, clients that get
\* one grant for each, one command of the admin at a time and saves that succeed; or
\* the default gateway alone, which moves between endpoints, and saves and loads that
\* fail.
TwoGateways ==
    /\ \A r \in reports : r.ep = firstEndpoint
    /\ \A c \in Clients, g \in Gateways : issued[c][g] <= 1
    /\ stored = gatewayAllow
    /\ Cardinality({g \in Gateways : admin[g] # "no"}) <= 1
    /\ \A g \in Gateways : gatewaySeen[g] # None => gatewaySeen[g].alive
MovingGateway ==
    /\ \A g \in Gateways \ {Default} :
        /\ gatewayAllow[g] = None /\ gatewayNodes[g] = None
        /\ gatewaySeen[g] = None /\ stored[g] = None
        /\ \A r \in reports : r.gw # g
    /\ policyRev <= MaxRev - 1
Scenarios == TwoGateways \/ MovingGateway
================================================================================
