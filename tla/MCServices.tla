----------------------------- MODULE MCServices -----------------------------
(* Small instances of LocalService.                                        *)
EXTENDS LocalService, TLC

CONSTANTS network, gateway, transport, connections, hookups

(* gateway depends on network.                                             *)
Pair == (network :> {}) @@ (gateway :> {network})

(* A service with two dependencies that do not depend on each other.       *)
Fork == (network :> {}) @@ (gateway :> {}) @@ (transport :> {network, gateway})

(* The real dependencies of network, gateway, tcp_connections,             *)
(* tcp_transport and (without identity_propagate) p2p_hookups.             *)
Tower == Pair @@ (connections :> {network}) @@ (transport :> {connections, gateway})
           @@ (hookups :> {gateway, transport})

(* After the boot, one service at a time is restarted.                     *)
RestartSpec ==
  /\ Init /\ enabled = Service
  /\ [][\E s \in Service : \/ Handle(s) \/ StartDone(s) \/ StopDone(s)
                           \/ AtRest /\ AllOn /\ Restart(s, FALSE)]_vars
  /\ Fairness
=============================================================================
