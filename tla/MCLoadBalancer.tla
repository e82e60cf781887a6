---------------------------- MODULE MCLoadBalancer ----------------------------
(***************************************************************************)
(* Small instances of LoadBalancer: one server is enough for its reports   *)
(* to race each other, two for health checks to mix them up.               *)
(***************************************************************************)
EXTENDS LoadBalancer

CONSTANTS c1, c2

OneClient == {c1}
TwoClients == {c1, c2}

\* The udp_port of the entries of g_servers_template, and two servers built
\* alike: UDP_PORT is a constant of chatServerJson.c.
OwnPorts == <<5015, 5001>>
SamePorts == <<5001, 5001>>
OnePort == <<5001>>

===============================================================================
