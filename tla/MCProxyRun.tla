----------------------------- MODULE MCProxyRun -----------------------------
(* Instance of ProxyRun for TLC: the traffic of MCProxy, two handlers.     *)
EXTENDS ProxyRun, MCProxy
============================================================================
