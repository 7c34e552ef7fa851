--------------------------- MODULE MCSwitchEngine ----------------------------
(* ContextSwitch, the engine's process, and its proxy with the resolver and   *)
(* the netstack, for TLC.  They share no state: the switch knows an engine by *)
(* its lease alone.  So a behaviour is one of `part`, chosen at the start,    *)
(* while the others rest where they began.                                    *)
EXTENDS MCContextSwitch, EngineSession, LocalProxy

VARIABLE part

\* What the resolver's and the netstack's own parts leave alone.
clientVars == <<policy, listener, conn>>

PartsInit == /\ part \in {"switch", "engine", "proxy", "names", "netstack"}
             /\ Init /\ EngineInit /\ ProxyInit
             \* A part that rests does so in one of its initial states.
             /\ part # "switch" => /\ view.active = CHOOSE p \in Profiles : TRUE
                                  /\ view.options = CHOOSE o \in Options : TRUE
             /\ part # "engine" => main.receiver
             /\ part # "proxy" => policy = "none"

PartsNext ==
  /\ UNCHANGED part
  /\ \/ part = "switch" /\ MCNext /\ UNCHANGED <<engineVars, proxyVars>>
     \/ part = "engine" /\ EngineNext /\ UNCHANGED <<vars, proxyVars>>
     \/ part = "proxy" /\ ProxyNext /\ UNCHANGED <<vars, engineVars>>
     \/ part = "names" /\ NamesNext /\ UNCHANGED <<vars, engineVars, clientVars, stack>>
     \/ part = "netstack" /\ StackNext /\ UNCHANGED <<vars, engineVars, clientVars, nameVars>>

PartsSpec == PartsInit /\ [][PartsNext]_<<part, vars, engineVars, proxyVars>>

(* The engine's local services: the proxy with its clients, the resolver,    *)
(* also where more lookups meet than the proxy part has clients, and the     *)
(* netstack.                                                                 *)
LocalSafety == NamesSafety /\ StackSafety /\ (part # "names" => ProxySafety)
=============================================================================
