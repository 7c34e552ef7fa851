--------------------------- MODULE TunnelNetstack ---------------------------
(***************************************************************************)
(* VirtualNetstack (independent/src/engine/netstack.rs): the userspace     *)
(* stack's runner, and the two threads that carry packets between it and   *)
(* the gateway's sockets (data_plane.rs).                                  *)
(***************************************************************************)
EXTENDS FiniteSets

VARIABLE stack

Bridges == {"receive", "send"}

StackTypeOK ==
  stack \in [healthy : BOOLEAN, runner : {"running", "aborted", "stopped"}, sockets : {"open", "closed", "stuck"},
             bridges : SUBSET Bridges, sound : BOOLEAN,
             shutdown : {"none", "runner", "bridges", "complete", "incomplete"}]

\* start: `sound` is what a shutdown has met so far.
StackInit == stack = [healthy |-> TRUE, runner |-> "running", sockets |-> "open", bridges |-> Bridges, sound |-> TRUE,
                      shutdown |-> "none"]

\* A thread that ends says so: the gateway closed the data plane, its socket is
\* shut, or (for the sender) the runner dropped its end of the pipe.
BridgeEnds(b) ==
  /\ b \in stack.bridges
  /\ stack' = [stack EXCEPT !.bridges = @ \ {b}, !.healthy = FALSE]

\* The library's runner ends by itself.
RunnerEnds == stack.runner = "running" /\ stack' = [stack EXCEPT !.runner = "stopped"]

\* shutdown: the sockets, then the runner, then the threads, under one deadline.
ShutdownBegins ==
  /\ stack.shutdown = "none"
  /\ \E outcome \in {"closed", "stuck"} :
       stack' = [stack EXCEPT !.healthy = FALSE, !.sockets = outcome, !.sound = outcome = "closed", !.shutdown = "runner",
                              !.runner = IF @ = "running" THEN "aborted" ELSE @]
RunnerAwaited ==
  /\ stack.shutdown = "runner"
  /\ \/ stack' = [stack EXCEPT !.shutdown = "bridges", !.runner = "stopped"]
     \/ stack' = [stack EXCEPT !.shutdown = "bridges", !.sound = FALSE]
AbortTakesEffect == stack.runner = "aborted" /\ stack' = [stack EXCEPT !.runner = "stopped"]

\* join_bridges_before: both, or the deadline.
BridgesAwaited ==
  /\ stack.shutdown = "bridges"
  /\ \/ stack.bridges = {} /\ stack' = [stack EXCEPT !.shutdown = IF stack.sound THEN "complete" ELSE "incomplete"]
     \/ stack' = [stack EXCEPT !.shutdown = "incomplete"]

StackNext == ShutdownBegins \/ RunnerEnds \/ AbortTakesEffect \/ RunnerAwaited \/ BridgesAwaited \/ \E b \in Bridges : BridgeEnds(b)

-----------------------------------------------------------------------------
(* Health is never a leftover: a stack that calls itself healthy has both   *)
(* threads and is not being shut down; and a shutdown that reports success  *)
(* has left nothing running and no socket open, so the logout that follows  *)
(* finds no packet on its way.                                              *)
StackSafety ==
  /\ StackTypeOK
  /\ stack.healthy => stack.bridges = Bridges /\ stack.shutdown = "none" /\ stack.sockets = "open"
  /\ stack.shutdown = "complete" => stack.bridges = {} /\ stack.runner = "stopped" /\ stack.sockets = "closed"
=============================================================================
