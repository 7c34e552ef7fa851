------------------------- MODULE ConnectionServices -------------------------
(* What goes on beside the connection while one is made: what is asked of   *)
(* the user, and the connection that a launch makes by itself.  They share  *)
(* no state: a connection waits for both, whatever the other does.          *)
EXTENDS SecondaryAuth, NetworkStartup

(* A prompt is the engine's current challenge, and a launch that was paused *)
(* offline is neither forgotten nor resumed behind the user's back (see     *)
(* AuthSafety and StartupSafety).                                           *)
ConnectingSafety == AuthSafety /\ StartupSafety
=============================================================================
