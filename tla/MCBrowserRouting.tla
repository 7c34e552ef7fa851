-------------------------- MODULE MCBrowserRouting --------------------------
(* BrowserRouting for TLC: its own bounds are enough.                        *)
EXTENDS BrowserRouting, TLC

ManagerSymmetry == Permutations(Managers)
=============================================================================
