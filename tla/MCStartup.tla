----------------------------- MODULE MCStartup -----------------------------
(***************************************************************************)
(* Finite values for Startup: numbers on both sides of a power of two that *)
(* stands for the width of the variable they are stored in.                *)
(***************************************************************************)
EXTENDS Startup

MCTimeoutModulus == 8
MCTimeouts == {1, 8, 9}
MCHandleModulus == 8
MCHandles == {0, 3, 8}
=============================================================================
