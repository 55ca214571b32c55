------------------------------ MODULE MCOpLua ------------------------------
(***************************************************************************)
(* Finite values for the constants of OpLua and CppChannel.                *)
(***************************************************************************)
EXTENDS OpLua, MCLuaCSP
============================================================================
