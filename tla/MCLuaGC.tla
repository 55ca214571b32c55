------------------------------ MODULE MCLuaGC ------------------------------
(***************************************************************************)
(* Programs for LuaGC, each for one part of the collector: the two write   *)
(* barriers, the weak tables of the three modes, upvalues of coroutines,   *)
(* finalizers, full collections, the generational mode and lua_close.      *)
(***************************************************************************)
EXTENDS LuaGC

SmallPrograms ==
  { {"table", "udata", "set"},
    {"weakk", "full", "set"},
    {"weakkv", "full", "set"},
    {"weakv", "string", "set", "fetch"},
    {"thread", "closure", "table"},
    {"table", "finalizer", "set"},
    {"table", "gen", "set"},
    {"table", "full", "finalizer"},
    {"udata", "close", "finalizer"} }

\* A userdata with a uservalue, both with a finalizer.
EnvProgram == { {"table", "udata", "set", "finalizer"} }
============================================================================
