----------------------------- MODULE MCLuaStack -----------------------------
(***************************************************************************)
(* A frame with a local a of a unique name, two locals x, and a register   *)
(* without a name; its function has an upvalue u of a unique name, and one *)
(* that shares its name with the locals x.                                 *)
(***************************************************************************)
EXTENDS LuaStack

FrameNames    == {"a", "x", "u"}
FrameLocals   == <<"a", "x", "x", None>>
FrameUpvalues == <<"u", "x">>
FrameValues   == {"yes", "no"}

=============================================================================
