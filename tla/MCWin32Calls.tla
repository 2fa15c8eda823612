---------------------------- MODULE MCWin32Calls ----------------------------
(* Small bounds for Win32Calls. *)
EXTENDS Win32Calls
=============================================================================
