--------------------------- MODULE MCAdminSessions ---------------------------
(***************************************************************************)
(* Two tabs of different browsers.                                         *)
(***************************************************************************)
EXTENDS AdminSessions, TLC

CONSTANTS t1, t2, b1, b2

MCBrowserOf == (t1 :> b1) @@ (t2 :> b2)
=============================================================================
