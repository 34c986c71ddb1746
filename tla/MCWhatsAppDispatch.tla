------------------------- MODULE MCWhatsAppDispatch -------------------------
(* Two senders and a pool of one or two threads, for checking
   WhatsAppDispatch with TLC. *)
EXTENDS WhatsAppDispatch

CONSTANTS ana, bo

(* bo sends the last turn only. *)
MostlyAna == [t \in Turns |-> IF t = LastTurn THEN bo ELSE ana]
=============================================================================
