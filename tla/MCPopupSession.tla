--------------------------- MODULE MCPopupSession ---------------------------
(* Small instances of the word-select popup.                               *)
EXTENDS PopupSession
=============================================================================
