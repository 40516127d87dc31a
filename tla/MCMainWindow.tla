--------------------------- MODULE MCMainWindow ---------------------------
(* The window with two models and a few presses of its buttons.             *)
EXTENDS MainWindow
===========================================================================
