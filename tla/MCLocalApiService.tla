------------------------- MODULE MCLocalApiService -------------------------
(* Small instances of the local API service.                               *)
EXTENDS LocalApiService
=============================================================================
