------------------------- MODULE MCDownloadService -------------------------
(* The download service with a few ids, two requests and two hubs.          *)
EXTENDS DownloadService
============================================================================
