------------------------------ MODULE MCScanLoad ------------------------------
(* ScanLoad as it is: its only parameter is withRetry's three attempts.     *)
EXTENDS ScanLoad
===============================================================================
