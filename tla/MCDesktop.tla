------------------------------- MODULE MCDesktop -------------------------------
(* The desktop application on every platform: two starts of the proxy, a     *)
(* ring of two records and three records each, two commands.                 *)
EXTENDS Desktop
================================================================================
