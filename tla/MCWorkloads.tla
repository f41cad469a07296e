---------------------------- MODULE MCWorkloads ----------------------------
(* Two pods, two nodes, and a file with three documents.                   *)
EXTENDS Fleet

CONSTANTS h1, h2
MCHosts == {h1, h2}
=============================================================================
