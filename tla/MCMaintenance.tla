--------------------------- MODULE MCMaintenance ---------------------------
(***************************************************************************)
(* The user switches between two lists, so every reconcile removes one       *)
(* address and adds the other.  "flaky" also fails checks, is leased and     *)
(* removed; "steady" is only ever put in and taken out by the list.          *)
(***************************************************************************)
EXTENDS Maintenance

MCAddr == {"flaky", "steady"}
MCContents == {{"flaky"}, {"steady"}}
=============================================================================
