---------------------------- MODULE MCEinoTools ----------------------------
(* Small instances of EinoTools for TLC: EinoTools.cfg, EinoTools_invoke.cfg *)
(* and EinoTools_found.cfg.                                                *)
EXTENDS EinoTools

(* One tool of each kind that can run, and a list convTools refuses. *)
TwoLists == {<<"plain", "enhanced", "unknown">>, <<"plain", "streamOnly", "plain">>}
OnePlainList == {<<"plain", "enhanced", "plain">>}
=============================================================================
