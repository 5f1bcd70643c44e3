---------------------------- MODULE MCHttpFetch ----------------------------
(* TLC instance of HttpFetch: a pool that is smaller than the list of      *)
(* entries and larger than what one host lets through.                     *)
EXTENDS HttpFetch

(* The caller has every result: the only place where the run may stop. *)
Finished == collected = EntryCount

MCSpec == Init /\ [][Next \/ (Finished /\ UNCHANGED vars)]_vars /\ Fairness
=============================================================================
