------------------------------ MODULE MCDrain ------------------------------
(***************************************************************************)
(* Drain by itself: two workers, the owners 3 and 4, the UI thread 5, and  *)
(* one job on one of four routes.                                          *)
(***************************************************************************)
EXTENDS Drain

MCJobs == {"j"}
MCRoutes == {<<1, 2, 3>>, <<2, 4, 5>>, <<3, 4, 2>>, <<5>>}
=============================================================================
