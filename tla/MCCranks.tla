------------------------------ MODULE MCCranks ------------------------------
(* Instances of Cranks for TLC.                                            *)
EXTENDS Cranks, TLC

=============================================================================
