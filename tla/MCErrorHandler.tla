---------------------------- MODULE MCErrorHandler ----------------------------
(* An instance of ErrorHandler for TLC; its configuration gives every        *)
(* constant a value.                                                         *)
EXTENDS ErrorHandler
=============================================================================
