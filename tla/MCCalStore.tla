----------------------------- MODULE MCCalStore -----------------------------
(* CalStore on instances TLC can enumerate; every constant has its value in *)
(* the configuration.                                                      *)
EXTENDS CalStore
=============================================================================
