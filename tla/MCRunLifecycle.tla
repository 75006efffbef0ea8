-------------------------- MODULE MCRunLifecycle ---------------------------
(* RunLifecycle on a small instance.                                       *)
EXTENDS RunLifecycle
=============================================================================
