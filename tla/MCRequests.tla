----------------------------- MODULE MCRequests -----------------------------
(* Instances of Requests for TLC: a service may ask for 2 s or for an hour. *)
EXTENDS Requests

SomeWaits == {0, 4, 7200}
=============================================================================
