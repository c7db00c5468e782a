---------------------------- MODULE MCReactorLive ----------------------------
(***************************************************************************)
(* Instantiates Reactor for checking progress under FairSpec (the cfgs     *)
(* give one descriptor and two pool threads): requests to a local and a    *)
(* static handler, an unrouted one, and one whose Content-Length is "-1",  *)
(* which atoi turns into a body that is expected and never arrives.  No    *)
(* symmetry reduction is used, as liveness checking under symmetry is      *)
(* unsound.                                                                *)
(***************************************************************************)
EXTENDS Reactor

CONSTANTS s1, s2, s3, s4, r1, r2, r3

MCStamps == {s1, s2, s3, s4}
MCReqIds == {r1, r2, r3}

MCRequests ==
  { [hdr |-> 1, cl |-> 0, body |-> 0, ka |-> TRUE,  route |-> "local"],
    [hdr |-> 1, cl |-> 1, body |-> 1, ka |-> TRUE,  route |-> "static"],
    [hdr |-> 2, cl |-> 0, body |-> 0, ka |-> FALSE, route |-> "none"],
    [hdr |-> 1, cl |-> -1, body |-> 0, ka |-> FALSE, route |-> "local"] }
=============================================================================
