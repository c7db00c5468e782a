------------------------------ MODULE MCReactor ------------------------------
(***************************************************************************)
(* Instantiates Reactor for TLC: two client descriptors, a pool of three   *)
(* threads (one static, two local), buffers of three bytes and a           *)
(* local-task ceiling of zero, so that overflow, 503 and descriptor reuse  *)
(* all happen within a few steps.                                          *)
(***************************************************************************)
EXTENDS ReactorConnection, TLC

CONSTANTS s1, s2, s3, s4, r1, r2, r3

MCStamps == {s1, s2, s3, s4}
MCReqIds == {r1, r2, r3}

(* The request shapes clients send (each declares in cl the content-length *)
(* it sends): a keep-alive request to a local                              *)
(* handler, a static request with a one-byte body, a two-byte header block *)
(* with a body that does not fit the three-byte input buffer, an unrouted  *)
(* request that closes, one the parser rejects, and one routed to a       *)
(* JSON_RPC_TASK handler, which the reactor closes.                        *)
MCRequests ==
  { [hdr |-> 1, cl |-> 0, body |-> 0, ka |-> TRUE,  route |-> "local"],
    [hdr |-> 1, cl |-> 1, body |-> 1, ka |-> TRUE,  route |-> "static"],
    [hdr |-> 2, cl |-> 1, body |-> 1, ka |-> TRUE,  route |-> "local"],
    [hdr |-> 2, cl |-> 0, body |-> 0, ka |-> FALSE, route |-> "none"],
    [hdr |-> 1, cl |-> 0, body |-> 0, ka |-> FALSE, route |-> "malformed"],
    [hdr |-> 1, cl |-> 0, body |-> 0, ka |-> TRUE,  route |-> "jsonrpc"] }

Symm == Permutations(MCStamps) \cup Permutations(MCReqIds)
=============================================================================
