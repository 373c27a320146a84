-------------------------- MODULE MCRequestPipeline -------------------------
(* Instances of RequestPipeline for TLC. *)
EXTENDS RequestPipeline, TLC

CONSTANTS r1, r2, ip1, w1, theirs, uuid1, uuid2

Uuids == r1 :> uuid1 @@ r2 :> uuid2

Good == [route |-> "sponsor", ip |-> ip1, json |-> TRUE, header |-> NoId, rest |-> TRUE,
         key |-> FALSE, sender |-> [wallet |-> w1, valid |-> TRUE]]

\* Senders: valid, another spelling (0X...) that the guard lower-cases to the
\* same wallet and the DTO's pattern refuses, and none; every route; malformed JSON; an id of the client's own; with and without a key.
EveryKind == {Good,
              [Good EXCEPT !.sender = [wallet |-> w1, valid |-> FALSE]],
              [Good EXCEPT !.sender = NoSender],
              [Good EXCEPT !.json = FALSE],
              [Good EXCEPT !.route = "unknown"],
              [Good EXCEPT !.route = "submit", !.header = theirs],
              [Good EXCEPT !.route = "admin"],
              [Good EXCEPT !.route = "admin", !.key = TRUE]}
=============================================================================
