----------------------------- MODULE MCNetStack -----------------------------
(* One or two requests, responses of a one-unit header and a short body.    *)
EXTENDS NetStack

MCWindows  == {"kmain", "browser"}
\* A page that fits, an error, one cut by the buffer, a header too large.
MCResponses ==
  {[hdr |-> 1, body |-> 2, status |-> 200], [hdr |-> 1, body |-> 0, status |-> 404],
   [hdr |-> 1, body |-> 5, status |-> 200], [hdr |-> 3, body |-> 0, status |-> 200]}
\* The request stays clear of the wrap of the sequence numbers.
MCIsns == {3}
MCNobody   == {}
MCNeighbours == {"host1"}
=============================================================================
