---------------------------- MODULE MCNtySocket ----------------------------
EXTENDS NtySocket

Both(hooks) == hooks \X BOOLEAN
Sending == Both({"recv", "send", "connect", "sendto", "recvfrom"})
Serving == Both({"accept"}) \cup {<<"recv", FALSE>>, <<"send", TRUE>>}

Symmetry == Permutations(Co) \cup Permutations(Streams)
=============================================================================
