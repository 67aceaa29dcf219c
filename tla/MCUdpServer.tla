---------------------------- MODULE MCUdpServer ----------------------------
(* A valid request, and an empty datagram, which is answered too.          *)
EXTENDS UdpServer

MCRequests == {[from |-> "c1", byte |-> 48], [from |-> "c1", byte |-> 0]}
CallFaults == {"socket", "bind", "recv", "send"}
BindFault == {"bind"}
=============================================================================
