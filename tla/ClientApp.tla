----------------------------- MODULE ClientApp -----------------------------
(***************************************************************************)
(* The client application: the polling thread (udp_client.py), the HTTP    *)
(* server of the main thread (http_server.py, sensors.py) and the strings  *)
(* they share, each behind its own lock (atomic.py).                       *)
(*                                                                         *)
(* The transport is not in this module: Ask says what the thread sends,    *)
(* Stored(a) that it took the datagram a from its socket.                  *)
(***************************************************************************)
EXTENDS SensorConversions

CONSTANTS
  NumRows,      \* the range of both loops (4)
  Ports,        \* ports the operating system gives to sockets
  ClientFaults  \* "socket": socket.socket() may raise

VARIABLES
  poll,   \* the thread: "sleep", "send", "wait" (in recvfrom), "dead"
  port,   \* of client_socket
  asking, \* sensor_id of the polling loop
  shown,  \* read_data: NotRead, or what the last answer stored there said
  row,    \* sens_id of a page being made; NumRows: no page is being made
  page    \* the last page: "none", "complete", "failed"

pollVars == <<poll, port, asking>>
pageVars == <<row, page>>
clientVars == <<pollVars, shown, pageVars>>

Rows == 0 .. NumRows - 1
NotRead == [about |-> -1, value |-> -1, boot |-> 0]

ClientTypeOK ==
  /\ poll \in {"sleep", "send", "wait", "dead"}
  /\ port \in Ports
  /\ asking \in Rows
  /\ DOMAIN shown = Rows
  /\ row \in 0 .. NumRows
  /\ page \in {"none", "complete", "failed"}

ClientInit ==
  /\ poll = "sleep" /\ port \in Ports /\ asking = 0
  /\ shown = [s \in Rows |-> NotRead]
  /\ row = NumRows /\ page = "none"

-----------------------------------------------------------------------------
(* The polling thread.                                                     *)

\* Mutant: one socket is used for all runs.
StartRunOldSocket(p) ==
  /\ poll = "sleep" /\ poll' = "send"
  /\ UNCHANGED <<port, asking, shown, pageVars>>

\* A run begins with a socket of its own.
StartRun(p) ==
  /\ poll = "sleep" /\ poll' = "send"
  /\ port' = p
  /\ UNCHANGED <<asking, shown, pageVars>>

\* Without a socket the finally block raises a second time: client_socket has
\* no value there, and the thread ends.
ThreadDies ==
  /\ poll = "sleep" /\ "socket" \in ClientFaults
  /\ poll' = "dead"
  /\ UNCHANGED <<port, asking, shown, pageVars>>

Ask ==
  /\ poll = "send" /\ poll' = "wait"
  /\ UNCHANGED <<port, asking, shown, pageVars>>

\* The timeout, or an error of sendto or recvfrom, ends the run.
RunFails ==
  /\ poll \in {"send", "wait"} /\ poll' = "sleep" /\ asking' = 0
  /\ UNCHANGED <<port, shown, pageVars>>

\* Whatever arrives is stored for the sensor asked for last.
Stored(a) ==
  /\ poll = "wait"
  /\ shown' = [shown EXCEPT ![asking] = a]
  /\ IF asking + 1 \in Rows
     THEN poll' = "send" /\ asking' = asking + 1
     ELSE poll' = "sleep" /\ asking' = 0
  /\ UNCHANGED <<port, pageVars>>

-----------------------------------------------------------------------------
(* The HTTP server: one request at a time, one sensor after the other.     *)

StartPage ==
  /\ row = NumRows
  /\ row' = 0 /\ page' = "none"
  /\ UNCHANGED <<pollVars, shown>>

\* Of the conversions only their failure matters here; a string without digits is
\* not converted.
NotConvertible(s) == shown[s] # NotRead /\ ~Convertible(s, shown[s].value)

MakeRow ==
  /\ row \in Rows
  /\ IF NotConvertible(row)
     THEN row' = NumRows /\ page' = "failed"
     ELSE row' = row + 1 /\ page' = IF row + 1 = NumRows THEN "complete" ELSE page
  /\ UNCHANGED <<pollVars, shown>>

PageSteps == StartPage \/ MakeRow

\* Every page that is asked for is made (README.md of the client, line 21).
PagesComplete == page # "failed"
=============================================================================
