---------------------------- MODULE UpcallClient ----------------------------
(***************************************************************************)
(* The client of the upcall server in the guest kernel (dbs_upcall). Its   *)
(* handlers run in the thread of the VMM; each is an operator here from    *)
(* the client before to the set of clients after it.                       *)
(***************************************************************************)
EXTENDS Naturals

CONSTANT SERVER_MAX_RECONNECT_TIME

\* state           "WaitingServer", "WaitingService", "ServiceConnected" or "ServiceBusy";
\*                 ReconnectError is never reached, because set_reconnect does not fail
\* stream          whether there is a stream
\* in_reconnect, timer, reconnect_time   the fields of UpcallEpollHandler
\* callback        whom the result goes to: "none", "cpu" or "dev"
\*
\* UpcallEpollHandler::new has started the connection.
NewClient ==
  [state |-> "WaitingServer", stream |-> TRUE, in_reconnect |-> FALSE, timer |-> FALSE,
   reconnect_time |-> 0, callback |-> "none"]

is_ready(c) == c.state = "ServiceConnected"

\* What send_request leaves when the write succeeds.
send_request(c, cb) == [c EXCEPT !.state = "ServiceBusy", !.callback = cb]

\* After too many attempts the timer stays off, with in_reconnect set.
set_reconnect(c) ==
  IF c.in_reconnect THEN c
  ELSE LET d == [c EXCEPT !.in_reconnect = TRUE, !.timer = FALSE] IN
       IF c.reconnect_time > SERVER_MAX_RECONNECT_TIME THEN d
       ELSE [d EXCEPT !.timer = TRUE, !.reconnect_time = @ + 1]

\* Bug: the callback is called and kept.
Lost_KeepsCallback(c) == [set_reconnect([c EXCEPT !.state = "WaitingServer"]) EXCEPT !.stream = FALSE]

\* The tail of handle_stream_event: without a connection the stream is dropped and
\* the callback is told of the reset.
Lost(c) == [set_reconnect([c EXCEPT !.state = "WaitingServer"])
              EXCEPT !.stream = FALSE, !.callback = "none"]

\* What the stream event does: [client, told], told being who is called back with
\* what. msg is what the stream yields: "ok", "fail" for a response with an error
\* code, "bad" for an error, the end of the stream or a malformed message.
handle_stream_event(c, msg) ==
  LET reset == {[client |-> Lost(c), told |-> <<c.callback, "UpcallReset">>]}
      to(st) == {[client |-> [c EXCEPT !.state = st], told |-> <<"none", "none">>]}
  IN CASE c.state = "ServiceConnected" -> to(c.state)
       [] c.state # "ServiceConnected" /\ msg = "bad" -> reset
       [] c.state = "WaitingServer" /\ msg # "bad" -> to("WaitingService")
       [] c.state = "WaitingService" /\ msg # "bad" -> to("ServiceConnected")
       [] OTHER -> {[client |-> [c EXCEPT !.state = "ServiceConnected", !.callback = "none"],
                     told |-> <<c.callback, IF msg = "ok" THEN "Success" ELSE "Failed">>]}

\* The timer fired: a new connection is started, or the next attempt is scheduled.
handle_reconnect_event(c) ==
  LET d == [c EXCEPT !.in_reconnect = FALSE, !.timer = FALSE]
  IN {[d EXCEPT !.stream = TRUE], set_reconnect(d)}
=============================================================================
