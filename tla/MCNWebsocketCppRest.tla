------------------------ MODULE MCNWebsocketCppRest ------------------------
(***************************************************************************)
(* Values for the constants of NWebsocketCppRest that a .cfg cannot write: *)
(* what the application calls in its callbacks.                            *)
(***************************************************************************)
EXTENDS NWebsocketCppRest

\* No calls in callbacks.
NoCallbackCalls == [t \in EventTypes |-> {}]

\* Reconnects when told of a disconnect.
ReconnectOnClosed == [NoCallbackCalls EXCEPT !["closed"] = {"connect"}]

\* Sends when connected and in answer to messages.
SendInCallbacks ==
  [NoCallbackCalls EXCEPT !["opened"] = {"send"}, !["message"] = {"send"}]

\* Closes the connection when told of an error or a message.
DisconnectInCallbacks ==
  [NoCallbackCalls EXCEPT !["message"] = {"disconnect"}]

=============================================================================
