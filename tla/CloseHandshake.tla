--------------------------- MODULE CloseHandshake ---------------------------
(***************************************************************************)
(* What the event loop promises about closing a connection, as the server *)
(* sees it on the socket (spec sections 3, 4.5 and 7):                     *)
(*                                                                         *)
(*   - the socket only ever receives more bytes, and a frame once sent    *)
(*     stays sent;                                                         *)
(*   - the loop enters Closing only when our whole close is on the socket, *)
(*     never leaves it, and sends nothing more while in it;                *)
(*   - it ends with ServerClosedConnection only once the whole close-ok is *)
(*     on the socket, and with ClientClosedConnection only from Closing;   *)
(*   - once it has ended, nothing changes.                                 *)
(*                                                                         *)
(* Connection implements this specification under the mapping in          *)
(* Connection.tla (CloseHandshakeSpec).                                    *)
(***************************************************************************)
EXTENDS Naturals

CONSTANT Errors      \* the errors main_loop may end with

VARIABLES
  closeSent,    \* our whole close frame is on the socket
  closeOkSent,  \* a whole close-ok frame is on the socket
  closing,      \* the state machine is Closing
  outcome,      \* Running, or the error the loop ended with
  sentLen       \* how many bytes the socket has received

vars == <<closeSent, closeOkSent, closing, outcome, sentLen>>

Running == "Running"

ServerClosed == "ServerClosedConnection"

ClientClosed == "ClientClosedConnection"

\* The socket receives more bytes, possibly completing a close or close-ok.
Sends ==
  /\ closeSent' \in BOOLEAN /\ closeSent => closeSent'
  /\ closeOkSent' \in BOOLEAN /\ closeOkSent => closeOkSent'
  /\ sentLen' \in Nat /\ sentLen' >= sentLen

Quiet == UNCHANGED <<closeSent, closeOkSent, sentLen>>

Init ==
  /\ closeSent = FALSE
  /\ closeOkSent = FALSE
  /\ closing = FALSE
  /\ outcome = Running
  /\ sentLen = 0

\* A write outside Closing.
Send ==
  /\ outcome = Running /\ ~closing
  /\ Sends
  /\ UNCHANGED <<closing, outcome>>

\* The write that completes our close enters Closing.
EnterClosing ==
  /\ outcome = Running /\ ~closing
  /\ Sends
  /\ closeSent' = TRUE
  /\ closing' = TRUE
  /\ UNCHANGED outcome

\* The write that completes the close-ok ends the loop.
EndServerClosed ==
  /\ outcome = Running /\ ~closing
  /\ Sends
  /\ closeOkSent' = TRUE
  /\ outcome' = ServerClosed
  /\ UNCHANGED closing

\* The server's close-ok, read in Closing, ends the loop.
EndClientClosed ==
  /\ outcome = Running /\ closing
  /\ outcome' = ClientClosed
  /\ Quiet
  /\ UNCHANGED closing

\* Any other error ends the loop; a failing write may have sent some bytes.
EndError ==
  /\ outcome = Running
  /\ outcome' \in Errors \ {ServerClosed, ClientClosed}
  /\ Sends
  /\ closing => Quiet
  /\ UNCHANGED closing

Next ==
  \/ Send
  \/ EnterClosing
  \/ EndServerClosed
  \/ EndClientClosed
  \/ EndError

Spec == Init /\ [][Next]_vars

=============================================================================
