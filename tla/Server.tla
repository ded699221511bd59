------------------------------- MODULE Server -------------------------------
(***************************************************************************)
(* App.Run: a goroutine that listens, the select over its error and the    *)
(* signals of the operating system, and the graceful shutdown with its     *)
(* deadline.  http.Server is modelled by its documentation: Shutdown       *)
(* closes the listener and waits for the connections in use, Close cuts    *)
(* them off, and ListenAndServe then returns ErrServerClosed.              *)
(***************************************************************************)
EXTENDS Naturals, Sequences

CONSTANTS
  Requests,    (* the requests that clients send                           *)
  Hangs,       (* TRUE iff a handler may never return                      *)
  MaxSignals   (* bound on the signals that are sent                       *)

ASSUME ServerConstants == Hangs \in BOOLEAN /\ MaxSignals \in Nat

VARIABLES
  main,          (* the goroutine that called Run                          *)
  returned,      (* what Run has returned                                  *)
  serving,       (* the goroutine of ListenAndServe                        *)
  listenErr,     (* what ListenAndServe has returned                       *)
  serverErrors,  (* the channels, each of capacity 1                       *)
  shutdown,
  closing,       (* Shutdown has been called                               *)
  expired,       (* the deadline of Shutdown is past                       *)
  conn,          (* what has become of each request                        *)
  signals

serverVars == <<main, returned, serving, listenErr, serverErrors, shutdown, closing,
                expired, conn, signals>>
runVars == <<main, returned, closing>>
listenVars == <<serving, listenErr>>

InUse(r) == conn[r] = "active"

(* Mistaken forms of the definitions below: Close in place of Shutdown, no *)
(* buffer for the error, no deadline, a Shutdown by a goroutine of its own *)
(* while Run still selects.                                                *)
NotAwaited == TRUE
Unbuffered == main = "select" /\ serverErrors = << >>
NoDeadline == FALSE
ShutdownAside ==
  /\ main = "select"
  /\ shutdown # << >>
  /\ shutdown' = << >>
  /\ closing' = TRUE
  /\ UNCHANGED <<main, returned, listenVars, serverErrors, expired, conn, signals>>

----------------------------------------------------------------------------
(* The goroutine of ListenAndServe. *)

(* a.setup() *)
Setup ==
  /\ serving = "setup"
  /\ serving' = "listen"
  /\ UNCHANGED <<runVars, listenErr, serverErrors, shutdown, expired, conn, signals>>

Listen ==
  /\ serving = "listen" /\ ~closing
  /\ serving' = "accept"
  /\ UNCHANGED <<runVars, listenErr, serverErrors, shutdown, expired, conn, signals>>

ListenFails ==
  /\ serving = "listen"
  /\ serving' = "sending"
  /\ listenErr' \in IF closing THEN {"closed", "failed"} ELSE {"failed"}
  /\ UNCHANGED <<runVars, serverErrors, shutdown, expired, conn, signals>>

AcceptFails ==
  /\ serving = "accept" /\ ~closing
  /\ serving' = "sending"
  /\ listenErr' = "failed"
  /\ UNCHANGED <<runVars, serverErrors, shutdown, expired, conn, signals>>

ServeEnds ==
  /\ serving = "accept"
  /\ closing
  /\ serving' = "sending"
  /\ listenErr' = "closed"
  /\ UNCHANGED <<runVars, serverErrors, shutdown, expired, conn, signals>>

RoomForError == Len(serverErrors) < 1

SendError ==
  /\ serving = "sending"
  /\ RoomForError
  /\ serverErrors' = Append(serverErrors, listenErr)
  /\ serving' = "ended"
  /\ UNCHANGED <<runVars, listenErr, shutdown, expired, conn, signals>>

----------------------------------------------------------------------------
(* Run. *)

(* A signal that finds the channel full is dropped. *)
Notified == IF shutdown = << >> THEN <<"signal">> ELSE shutdown

Signal ==
  /\ signals < MaxSignals
  /\ signals' = signals + 1
  /\ shutdown' = Notified
  /\ UNCHANGED <<runVars, listenVars, serverErrors, expired, conn>>

Return(what) == main' = "returned" /\ returned' = what

SelectError ==
  /\ main = "select"
  /\ serverErrors # << >>
  /\ serverErrors' = << >>
  /\ Return("serverError")
  /\ UNCHANGED <<listenVars, shutdown, closing, expired, conn, signals>>

SelectSignal ==
  /\ main = "select"
  /\ shutdown # << >>
  /\ shutdown' = << >>
  /\ main' = "shutdown"
  /\ closing' = TRUE
  /\ UNCHANGED <<returned, listenVars, serverErrors, expired, conn, signals>>

Deadline ==
  /\ main = "shutdown" /\ ~expired
  /\ expired' = TRUE
  /\ UNCHANGED <<runVars, listenVars, serverErrors, shutdown, conn, signals>>

Drained == \A r \in Requests : ~InUse(r)

ShutdownDone ==
  /\ main = "shutdown"
  /\ Drained
  /\ Return("nil")
  /\ UNCHANGED <<listenVars, serverErrors, shutdown, closing, expired, conn, signals>>

PastDeadline == expired

(* srv.Shutdown has given up, and srv.Close cuts off what is in use. *)
ShutdownFails ==
  /\ main = "shutdown"
  /\ PastDeadline /\ ~Drained
  /\ conn' = [r \in Requests |-> IF InUse(r) THEN "cut" ELSE conn[r]]
  /\ Return("notGraceful")
  /\ UNCHANGED <<listenVars, serverErrors, shutdown, closing, expired, signals>>

----------------------------------------------------------------------------
(* Clients and handlers. *)

Connect(r) ==
  /\ conn[r] = "none"
  /\ conn' = [conn EXCEPT ![r] = IF serving = "accept" /\ ~closing THEN "active" ELSE "refused"]
  /\ UNCHANGED <<runVars, listenVars, serverErrors, shutdown, expired, signals>>

HandlerReturns(r) ==
  /\ InUse(r)
  /\ conn' = [conn EXCEPT ![r] = "answered"]
  /\ UNCHANGED <<runVars, listenVars, serverErrors, shutdown, expired, signals>>

----------------------------------------------------------------------------
ServerInit ==
  /\ main = "select" /\ returned = "none"
  /\ serving = "setup" /\ listenErr = "none"
  /\ serverErrors = << >> /\ shutdown = << >>
  /\ closing = FALSE /\ expired = FALSE
  /\ conn = [r \in Requests |-> "none"]
  /\ signals = 0

Serve == Setup \/ Listen \/ ListenFails \/ ServeEnds \/ SendError
Run == SelectError \/ SelectSignal \/ ShutdownDone \/ ShutdownFails

ServerNext ==
  \/ Serve \/ AcceptFails \/ Run \/ Deadline \/ Signal
  \/ \E r \in Requests : Connect(r) \/ HandlerReturns(r)

ServerSpec == ServerInit /\ [][ServerNext]_serverVars

(* The scheduler runs both goroutines and the runtime its timer; a handler *)
(* returns only if it does not hang.                                       *)
FairSpec ==
  /\ ServerSpec
  /\ WF_serverVars(Serve) /\ WF_serverVars(Run) /\ WF_serverVars(Deadline)
  /\ ~Hangs => \A r \in Requests : WF_serverVars(HandlerReturns(r))

----------------------------------------------------------------------------
(* Properties. *)

(* Every variable keeps its shape, the channels their capacity. *)
TypeOK ==
  /\ main \in {"select", "shutdown", "returned"}
  /\ returned \in {"none", "nil", "serverError", "notGraceful"}
  /\ serving \in {"setup", "listen", "accept", "sending", "ended"}
  /\ listenErr \in {"none", "closed", "failed"}
  /\ serverErrors \in {<< >>, <<"closed">>, <<"failed">>}
  /\ shutdown \in {<< >>, <<"signal">>}
  /\ closing \in BOOLEAN /\ expired \in BOOLEAN
  /\ conn \in [Requests -> {"none", "refused", "active", "answered", "cut"}]
  /\ signals \in 0..MaxSignals

(* If Run returns nil no request it accepted was lost, and there is none   *)
(* that it still owes an answer.                                           *)
NilIsGraceful ==
  returned = "nil" => \A r \in Requests : conn[r] \notin {"active", "cut"}

(* A shutdown that was asked for is not reported as an error of the server:*)
(* ErrServerClosed never reaches the select.                               *)
ShutdownIsNoError == returned = "serverError" => listenErr = "failed"

(* After a signal Run returns, even if a handler hangs. *)
RunReturns == shutdown # << >> ~> main = "returned"

(* The goroutine of ListenAndServe ends, though nobody reads its error any *)
(* more once Run is past its select.                                       *)
ServingEnds == serving = "sending" ~> serving = "ended"
=============================================================================
