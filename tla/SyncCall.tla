------------------------------ MODULE SyncCall ------------------------------
(***************************************************************************)
(* What the API command gateway promises to the threads that call          *)
(* apicmdgw_send (gw/apicmdgw.h): a call is issued under a request number  *)
(* of its own, returns once, and when it waits for a response and succeeds *)
(* the data are the modem's answer to that request.  Any failure may be    *)
(* returned instead; nothing is said of requests numbered by others (the   *)
(* echo task, error indications).                                          *)
(***************************************************************************)
EXTENDS Naturals

CONSTANTS
  Clients,  \* the calling threads
  MaxCmds   \* bound: request numbers

VARIABLES
  phase,    \* of each client: idle, busy or returned
  req,      \* its request number
  waits,    \* whether it wants a response
  outcome,  \* what the call returned
  data,     \* the request whose answer it got
  issued,   \* request numbers used, by clients or others
  answered  \* requests the modem answered

vars == <<phase, req, waits, outcome, data, issued, answered>>

Failures == {"EPERM", "EIO", "ENOSPC", "ETIMEDOUT", "ECONNABORTED"}

Init ==
  /\ phase = [c \in Clients |-> "idle"]
  /\ req = [c \in Clients |-> 0]
  /\ waits = [c \in Clients |-> FALSE]
  /\ outcome = [c \in Clients |-> "NONE"]
  /\ data = [c \in Clients |-> 0]
  /\ issued = 0
  /\ answered = {}

Start(c) ==
  /\ phase[c] = "idle" /\ issued < MaxCmds
  /\ issued' = issued + 1
  /\ phase' = [phase EXCEPT ![c] = "busy"]
  /\ req' = [req EXCEPT ![c] = issued + 1]
  /\ \E w \in BOOLEAN : waits' = [waits EXCEPT ![c] = w]
  /\ UNCHANGED <<outcome, data, answered>>

\* A number is used by somebody else.
OtherStart ==
  /\ issued < MaxCmds
  /\ issued' = issued + 1
  /\ UNCHANGED <<phase, req, waits, outcome, data, answered>>

Answer ==
  /\ \E n \in 1..issued : n \notin answered /\ answered' = answered \cup {n}
  /\ UNCHANGED <<phase, req, waits, outcome, data, issued>>

Succeed(c) ==
  /\ phase[c] = "busy"
  /\ waits[c] => req[c] \in answered
  /\ phase' = [phase EXCEPT ![c] = "returned"]
  /\ outcome' = [outcome EXCEPT ![c] = "OK"]
  /\ \/ waits[c] /\ data' = [data EXCEPT ![c] = req[c]]
     \/ ~waits[c] /\ \E n \in 0..MaxCmds : data' = [data EXCEPT ![c] = n]
  /\ UNCHANGED <<req, waits, issued, answered>>

Fail(c) ==
  /\ phase[c] = "busy"
  /\ phase' = [phase EXCEPT ![c] = "returned"]
  /\ \E f \in Failures : outcome' = [outcome EXCEPT ![c] = f]
  /\ UNCHANGED <<req, waits, data, issued, answered>>

Leave(c) ==
  /\ phase[c] = "returned"
  /\ phase' = [phase EXCEPT ![c] = "idle"]
  /\ outcome' = [outcome EXCEPT ![c] = "NONE"]
  /\ data' = [data EXCEPT ![c] = 0]
  /\ req' = [req EXCEPT ![c] = 0]
  /\ waits' = [waits EXCEPT ![c] = FALSE]
  /\ UNCHANGED <<issued, answered>>

Next ==
  \/ OtherStart \/ Answer
  \/ \E c \in Clients : Start(c) \/ Succeed(c) \/ Fail(c) \/ Leave(c)

Spec == Init /\ [][Next]_vars

=============================================================================
