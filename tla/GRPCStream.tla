------------------------------ MODULE GRPCStream ------------------------------
(***************************************************************************)
(* A server-streaming call, in the way the clients and servers of src/api  *)
(* use one: the handler of the server sends messages and returns; the      *)
(* client receives them in order, then learns how the call ended; it may   *)
(* cancel the call, and the connection may be lost.  There is room for     *)
(* Window messages on the way, after which Send blocks.  The library       *)
(* itself, google.golang.org/grpc, is not in the repository.               *)
(***************************************************************************)
EXTENDS Naturals, Sequences

CONSTANT Window

ASSUME WindowAssumption == Window \in Nat \ {0}

VARIABLES handler,     \* "none" yet, "running" or "returned"
          wire,        \* messages that were sent and not received
          status,      \* what the client learns in the end: "open" yet, "ok" or "error"
          cancelled    \* the context of the call has ended, at the client

streamVars == <<handler, wire, status, cancelled>>

NoStream == handler = "none" /\ wire = <<>> /\ status = "open" /\ cancelled = FALSE

(* The stream is set up and the handler starts.                             *)
Call ==
    /\ handler = "none"
    /\ handler' = "running"
    /\ UNCHANGED <<wire, status, cancelled>>

Gone == cancelled \/ status = "error"

Send(m) ==
    /\ handler = "running" /\ ~Gone
    /\ Len(wire) < Window
    /\ wire' = Append(wire, m)
    /\ UNCHANGED <<handler, status, cancelled>>

(* Send returns an error and so does the handler.                           *)
SendFails ==
    /\ handler = "running" /\ Gone
    /\ handler' = "returned"
    /\ UNCHANGED <<wire, status, cancelled>>

(* The handler returns, with an error or without.                           *)
Finish(outcome) ==
    /\ handler = "running"
    /\ handler' = "returned"
    /\ status' = IF status = "open" THEN outcome ELSE status
    /\ UNCHANGED <<wire, cancelled>>

(* The connection is lost, with some of the messages that are on the way.  *)
Disconnect ==
    /\ handler # "none" /\ status # "error" /\ ~cancelled
    /\ status' = "error"
    /\ \E n \in 0..Len(wire) : wire' = SubSeq(wire, 1, n)
    /\ UNCHANGED <<handler, cancelled>>

(* The process of the handler is gone.                                      *)
ServerCrash ==
    /\ handler = "running"
    /\ handler' = "returned"
    /\ status' = "error"
    /\ \E n \in 0..Len(wire) : wire' = SubSeq(wire, 1, n)
    /\ UNCHANGED cancelled

Receive ==
    /\ wire # <<>> /\ ~cancelled
    /\ wire' = Tail(wire)
    /\ UNCHANGED <<handler, status, cancelled>>

(* Recv returns io.EOF, or another error.                                   *)
AtEOF == wire = <<>> /\ status = "ok" /\ ~cancelled
AtError == cancelled \/ (wire = <<>> /\ status = "error")

Cancel ==
    /\ cancelled' = TRUE
    /\ wire' = <<>>
    /\ UNCHANGED <<handler, status>>
=============================================================================
