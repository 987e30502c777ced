--------------------------- MODULE MessageChannel ---------------------------
(***************************************************************************)
(* What the garage application's network stack promises to the code that   *)
(* handles requests: it takes whole requests off each connection, in the   *)
(* order they were sent and none twice; it may lose some; and an answer    *)
(* goes to the connection that asked, or nowhere.                          *)
(***************************************************************************)
EXTENDS Naturals

CONSTANTS Conns, MaxSent

NoRequest == [conn |-> "NONE"]
Requests == [conn : Conns, index : 1 .. MaxSent]

VARIABLES
  sent,       \* number of requests sent whole on each connection
  received,   \* index of the last one handled on each
  pending,    \* the request being answered
  reply       \* the request whose answer each connection got last

vars == <<sent, received, pending, reply>>

Init ==
  /\ sent = [c \in Conns |-> 0]
  /\ received = [c \in Conns |-> 0]
  /\ pending = NoRequest
  /\ reply = [c \in Conns |-> NoRequest]

Send(c) ==
  /\ \E n \in sent[c] + 1 .. MaxSent : sent' = [sent EXCEPT ![c] = n]
  /\ UNCHANGED <<received, pending, reply>>

\* Requests between the last one handled and this one are lost.
Handle(c) ==
  /\ pending = NoRequest
  /\ \E i \in received[c] + 1 .. sent[c] :
        /\ received' = [received EXCEPT ![c] = i]
        /\ pending' \in {NoRequest, [conn |-> c, index |-> i]}
  /\ UNCHANGED <<sent, reply>>

Answer ==
  /\ pending # NoRequest
  /\ reply' = [reply EXCEPT ![pending.conn] = pending]
  /\ pending' = NoRequest
  /\ UNCHANGED <<sent, received>>

LoseAnswer ==
  /\ pending # NoRequest
  /\ pending' = NoRequest
  /\ UNCHANGED <<sent, received, reply>>

Next == Answer \/ LoseAnswer \/ \E c \in Conns : Send(c) \/ Handle(c)

Spec == Init /\ [][Next]_vars
=============================================================================
