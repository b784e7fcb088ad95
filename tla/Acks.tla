--------------------------------- MODULE Acks ---------------------------------
(***************************************************************************)
(* The answers to one message of a consumer with explicit acks: JsMsgImpl  *)
(* of jetstream/src/jsmsg.ts.  The server delivers the message again when  *)
(* it has no answer in time, so that there may be several JsMsgImpl of it  *)
(* in the user's hands, and answers to each on their way.                  *)
(*                                                                         *)
(* What is sent while the connection is down is lost (module Connection);  *)
(* accessors of the message and of its delivery are left out.              *)
(***************************************************************************)
EXTENDS Integers, Sequences, FiniteSets

CONSTANTS
  MaxDeliver,  \* deliveries of the message
  MaxWorking,  \* bound: answers that are not final
  MaxFaults    \* bound: losses of the connection, timeouts

AcksAssumption == {MaxDeliver, MaxWorking, MaxFaults} \subseteq Nat

VARIABLES
  msgs,      \* the JsMsgImpl of each delivery: didAck, and its ackAck()
  linked, c2s, s2c,
  stored,    \* the message at the server: due, out (not answered yet), or settled
  delivered, \* deliveries
  finals,    \* ghost: final answers that were sent for each delivery
  faults

net == <<linked, c2s, s2c>>
vars == <<msgs, net, stored, delivered, finals, faults>>

Deliveries == 1..MaxDeliver
Finals == {"ack", "nak", "term"}
NoMsg == [at |-> "none", didAck |-> FALSE, ackAck |-> "none", working |-> 0]

Init ==
  /\ msgs = [d \in Deliveries |-> NoMsg]
  /\ linked = TRUE /\ c2s = <<>> /\ s2c = <<>>
  /\ stored = "due" /\ delivered = 0
  /\ finals = [d \in Deliveries |-> 0] /\ faults = 0

Fault == faults < MaxFaults /\ faults' = faults + 1
Respond(d, kind, asks) ==
  c2s' = IF linked THEN Append(c2s, [d |-> d, kind |-> kind, asks |-> asks]) ELSE c2s

Read ==
  /\ s2c # <<>> /\ s2c' = Tail(s2c)
  /\ LET m == Head(s2c) IN
     msgs' = CASE m.kind = "msg" -> [msgs EXCEPT ![m.d].at = "held"]
               [] m.kind = "ok" /\ msgs[m.d].ackAck = "pending" ->
                    [msgs EXCEPT ![m.d].ackAck = "true"]
               [] OTHER -> msgs
  /\ UNCHANGED <<linked, c2s, stored, delivered, finals, faults>>

\* doAck(): ack(), nak() and term(), of which only the first is sent.
Answer(d, kind) ==
  /\ msgs[d].at = "held" /\ ~msgs[d].didAck
  /\ msgs' = [msgs EXCEPT ![d].didAck = TRUE]
  /\ Respond(d, kind, FALSE)
  /\ finals' = [finals EXCEPT ![d] = @ + 1]
  /\ UNCHANGED <<linked, s2c, stored, delivered, faults>>

\* working(): is not final.
Working(d) ==
  /\ msgs[d].at = "held" /\ ~msgs[d].didAck /\ msgs[d].working < MaxWorking
  /\ msgs' = [msgs EXCEPT ![d].working = @ + 1]
  /\ Respond(d, "working", FALSE)
  /\ UNCHANGED <<linked, s2c, stored, delivered, finals, faults>>

\* next(): an ack that asks for the next message; it is sent whatever was before.
NextMsg(d) ==
  /\ msgs[d].at = "held" /\ msgs[d].working < MaxWorking
  /\ msgs' = [msgs EXCEPT ![d].working = @ + 1]
  /\ Respond(d, "ack", FALSE)
  /\ UNCHANGED <<linked, s2c, stored, delivered, finals, faults>>

\* ackAck(): false at once when there was a final answer; otherwise it asks the server.
AckAck(d) ==
  /\ msgs[d].at = "held" /\ msgs[d].ackAck = "none"
  /\ \/ /\ msgs[d].didAck
        /\ msgs' = [msgs EXCEPT ![d].ackAck = "false"]
        /\ UNCHANGED <<c2s, finals>>
     \/ /\ ~msgs[d].didAck
        /\ msgs' = [msgs EXCEPT ![d].didAck = TRUE, ![d].ackAck = "pending"]
        /\ Respond(d, "ack", TRUE)
        /\ finals' = [finals EXCEPT ![d] = @ + 1]
  /\ UNCHANGED <<linked, s2c, stored, delivered, faults>>

\* The request timed out: it is rejected, and the message stays answered.
AckAckFails(d) ==
  /\ msgs[d].ackAck = "pending" /\ Fault
  /\ msgs' = [msgs EXCEPT ![d].ackAck = "rejected"]
  /\ UNCHANGED <<net, stored, delivered, finals>>

----------------------------------------------------------------------------
\* The server (external: as the client uses it).  An answer to any delivery counts; when
\* the message is settled, all that is left to do is to tell who asks.
Deliver ==
  /\ stored = "due" /\ delivered < MaxDeliver /\ linked
  /\ stored' = "out" /\ delivered' = delivered + 1
  /\ s2c' = Append(s2c, [kind |-> "msg", d |-> delivered + 1])
  /\ UNCHANGED <<msgs, linked, c2s, finals, faults>>

AckWaitExpires ==
  /\ stored = "out" /\ stored' = "due"
  /\ UNCHANGED <<msgs, net, delivered, finals, faults>>

Serve ==
  /\ linked /\ c2s # <<>> /\ c2s' = Tail(c2s)
  /\ LET m == Head(c2s) IN
     /\ stored' = CASE stored = "settled" -> "settled"
                    [] m.kind \in {"ack", "term"} -> "settled"
                    [] m.kind = "nak" -> "due"
                    [] OTHER -> stored
     /\ s2c' = IF m.asks THEN Append(s2c, [kind |-> "ok", d |-> m.d]) ELSE s2c
  /\ UNCHANGED <<msgs, linked, delivered, finals, faults>>

Disconnect ==
  /\ linked /\ Fault
  /\ linked' = FALSE /\ c2s' = <<>> /\ s2c' = <<>>
  /\ UNCHANGED <<msgs, stored, delivered, finals>>

Reconnect ==
  /\ ~linked /\ linked' = TRUE
  /\ UNCHANGED <<msgs, c2s, s2c, stored, delivered, finals, faults>>

Next ==
  \/ Read \/ Deliver \/ AckWaitExpires \/ Serve \/ Disconnect \/ Reconnect
  \/ \E d \in Deliveries : \/ \E kind \in Finals : Answer(d, kind)
                           \/ Working(d) \/ NextMsg(d) \/ AckAck(d) \/ AckAckFails(d)

Spec == Init /\ [][Next]_vars

----------------------------------------------------------------------------
\* What the user is told by ackAck() is so: true means that the server is done with the
\* message, which it never delivers again, and false that another final answer was sent.  A
\* delivery has one final answer, whichever of its calls are made, and in whatever order.
AckHonest ==
  \A d \in Deliveries :
    /\ msgs[d].ackAck = "true" => stored = "settled"
    /\ msgs[d].ackAck = "false" => finals[d] = 1
    /\ finals[d] <= 1
=============================================================================
