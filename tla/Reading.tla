-------------------------------- MODULE Reading --------------------------------
(***************************************************************************)
(* What a transport reads: peekInfo() and the iterators of NodeTransport,  *)
(* DenoTransport and WsTransport, which the protocol handler takes its     *)
(* frames from.  A transport first reads alone, until it has the INFO of   *)
(* the server, and what it has read it gives to the protocol again.        *)
(*                                                                         *)
(* The bytes that the server sends are numbers, in order; INFO is the first*)
(* InfoLen of them.  The network cuts them where it likes.  How a transport*)
(* is dialled and closed is Transports.                                    *)
(***************************************************************************)
EXTENDS Integers, Sequences, SequencesExt

CONSTANTS
  Kinds,     \* a subset of {"node", "deno", "ws"}
  InfoLen,   \* bytes of INFO
  Length     \* bound: bytes that the server sends

ReadingAssumption ==
  Kinds \subseteq {"node", "deno", "ws"} /\ InfoLen \in Nat \ {0} /\ Length \in Nat

VARIABLES
  kind,
  read,      \* bytes that the socket has given
  phase,     \* "peeking", "ready" or "failed"
  yields,    \* frames read and not taken; `buf` of DenoTransport while it peeks
  inbound,   \* the buffers of peekInfo() of DenoTransport: how many bytes of the one that is
             \* a view of buf, and what was copied
  signal,    \* resolved
  loop,      \* the iterator: "top", "wait", "giving" or "ended", and the frames it has taken
  done,
  given      \* bytes given to the protocol

vars == <<kind, read, phase, yields, inbound, signal, loop, done, given>>

Bytes(from, n) == [i \in 1..n |-> from + i]

Init ==
  /\ kind \in Kinds
  /\ read = 0 /\ phase = "peeking" /\ yields = <<>> /\ inbound = [view |-> 0, copied |-> <<>>]
  /\ signal = FALSE /\ loop = [at |-> "top", frames |-> <<>>] /\ done = FALSE /\ given = <<>>

----------------------------------------------------------------------------
\* extractProtocolMessage(): what comes before the end of INFO, if it is there.
HasMessage(bs) == Contains(bs, InfoLen)
IsInfo(bs) == IsPrefix(Bytes(0, InfoLen), bs)

\* A frame while the transport peeks: NodeTransport and WsTransport keep it, and look at all.
Peek ==
  /\ kind \in {"node", "ws"} /\ phase = "peeking" /\ ~done
  /\ \E n \in 1..(Length - read) :
       /\ read' = read + n /\ yields' = Append(yields, Bytes(read, n))
       /\ LET all == FlattenSeq(yields') IN
          IF ~HasMessage(all) THEN UNCHANGED <<phase, signal>>
          ELSE /\ phase' = IF IsInfo(all) THEN "ready" ELSE "failed"
               /\ signal' = (phase' = "ready")
  /\ UNCHANGED <<kind, inbound, loop, done, given>>

\* read() of DenoTransport writes into buf, from its start.
Over(new, old) == new \o SubSeq(old, Len(new) + 1, Len(old))

\* peekInfo() of DenoTransport: the buffers keep what was read without a copy, until there are
\* two of them (fill() and peek() of DataBuffer).
DenoPeek ==
  /\ kind = "deno" /\ phase = "peeking" /\ ~done
  /\ \E n \in 1..(Length - read) :
       LET new == Bytes(read, n)
           buf == Over(new, FlattenSeq(yields))
           all == inbound.copied \o SubSeq(buf, 1, inbound.view) \o new
           first == inbound.view = 0 /\ inbound.copied = <<>> IN
       /\ read' = read + n
       /\ inbound' = IF first THEN [view |-> n, copied |-> <<>>] ELSE [view |-> 0, copied |-> all]
       /\ IF ~HasMessage(all) THEN UNCHANGED phase /\ yields' = <<buf>>
          ELSE /\ phase' = IF IsInfo(all) THEN "ready" ELSE "failed"
               /\ yields' = <<all>>
  /\ UNCHANGED <<kind, signal, loop, done, given>>

\* A frame of a connection: DenoTransport reads one when its iterator asks for it.
Frame ==
  /\ phase = "ready" /\ ~done
  /\ kind = "deno" => loop.at = "wait"
  /\ \E n \in 1..(Length - read) :
       /\ read' = read + n /\ yields' = Append(yields, Bytes(read, n))
  /\ signal' = TRUE
  /\ UNCHANGED <<kind, phase, inbound, loop, done, given>>

----------------------------------------------------------------------------
\* iterate(): it ends, it waits if there is nothing, or it takes all frames.
Ends == done /\ (kind = "ws" \/ (kind = "deno" /\ yields = <<>>))
Waits == yields = <<>> /\ (kind = "deno" \/ ~signal)

Top ==
  /\ phase = "ready" /\ loop.at = "top"
  /\ IF Ends THEN loop' = [loop EXCEPT !.at = "ended"] /\ UNCHANGED yields
     ELSE IF Waits THEN loop' = [loop EXCEPT !.at = "wait"] /\ UNCHANGED yields
     ELSE loop' = [at |-> "giving", frames |-> yields] /\ yields' = <<>>
  /\ UNCHANGED <<kind, read, phase, inbound, signal, done, given>>

\* The signal is resolved, or DenoTransport has read.
Wakes ==
  /\ loop.at = "wait" /\ IF kind = "deno" THEN yields # <<>> ELSE signal
  /\ loop' = [at |-> "giving", frames |-> yields] /\ yields' = <<>>
  /\ UNCHANGED <<kind, read, phase, inbound, signal, done, given>>

\* The protocol has a frame, and may take its time before it asks for the next.
Give ==
  /\ loop.at = "giving" /\ loop.frames # <<>>
  /\ given' = given \o Head(loop.frames) /\ loop' = [loop EXCEPT !.frames = Tail(@)]
  /\ UNCHANGED <<kind, read, phase, yields, inbound, signal, done>>

\* All are given: frames that came meanwhile are taken next, or there is a new signal.
Refill ==
  /\ loop.at = "giving" /\ loop.frames = <<>>
  /\ loop' = [loop EXCEPT !.at = IF done THEN "ended" ELSE "top"]
  /\ signal' = (signal /\ (done \/ yields # <<>> \/ kind = "deno"))
  /\ UNCHANGED <<kind, read, phase, yields, inbound, done, given>>

\* The transport is closed.
Close ==
  /\ ~done /\ done' = TRUE
  /\ UNCHANGED <<kind, read, phase, yields, inbound, signal, loop, given>>

Next == Peek \/ DenoPeek \/ Frame \/ Top \/ Wakes \/ Give \/ Refill \/ Close

\* The protocol asks for the next frame.
Fairness == WF_vars(Top) /\ WF_vars(Wakes) /\ WF_vars(Give) /\ WF_vars(Refill)

Spec == Init /\ [][Next]_vars /\ Fairness

----------------------------------------------------------------------------
\* The protocol is given what the server sent, INFO included, in its order, nothing twice
\* and nothing left out.
GivenInOrder == given = Bytes(0, Len(given))

\* What a transport that stays open has read, the protocol is given.
NothingDue == phase = "ready" => done \/ Len(given) >= read
=============================================================================
