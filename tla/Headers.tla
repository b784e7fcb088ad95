-------------------------------- MODULE Headers --------------------------------
(***************************************************************************)
(* The headers of a message: MsgHdrsImpl of core/src/headers.ts;           *)
(* traceHeaders() of core/src/protocol.ts, which adds those of a trace to  *)
(* the ones that a caller publishes; and buildPublishHeaders() of          *)
(* jetstream/src/jsclient.ts, which adds those of the options.             *)
(*                                                                         *)
(* A key is a name and how it is spelled: "canon" is the canonical MIME    *)
(* form, "lower" another; "bad" has a character that no name may have.  A  *)
(* value is one of a small set; "crlf" has a line break in it.  The map    *)
(* keeps its entries in order.  Encoded headers are lines: the status and  *)
(* one for each value.                                                     *)
(***************************************************************************)
EXTENDS Integers, Sequences, FiniteSets, SequencesExt

CONSTANTS
  Values,    \* values of headers
  Matches,   \* how the user looks keys up: "exact", "canonical" or "ignoreCase"
  MaxLines   \* bound: values in the headers

HeadersAssumption == Matches \subseteq {"exact", "canonical", "ignoreCase"} /\ MaxLines \in Nat

VARIABLES
  hdrs,      \* of the caller: entries of key and values, and the code and description
  options,   \* traceDestination and traceOnly of the last publish, and its msgID
  wire,      \* the headers that the last publish sent
  received   \* what its receiver decoded

vars == <<hdrs, options, wire, received>>

Spellings == {"canon", "lower", "bad"}
Key(n, s) == [name |-> n, spelling |-> s]
UserKeys == {Key("a", s) : s \in Spellings} \cup {Key("Nats-Trace-Dest", "canon")}
Empty == [entries |-> <<>>, code |-> 0, description |-> ""]
\* headers(): a code and a description, or neither.
Statuses == {<<0, "">>, <<408, "timeout">>}
Lines(h) == FoldLeft(LAMBDA n, e : n + Len(e.values), 0, h.entries)

----------------------------------------------------------------------------
\* canonicalMIMEHeaderKey(); a key that is "bad" throws.
Canonical(k) == Key(k.name, "canon")

\* findKeys(): the keys that match, in order.
Matching(h, k, m) ==
  LET same(e) == CASE m = "exact" -> e.key = k
                   [] m = "canonical" -> e.key = Canonical(k)
                   [] OTHER -> e.key.name = k.name IN
  SelectSeq(h.entries, same)

\* delete()
Without(h, k, m) ==
  LET gone == {e.key : e \in ToSet(Matching(h, k, m))} IN
  [h EXCEPT !.entries = SelectSeq(@, LAMBDA e : e.key \notin gone)]

\* append(): in the first entry that matches, or a new one.
With(h, k, v, m) ==
  LET asked == IF m = "canonical" THEN Canonical(k) ELSE k
      there == Matching(h, asked, m)
      key == IF there # <<>> THEN there[1].key ELSE asked
      at == {j \in DOMAIN h.entries : h.entries[j].key = key} IN
  IF at = {} THEN [h EXCEPT !.entries = Append(@, [key |-> key, values |-> <<v>>])]
  ELSE [h EXCEPT !.entries[CHOOSE j \in at : TRUE].values = Append(@, v)]

\* values(): those of all the keys that match.
ValuesOf(h, k, m) ==
  LET es == Matching(h, k, m) IN FlattenSeq([j \in DOMAIN es |-> es[j].values])

----------------------------------------------------------------------------

\* toString(), encode(): nothing at all, or the status, if it has a description, and a line
\* for each value.
Encoded(h) ==
  IF h.entries = <<>> /\ h.code = 0 THEN <<>>
  ELSE <<IF h.code > 0 /\ h.description # "" THEN <<h.code, h.description>> ELSE <<0, "">>>>
       \o FlattenSeq([j \in DOMAIN h.entries |->
            [i \in DOMAIN h.entries[j].values |-> <<h.entries[j].key, h.entries[j].values[i]>>]])

\* decode(): the status, and each line is appended.
Decoded(lines) ==
  IF lines = <<>> THEN Empty
  ELSE FoldLeft(LAMBDA h, l : With(h, l[1], l[2], "exact"),
                [Empty EXCEPT !.code = lines[1][1], !.description = lines[1][2]], Tail(lines))

\* set()
Set(h, k, v) == With(Without(h, k, "exact"), k, v, "exact")

\* traceHeaders(): the caller's headers if there is no trace, or a copy with the trace.
TraceHeaders(h, o) ==
  LET only == IF o.only THEN Set(h, Key("Nats-Trace-Only", "canon"), "true") ELSE h IN
  IF o.dest # "" THEN Set(only, Key("Nats-Trace-Dest", "canon"), o.dest) ELSE only

\* Faulty: an id that is there already stays.
BuildPublishHeadersOnce(h, o) ==
  IF o.id = "" \/ Matching(h, Key("Nats-Msg-Id", "canon"), "exact") # <<>> THEN h
  ELSE Set(h, Key("Nats-Msg-Id", "canon"), o.id)

\* buildPublishHeaders(), for one option of many: it is set in the caller's own headers.
BuildPublishHeaders(h, o) ==
  IF o.id = "" THEN h ELSE Set(h, Key("Nats-Msg-Id", "canon"), o.id)

----------------------------------------------------------------------------
Init ==
  /\ \E s \in Statuses : hdrs = [Empty EXCEPT !.code = s[1], !.description = s[2]]
  /\ options = [dest |-> "", only |-> FALSE, id |-> ""]
  /\ wire = Empty /\ received = Empty

\* append(); a key or a value that is not valid throws.
AppendValue ==
  /\ \E k \in UserKeys, v \in Values, m \in Matches :
       k.spelling # "bad" /\ v # "crlf" /\ hdrs' = With(hdrs, k, v, m)
  /\ Lines(hdrs) < MaxLines
  /\ UNCHANGED <<options, wire, received>>

\* set(): deletes, then appends: one that throws for its value has deleted.
SetValue ==
  /\ \E k \in UserKeys, v \in Values, m \in Matches :
       /\ k.spelling # "bad"
       /\ hdrs' = IF v = "crlf" THEN Without(hdrs, k, m) ELSE With(Without(hdrs, k, m), k, v, m)
  /\ Lines(hdrs) < MaxLines
  /\ UNCHANGED <<options, wire, received>>

\* delete()
DeleteKey ==
  /\ \E k \in UserKeys, m \in Matches :
       (m = "canonical" => k.spelling # "bad") /\ hdrs' = Without(hdrs, k, m)
  /\ UNCHANGED <<options, wire, received>>

\* publish(), with or without a trace, and the receiver.
Publish ==
  /\ \E o \in [dest : {"", "d"}, only : BOOLEAN, id : {""}] :
       /\ options' = o
       /\ wire' = TraceHeaders(hdrs, o) /\ received' = Decoded(Encoded(wire'))
  /\ UNCHANGED hdrs

\* publish() of a JetStream client, whose headers the caller keeps.
PublishJs ==
  /\ \E o \in [dest : {""}, only : {FALSE}, id : {"", "m1", "m2"}] :
       /\ options' = o /\ hdrs' = BuildPublishHeaders(hdrs, o)
       /\ wire' = hdrs' /\ received' = Decoded(Encoded(wire'))

Next == AppendValue \/ SetValue \/ DeleteKey \/ Publish \/ PublishJs

Spec == Init /\ [][Next]_vars

----------------------------------------------------------------------------
\* The receiver reads what the publisher set, all the values in their order and the status,
\* the trace that was asked for, and the id of this publish rather than of an earlier one.
ReceivedAsSet ==
  /\ received = wire
  /\ options.dest # "" =>
       ValuesOf(received, Key("Nats-Trace-Dest", "canon"), "exact") = <<options.dest>>
  /\ options.id # "" =>
       ValuesOf(received, Key("Nats-Msg-Id", "canon"), "exact") = <<options.id>>

\* Who looks keys up without their case has one key for a name, whichever way he spells it;
\* and who uses the canonical form has no other.
OneKeyEach ==
  /\ Matches = {"ignoreCase"} =>
       \A i, j \in DOMAIN hdrs.entries :
         hdrs.entries[i].key.name = hdrs.entries[j].key.name => i = j
  /\ Matches = {"canonical"} =>
       \A i \in DOMAIN hdrs.entries : hdrs.entries[i].key.spelling = "canon"
=============================================================================
