------------------------------- MODULE Parser -------------------------------
(***************************************************************************)
(* class Parser of core/src/parser.ts: the bytes of the server arrive in   *)
(* buffers that are cut anywhere; what the parser needs of a buffer once it *)
(* is used up it copies.  A byte is a string of one character.             *)
(***************************************************************************)
EXTENDS Integers, Sequences, FiniteSets, SequencesExt

CONSTANTS
  Streams,   \* what the server sends: sequences of commands
  MaxSize    \* MAX_64MB

CR == "\r"
NL == "\n"
Blank == {" ", "\t"}
DigitOf == [d \in {"0", "1", "2", "3", "4", "5", "6", "7", "8", "9"} |->
              CASE d = "0" -> 0 [] d = "1" -> 1 [] d = "2" -> 2 [] d = "3" -> 3 [] d = "4" -> 4
                [] d = "5" -> 5 [] d = "6" -> 6 [] d = "7" -> 7 [] d = "8" -> 8 [] d = "9" -> 9]

VARIABLES
  stream,   \* what is sent (its commands are the reference)
  rest,     \* the bytes that are not in a buffer yet
  buf, i,   \* the buffer that is parsed, and the index in it
  p,        \* the fields of Parser
  events    \* what was pushed to the dispatcher

vars == <<stream, rest, buf, i, p, events>>

----------------------------------------------------------------------------
\* The protocol (external): how a command is written
None == <<>>
Line(word, arg) == word \o (IF arg = None THEN <<>> ELSE <<" ">> \o arg) \o <<CR, NL>>
Written(c) ==
  Line(c.word, c.arg) \o (IF c.kind = "MSG" THEN c.payload \o <<CR, NL>> ELSE <<>>)
\* What the parser is to make of it
Meant(c) ==
  IF c.kind = "MSG" THEN [kind |-> "MSG", fields |-> c.fields, data |-> c.payload]
  ELSE [kind |-> c.kind, fields |-> None, data |-> c.arg]

Bytes(s) == FlattenSeq([n \in 1..Len(s) |-> Written(s[n])])

Init ==
  /\ stream \in Streams /\ rest = Bytes(stream)
  /\ buf = <<>> /\ i = 1
  /\ p = [state |-> "START", word |-> <<>>, as |-> 1, drop |-> 0, hdr |-> -1,
          ma |-> None, size |-> 0, argBuf |-> None, copying |-> FALSE, msgBuf |-> None,
          filling |-> FALSE, failed |-> FALSE]
  /\ events = <<>>

----------------------------------------------------------------------------
\* The words of the protocol, in upper case
MsgWords == {<<"M", "S", "G">>, <<"H", "M", "S", "G">>}
OkWord == <<"+", "O", "K">>
ErrWord == <<"-", "E", "R", "R">>
PingPong == {<<"P", "I", "N", "G">>, <<"P", "O", "N", "G">>}
InfoWord == <<"I", "N", "F", "O">>
WithArg == MsgWords \cup {ErrWord, InfoWord}
Words == WithArg \cup PingPong \cup {OkWord}

Upper(b) == CASE b = "p" -> "P" [] b = "i" -> "I" [] b = "n" -> "N" [] b = "g" -> "G"
              [] b = "m" -> "M" [] b = "s" -> "S" [] OTHER -> b
KindOf(w) == CASE w \in MsgWords -> "MSG" [] w = OkWord -> "OK" [] w = ErrWord -> "ERR"
               [] w = InfoWord -> "INFO" [] w[2] = "I" -> "PING" [] OTHER -> "PONG"

Push(kind, fields, data) ==
  events' = Append(events, [kind |-> kind, fields |-> fields, data |-> data])

b0 == buf[i]
Parsing(state) == i <= Len(buf) /\ p.state = state /\ ~p.failed
Step == i' = i + 1
Fail == p' = [p EXCEPT !.failed = TRUE] /\ UNCHANGED <<i, events>>

\* A byte of a word: the words that begin so are still possible, or it is an error.
Word ==
  LET w == Append(p.word, Upper(b0)) IN
  /\ Parsing("START")
  /\ IF \E x \in Words : IsPrefix(w, x)
     THEN /\ p' = [p EXCEPT !.word = w, !.ma = None, !.hdr = IF w[1] = "H" THEN 0 ELSE -1,
                     !.state = IF w \in WithArg THEN "BLANK"
                               ELSE IF w \in Words THEN "LINE" ELSE "START"]
          /\ Step /\ UNCHANGED events
     ELSE Fail

\* After a word without an argument anything is skipped, to the end of the line.
EndOfWord ==
  /\ Parsing("LINE") /\ Step
  /\ IF b0 = NL THEN /\ Push(KindOf(p.word), None, None)
                     /\ p' = [p EXCEPT !.state = "START", !.word = <<>>, !.drop = 0]
     ELSE UNCHANGED <<p, events>>

\* Blanks, one at least, and the argument begins.
BlankBytes ==
  /\ Parsing("BLANK") \/ Parsing("BLANKS")
  /\ IF b0 \in Blank THEN p' = [p EXCEPT !.state = "BLANKS"] /\ Step /\ UNCHANGED events
     ELSE IF p.state = "BLANK" THEN Fail
     ELSE p' = [p EXCEPT !.state = "ARG", !.as = i] /\ Step /\ UNCHANGED events

\* processMsgArgs(), processHeaderMsgArgs() and protoParseInt()
Separators == Blank \cup {CR, NL}
Tokens(arg) ==
  LET starts == {k \in 1..Len(arg) : arg[k] \notin Separators
                                     /\ (k = 1 \/ arg[k - 1] \in Separators)}
      end(k) == Min({j \in k..(Len(arg) + 1) :
                       j > Len(arg) \/ arg[j] \in Separators}) - 1
      order == SetToSortSeq(starts, <) IN
  [n \in 1..Len(order) |-> SubSeq(arg, order[n], end(order[n]))]

ParseInt(t, max) ==
  IF Len(t) > 15 \/ \E k \in 1..Len(t) : t[k] \notin DOMAIN DigitOf THEN -1
  ELSE LET n == FoldLeft(LAMBDA acc, d : acc * 10 + DigitOf[d], 0, t) IN
       IF n > max THEN -1 ELSE n

MsgArgs(arg, hdr) ==
  LET ts == Tokens(arg)
      tail == IF hdr >= 0 THEN 2 ELSE 1      \* the sizes: of headers, and of all
      size == ParseInt(ts[Len(ts)], MaxSize)
      hsize == IF hdr >= 0 THEN ParseInt(ts[Len(ts) - 1], MaxSize) ELSE -1
      sid == ParseInt(ts[2], 99) IN
  IF Len(ts) \notin {2 + tail, 3 + tail} THEN [ok |-> FALSE]
  ELSE [ok |-> sid >= 0 /\ size >= 0 /\ (hdr >= 0 => hsize >= 0 /\ hsize <= size),
        size |-> size,
        fields |-> [subject |-> ts[1], sid |-> sid, hdr |-> hsize, size |-> size,
                    reply |-> IF Len(ts) = 3 + tail THEN ts[3] ELSE None]]

\* The argument of INFO, -ERR, MSG or HMSG, to the end of the line; of a message the
\* index is moved to the end of its payload, which may be beyond this buffer.
ArgOf == IF p.copying THEN p.argBuf ELSE SubSeq(buf, p.as, i - 1 - p.drop)

Arg ==
  /\ Parsing("ARG")
  /\ IF b0 = CR THEN p' = [p EXCEPT !.drop = 1] /\ Step /\ UNCHANGED events
     ELSE IF b0 # NL
     THEN p' = [p EXCEPT !.argBuf = IF p.copying THEN Append(@, b0) ELSE @]
          /\ Step /\ UNCHANGED events
     ELSE IF p.word \notin MsgWords
     THEN /\ Push(KindOf(p.word), None, ArgOf) /\ Step
          /\ p' = [p EXCEPT !.state = "START", !.word = <<>>, !.drop = 0, !.as = i + 1,
                            !.argBuf = None, !.copying = FALSE]
     ELSE IF ~MsgArgs(ArgOf, p.hdr).ok THEN Fail
     ELSE LET m == MsgArgs(ArgOf, p.hdr) IN
          /\ p' = [p EXCEPT !.state = "PAYLOAD", !.drop = 0, !.as = i + 1, !.ma = m.fields,
                            !.size = m.size]
          /\ i' = i + 1 + m.size /\ UNCHANGED events

\* The byte after the payload delivers the message; before that bytes are copied, when
\* the payload began in a buffer that is used up.
Payload ==
  LET avail == Len(buf) - i + 1
      toCopy == Min({p.size - Len(p.msgBuf), avail})
      data == IF p.filling THEN p.msgBuf ELSE SubSeq(buf, p.as, i - 1)
      complete == IF p.filling THEN Len(p.msgBuf) >= p.size ELSE i - p.as >= p.size IN
  /\ Parsing("PAYLOAD")
  /\ IF complete
     THEN /\ Push("MSG", p.ma, data) /\ Step
          /\ p' = [p EXCEPT !.state = "END", !.argBuf = None, !.copying = FALSE,
                            !.msgBuf = None, !.filling = FALSE]
     ELSE /\ p.filling
          /\ p' = [p EXCEPT !.msgBuf = @ \o SubSeq(buf, i, i + toCopy - 1)]
          /\ i' = i + toCopy /\ UNCHANGED events

EndOfMsg ==
  /\ Parsing("END") /\ Step /\ UNCHANGED events
  /\ p' = IF b0 = NL THEN [p EXCEPT !.state = "START", !.word = <<>>, !.drop = 0, !.as = i + 1]
          ELSE p

\* What is kept of a buffer that is used up: of an argument what came so far, without
\* the CR; of a message its arguments, and what came of its payload.
Keep(q) ==
  [q EXCEPT
    !.argBuf = IF q.state = "ARG" /\ ~q.copying THEN SubSeq(buf, q.as, i - 1 - q.drop)
               ELSE @,
    !.copying = @ \/ q.state \in {"ARG", "PAYLOAD"},
    !.msgBuf = IF q.state = "PAYLOAD" /\ ~q.filling THEN SubSeq(buf, q.as, Len(buf)) ELSE @,
    !.filling = @ \/ q.state = "PAYLOAD"]

\* The next buffer, of any length
NextBuffer ==
  /\ i > Len(buf) /\ rest # <<>> /\ ~p.failed
  /\ p' = IF buf = <<>> THEN p ELSE Keep(p)
  /\ \E n \in 1..Len(rest) :
       buf' = SubSeq(rest, 1, n) /\ rest' = SubSeq(rest, n + 1, Len(rest))
  /\ i' = 1
  /\ UNCHANGED <<stream, events>>

Next ==
  \/ NextBuffer
  \/ /\ Word \/ EndOfWord \/ BlankBytes \/ Arg \/ Payload \/ EndOfMsg
     /\ UNCHANGED <<stream, rest, buf>>

Spec == Init /\ [][Next]_vars

----------------------------------------------------------------------------
FirstBad(s) == SelectInSeq(s, LAMBDA c : c.bad)   \* or 0

\* However the bytes are cut into buffers, the parser delivers the commands that were
\* sent, in order, with their arguments and payloads, and nothing else: all of them
\* once the last byte is parsed, or all before the first that is malformed, where it
\* fails and not before.
ParsedAsSent ==
  LET bad == FirstBad(stream)
      valid == IF bad = 0 THEN stream ELSE SubSeq(stream, 1, bad - 1) IN
  /\ IsPrefix(events, [n \in 1..Len(valid) |-> Meant(valid[n])])
  /\ p.failed => bad # 0
  /\ p.failed \/ (rest = <<>> /\ i > Len(buf)) => Len(events) = Len(valid)
=============================================================================
