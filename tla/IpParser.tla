------------------------------- MODULE IpParser -------------------------------
(***************************************************************************)
(* parseIP() of core/src/ipparser.ts, "JavaScript port of go               *)
(* net/ip/ParseIP": by what it says a host is looked up in the DNS or not, *)
(* and verified by name or not (core/src/servers.ts).                      *)
(*                                                                         *)
(* A text is a sequence of tokens: ".", ":" and numbers, that have a value *)
(* as decimals and as hexadecimals, or none.  Addresses are IPv6LEN bytes. *)
(***************************************************************************)
EXTENDS Integers, Sequences, FiniteSets, SequencesExt

CONSTANTS
  IPv6LEN,    \* bytes of an address: 16
  Numbers,    \* the tokens that are not "." or ":"
  MaxTokens   \* bound: tokens of a text

IpParserAssumption == IPv6LEN \in {8, 10, 12, 14, 16} /\ MaxTokens \in Nat

VARIABLE text

IPv4LEN == 4
Bad == <<>>
Zeroes(n) == [k \in 1..n |-> 0]

----------------------------------------------------------------------------
\* dtoi() and xtoi(): the value of a token, or -1.
Dtoi(t) == CASE t = "1" -> 1 [] t = "20" -> 20 [] t = "256" -> 256 [] OTHER -> -1
Xtoi(t) == CASE t = "1" -> 1 [] t = "20" -> 32 [] t = "256" -> 598 [] t = "ff" -> 255 [] OTHER -> -1

\* ipV4(): as an IPv6 address.
IpV4(b) == Zeroes(IPv6LEN - 6) \o <<255, 255>> \o b

\* parseIPv4(): four numbers with dots between them; nothing looks at what comes after.
ParseIPv4(s) ==
  IF /\ Len(s) >= 7
     /\ \A i \in 1..3 : s[2 * i] = "."
     /\ \A i \in 1..4 : Dtoi(s[2 * i - 1]) \in 0..255
  THEN [i \in 1..4 |-> Dtoi(s[2 * i - 1])] ELSE Bad

\* The end of parseIPv6(): zeroes are put where the ellipsis was.
Finish(s, ip, ellipsis) ==
  IF s # <<>> THEN Bad
  ELSE IF Len(ip) < IPv6LEN
    THEN IF ellipsis < 0 THEN Bad
         ELSE SubSeq(ip, 1, ellipsis) \o Zeroes(IPv6LEN - Len(ip))
                \o SubSeq(ip, ellipsis + 1, Len(ip))
  ELSE IF ellipsis >= 0 THEN Bad ELSE ip

\* Its loop: a number, or the four of an IPv4 address at the end, then ":" or "::".
RECURSIVE Loop(_, _, _)
Loop(s, ip, ellipsis) ==
  IF Len(ip) >= IPv6LEN THEN Finish(s, ip, ellipsis)
  ELSE IF s = <<>> \/ (s # <<>> /\ Xtoi(s[1]) < 0) THEN Bad
  ELSE IF Len(s) > 1 /\ s[2] = "."
    THEN IF (ellipsis < 0 /\ Len(ip) # IPv6LEN - IPv4LEN) \/ Len(ip) + IPv4LEN > IPv6LEN
              \/ ParseIPv4(s) = Bad
         THEN Bad ELSE Finish(<<>>, ip \o ParseIPv4(s), ellipsis)
  ELSE
    LET n == Xtoi(s[1])
        now == ip \o <<n \div 256, n % 256>>
        rest == Tail(s)
        twice == Len(rest) > 1 /\ rest[2] = ":" IN
    IF rest = <<>> THEN Finish(rest, now, ellipsis)
    ELSE IF rest[1] # ":" \/ Len(rest) = 1 \/ (twice /\ ellipsis >= 0) THEN Bad
    ELSE IF ~twice THEN Loop(Tail(rest), now, ellipsis)
    ELSE IF Len(rest) = 2 THEN Finish(<<>>, now, Len(now))
    ELSE Loop(Tail(Tail(rest)), now, Len(now))

ParseIPv6(s) ==
  IF Len(s) < 2 \/ SubSeq(s, 1, 2) # <<":", ":">> THEN Loop(s, <<>>, -1)
  ELSE IF Len(s) = 2 THEN Zeroes(IPv6LEN)
  ELSE Loop(SubSeq(s, 3, Len(s)), <<>>, 0)

\* parseIP(): by what comes first, a dot or a colon.
ParseIP(s) ==
  LET marks == {i \in DOMAIN s : s[i] \in {".", ":"}} IN
  IF marks = {} THEN Bad
  ELSE IF s[CHOOSE i \in marks : \A j \in marks : i <= j] = "."
    THEN (IF ParseIPv4(s) = Bad THEN Bad ELSE IpV4(ParseIPv4(s)))
  ELSE ParseIPv6(s)

----------------------------------------------------------------------------
\* What ParseIP of Go's net package accepts, and as what.
Groups(s) ==     \* the bytes of numbers with colons between them, maybe an IPv4 at the end
  LET quad == Len(s) >= 7 /\ s[Len(s) - 1] = "."
      v4 == SubSeq(s, Len(s) - 6, Len(s))
      h == IF quad THEN SubSeq(s, 1, Len(s) - 7) ELSE s \o <<":">> IN
  IF s = <<>> THEN {<<>>}
  ELSE IF \/ Len(h) % 2 = 1 \/ (quad /\ ParseIPv4(v4) = Bad)
          \/ \E i \in DOMAIN h : IF i % 2 = 0 THEN h[i] # ":" ELSE Xtoi(h[i]) < 0
    THEN {}
  ELSE {[i \in DOMAIN h |-> IF i % 2 = 1 THEN Xtoi(h[i]) \div 256 ELSE Xtoi(h[i - 1]) % 256]
          \o (IF quad THEN ParseIPv4(v4) ELSE <<>>)}

Addresses(s) ==
  (IF Len(s) = 7 /\ ParseIPv4(s) # Bad THEN {IpV4(ParseIPv4(s))} ELSE {})
  \cup {g \in Groups(s) : Len(g) = IPv6LEN /\ ":" \in ToSet(s)}
  \cup {l \o Zeroes(IPv6LEN - Len(l) - Len(r)) \o r : <<l, r>> \in
          {<<l, r>> \in UNION {Groups(SubSeq(s, 1, i - 1)) \X Groups(SubSeq(s, i + 2, Len(s))) :
                               i \in {j \in 1..Len(s) - 1 : /\ s[j] = ":" /\ s[j + 1] = ":"
                                                     /\ "." \notin ToSet(SubSeq(s, 1, j))}} :
             Len(l) + Len(r) < IPv6LEN}}

----------------------------------------------------------------------------
Init == text = <<>>
Next ==
  /\ Len(text) < MaxTokens
  /\ \E t \in Numbers \cup {".", ":"} :
       /\ t \in Numbers /\ text # <<>> => text[Len(text)] \notin Numbers
       /\ text' = Append(text, t)

Spec == Init /\ [][Next]_text

----------------------------------------------------------------------------
\* An address is parsed as what it is; and a text that has no dot and is none is refused.
AddressesParsed ==
  /\ \A a \in Addresses(text) : ParseIP(text) = a
  /\ ParseIP(text) # Bad /\ "." \notin ToSet(text) => Addresses(text) # {}
=============================================================================
