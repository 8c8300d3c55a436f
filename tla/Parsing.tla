------------------------------ MODULE Parsing ------------------------------
(***************************************************************************)
(* The text functions of protocol.cpp: FindBreak(), ParseHeader(),         *)
(* ParseSegments(), StrToUl() and the decoding of the uri in Accept().     *)
(* A text is a sequence of bytes.  A byte that some function tells apart   *)
(* from others is named by a string ("CR", "TAB", "plus", "/", "%", "2");  *)
(* a word without such bytes ("GET", "Host") is a byte too.  Offsets count *)
(* from zero, as in the code.                                              *)
(***************************************************************************)
EXTENDS Integers, SequencesExt

CONSTANTS
  SizeModulus,  \* the range of uint and of ulong, above every size
  Byte          \* what a text is made of

\* Above the length of every text the functions look for.
ASSUME SizeAssumption == SizeModulus \in Nat /\ SizeModulus > 8
\* The bytes the functions write or look for.
ASSUME ByteAssumption == {"CR", "LF", " ", "?", "/", ".", "other"} \subseteq Byte

\* std::string::npos, the largest size.
NPos == SizeModulus - 1

CRLF == <<"CR", "LF">>

\* The bytes of s from offset i, n of them or up to the end.
Substr(s, i, n) ==
  SubSeq(s, i + 1, IF n = NPos \/ i + n > Len(s) THEN Len(s) ELSE i + n)

From(s, i) == Substr(s, i, NPos)

\* s.compare(0,Len(w),w) == 0
Starts(s, w) == IsPrefix(w, s)

\* The least offset in S.
First(S) == IF S = {} THEN NPos ELSE Min(S)

Find(s, w, i) == First({j \in i..(Len(s) - Len(w)) : Substr(s, j, Len(w)) = w})

FindNot(s, b, i) == First({j \in i..(Len(s) - 1) : s[j + 1] # b})

-----------------------------------------------------------------------------
(* FindBreak().  The result is the offset behind the first double CRLF,    *)
(* NPos where there is none, or "past" where the scan leaves the buffer.   *)

\* Slip: the bound leaves room for three bytes of the four.
ScanBound_OffByOne(size) == (size - 2) % SizeModulus

\* uint n = pbuffer->size()-3
ScanBound(size) == (size - 3) % SizeModulus

FindBreak(buffer) ==
  LET n == ScanBound(Len(buffer))
      break == Find(buffer, CRLF \o CRLF, 0)
      \* At offset i the comparisons reach the end of the buffer.
      past(i) == Starts(CRLF \o CRLF, From(buffer, i))
  IN IF break < n THEN [found |-> TRUE, pp |-> break + 4, past |-> FALSE]
     ELSE [found |-> FALSE, pp |-> 0,
           past |-> \E i \in 0..Len(buffer) : i < n /\ past(i)]

-----------------------------------------------------------------------------
(* ParseHeader(): the content, empty where the code returns false.         *)

\* Where the line break before "header: " is.
HeaderLine(text, header, lf) == Find(text, CRLF \o <<header, ":", " ">>, lf)

ParseHeader(lf, text, header) ==
  LET hs == HeaderLine(text, header, lf)
      hl == hs + 5
      he == Find(text, CRLF, hl)
      hc == FindNot(text, " ", hl)
  IN IF hs = NPos \/ he <= hc THEN << >> ELSE Substr(text, hc, he - hc)

-----------------------------------------------------------------------------
(* Decoding of the uri.                                                    *)

HexDigits == [d \in {"0", "1", "2", "a", "b", "e", "f"} |->
                CASE d = "0" -> 0 [] d = "1" -> 1 [] d = "2" -> 2 [] d = "a" -> 10
                  [] d = "b" -> 11 [] d = "e" -> 14 [] OTHER -> 15]

IsHex(b) == b \in DOMAIN HexDigits

\* isspace()
Spaces == {" ", "TAB", "LF", "VT", "FF", "CR"}

\* strtoul(enc.c_str(),0,16): the value of a digit or two, the first of which may
\* be a space or a plus; else zero.  Behind a minus it is above 255, which
\* the loop drops as it drops a zero.
HexValue(enc) ==
  LET digit(i) == HexDigits[enc[i]]
  IN CASE IsHex(enc[1]) /\ IsHex(enc[2]) -> 16 * digit(1) + digit(2)
       [] IsHex(enc[1]) /\ ~IsHex(enc[2]) -> digit(1)
       [] enc[1] \in Spaces \cup {"plus"} /\ IsHex(enc[2]) -> digit(2)
       [] OTHER -> 0

\* The byte of a code: those the functions below tell apart, or another one.
ByteOf(c) == CASE c = 46 -> "." [] c = 47 -> "/" [] OTHER -> "other"

\* Slip: the loop's own ++i is forgotten.
AfterEscape_Short(i) == i + 2

\* i += 2; ++i
AfterEscape(i) == i + 3

\* A turn of the loop over (i, requri_dec).
DecodeTurn(uri, i, dec) ==
  LET c == HexValue(Substr(uri, i + 1, 2))
  IN IF uri[i + 1] # "%" THEN <<i + 1, Append(dec, uri[i + 1])>>
     ELSE <<AfterEscape(i), IF c = 0 THEN dec ELSE Append(dec, ByteOf(c))>>

\* The loop ends at qv, where the query string begins, or at an escape that is
\* cut off.
DecodeFrom(uri, qv) ==
  LET over(i) == i >= qv \/ (uri[i + 1] = "%" /\ i >= qv - 2)
      f[p \in Nat \X Seq(Byte)] ==
        IF over(p[1]) THEN p[2] ELSE f[DecodeTurn(uri, p[1], p[2])]
  IN f

\* Where the query string begins, or the end.
QueryAt(uri) ==
  IF Find(uri, <<"?">>, 0) = NPos THEN Len(uri) ELSE Find(uri, <<"?">>, 0)

Decode(uri) == DecodeFrom(uri, QueryAt(uri))[<<1, <<"/">>>>]

-----------------------------------------------------------------------------
(* ParseSegments(), by turns of its loop over (uri, out).                  *)

Replace(uri, n) == <<"/">> \o From(uri, n)

\* out without its last segment.
Parent(out) ==
  LET slashes == {i \in 1..Len(out) : out[i] = "/"}
  IN IF slashes = {} THEN << >> ELSE SubSeq(out, 1, Max(slashes) - 1)

\* The last turn takes all that is left of uri, and the loop ends.
Turn(uri, out) ==
  LET t == Find(uri, <<"/">>, 1)
  IN CASE Starts(uri, <<".", "/">>)           -> <<From(uri, 2), out>>
       [] Starts(uri, <<".", ".", "/">>)      -> <<From(uri, 3), out>>
       [] Starts(uri, <<"/", ".", "/">>)      -> <<Replace(uri, 3), out>>
       [] uri = <<"/", ".">>                  -> <<Replace(uri, 2), out>>
       [] Starts(uri, <<"/", ".", ".", "/">>) -> <<Replace(uri, 4), Parent(out)>>
       [] uri = <<"/", ".", ".">>             -> <<Replace(uri, 3), Parent(out)>>
       [] uri = <<".">>                       -> <<From(uri, 1), out>>
       [] uri = <<".", ".">>                  -> <<From(uri, 2), out>>
       [] OTHER -> <<IF t = NPos THEN << >> ELSE From(uri, t), out \o Substr(uri, 0, t)>>

Segments[p \in Seq(Byte) \X Seq(Byte)] ==
  IF p[1] = << >> THEN p[2] ELSE Segments[Turn(p[1], p[2])]

ParseSegments(uri) == Segments[<<uri, << >>>>]

-----------------------------------------------------------------------------
(* StrToUl(), by what strtoul() does: it skips white space, takes a sign,  *)
(* and reads digits.  No text here has a byte of zero, where it would end. *)

Digits == [d \in {"0", "1", "2"} |->
             CASE d = "0" -> 0 [] d = "1" -> 1 [] OTHER -> 2]

DigitsValue(s) ==
  FoldLeft(LAMBDA n, d : IF d \in DOMAIN Digits THEN 10 * n + Digits[d] ELSE n, 0, s)

\* Slip: what follows the digits is not looked at.
IsNumber_Prefix(s) == s # << >> /\ s[1] \in DOMAIN Digits

\* pstr != pendptr and *pendptr == 0
IsNumber(s) == s # << >> /\ \A i \in 1..Len(s) : s[i] \in DOMAIN Digits

\* The text from its first byte that is no space.
Unspaced(s) == From(s, Min({j \in 0..Len(s) : j < Len(s) => s[j + 1] \notin Spaces}))

StrToUl(s) ==
  LET text   == Unspaced(s)
      signed == text # << >> /\ text[1] \in {"plus", "-"}
      digits == IF signed THEN Tail(text) ELSE text
      n      == DigitsValue(digits)
      ok     == IsNumber(digits) /\ n < SizeModulus
  IN [ok |-> ok,
      ul |-> IF ~ok THEN 0 ELSE IF text[1] = "-" THEN (-n) % SizeModulus ELSE n]

=============================================================================
