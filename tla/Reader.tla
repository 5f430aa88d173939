------------------------------- MODULE Reader -------------------------------
(* The reader (reader.c) and the reader macros of primitives.c that it calls  *)
(* and that call it: one step per char or token, with the calls in progress   *)
(* on a stack.  Its caller reads sexp after sexp until it gets a null one, as *)
(* dispatcher_loop and p-load do.  The chars of a token go through a buffer   *)
(* into a length-prefixed string.                                             *)
(*                                                                            *)
(* Rows and columns are left out.  An integer is its digits without leading   *)
(* zeros, a hexadecimal numeral and a float are theirs as they were read; the *)
(* range of decimal numerals is left out, that of hexadecimal ones is not.    *)
EXTENDS Syntax, SourceSexps

CONSTANTS
  Texts                   \* what in_stream may hold: sequences of chars

ASSUME ReaderAssumption ==
  /\ \A t \in Texts : t \in Seq(STRING) /\ \A i \in DOMAIN t : t[i] # NUL
  /\ HEX_DIGITS \in Nat

VARIABLES
  text,          \* what in_stream held
  stream,        \* in_stream: what is left of it, with what was unread
  calls,         \* the calls of reads and of reader macros in progress
  value,         \* the sexp that a call has just returned, or NoValue
  error_flags,   \* Interpreter.error_flags
  errors,        \* auxiliary: the errors reported so far
  results,       \* auxiliary: the sexps read so far
  ended          \* the caller has got a null sexp, or the program was aborted

vars == <<text, stream, calls, value, error_flags, errors, results, ended>>

NoValue == <<"no_value", <<>>>>

\* A call: where it is, whether it may call reader macros, the char it was
\* called for, its buffer, and the list it has so far.
Call(at, macros, entry_c) ==
  [at |-> at, macros |-> macros, entry_c |-> entry_c, buf |-> buffer_new, items |-> <<>>]
Reads(macros) == Call("reads", macros, NUL)

\* A call that goes on elsewhere, with another buffer.
Changed(call, at, buf) == [call EXCEPT !.at = at, !.buf = buf]

\* The macro of a char, which has been read.
MacroOf(c) ==
  CASE c = "semicolon" -> Call("comment", TRUE, c)
    [] c = "#" -> Reads(TRUE)
    [] c = "'" -> Call("quote", TRUE, c)
    [] c = "quotes" -> Call("string", TRUE, c)
    [] OTHER -> Call("numeral", TRUE, c)

Init ==
  /\ text \in Texts
  /\ stream = text
  /\ calls = <<>>
  /\ value = NoValue
  /\ error_flags = {}
  /\ errors = {}
  /\ results = <<>>
  /\ ended = FALSE

-----------------------------------------------------------------------------
(* Steps of the innermost call *)

Top == Last(calls)
In(at) == value = NoValue /\ calls # <<>> /\ Top.at = at

\* The next char is one of S; the stream is at its end.
At(S) == stream # <<>> /\ Head(stream) \in S
AtOther(S) == stream # <<>> /\ Head(stream) \notin S
AtEOF == stream = <<>>
\* The set of the n-th char, if there is one.
CharAt(n) == {stream[i] : i \in {n} \cap DOMAIN stream}

\* readc takes the next char; a char that was only looked at is unread at once,
\* another one goes before what is left.
readc == stream' = Tail(stream)
unreadc(c, left) == stream' = <<c>> \o left

\* The innermost call goes on with other locals, calls another function, calls
\* one whose value it returns, or returns.
Go(call) == calls' = Append(Front(calls), call) /\ UNCHANGED value
Continue(at, buf) == Go(Changed(Top, at, buf))
Take(at) == readc /\ Continue(at, buffer_append_char(Top.buf, Head(stream)))
Become(call) == Go(call)
Enter(call) == calls' = Append(calls, call) /\ UNCHANGED value
Return(v) == calls' = Front(calls) /\ value' = v

NoError == UNCHANGED <<error_flags, errors>>
aux == <<text, results, ended>>

\* error_flags ^= flag
Report(flag) ==
  /\ error_flags' = SymDiff(error_flags, {flag})
  /\ errors' = errors \cup {flag}
  /\ UNCHANGED aux

Quiet == NoError /\ UNCHANGED aux

(* reads *)

ReadsSkip == In("reads") /\ At(Blank) /\ readc /\ UNCHANGED <<calls, value>> /\ Quiet

ReadsMacro ==
  /\ In("reads") /\ Top.macros /\ At(readtable)
  /\ readc /\ Become(MacroOf(Head(stream))) /\ Quiet

ReadsEOF == In("reads") /\ AtEOF /\ Return(sexp_null) /\ UNCHANGED stream /\ Quiet

\* A mutated form, and the code's.  The parenthesis stays in the stream.
ReadsUnmatched_silent ==
  In("reads") /\ At({")"}) /\ Return(sexp_null) /\ UNCHANGED stream /\ Quiet
ReadsUnmatched ==
  In("reads") /\ At({")"}) /\ Return(sexp_null) /\ UNCHANGED stream /\ Report("UNMATCHED")

ReadsList == In("reads") /\ At({"("}) /\ readc /\ Continue("list", Top.buf) /\ Quiet

ReadsAtom ==
  /\ In("reads") /\ AtOther(Delimiter \cup IF Top.macros THEN readtable ELSE {})
  /\ Continue("atom", Top.buf) /\ UNCHANGED stream /\ Quiet

AtomChar == In("atom") /\ AtOther(Delimiter) /\ Take("atom") /\ Quiet

AtomEnd ==
  /\ In("atom") /\ (At(Delimiter) \/ AtEOF)
  /\ Return(Symbol(Top.buf)) /\ UNCHANGED stream /\ Quiet

ListMacro ==
  /\ In("list") /\ Top.macros /\ At(readtable)
  /\ readc /\ Enter(MacroOf(Head(stream))) /\ Quiet

ListUnclosed ==
  In("list") /\ AtEOF /\ Return(sexp_null) /\ UNCHANGED stream /\ Report("UNCLOSED")

ListSkip == In("list") /\ At(Blank) /\ readc /\ UNCHANGED <<calls, value>> /\ Quiet

ListOpen == In("list") /\ At({"("}) /\ Enter(Reads(TRUE)) /\ UNCHANGED stream /\ Quiet

\* An atom of a list goes through the buffer of the list.
ListAtom ==
  /\ In("list") /\ AtOther(Delimiter \cup IF Top.macros THEN readtable ELSE {})
  /\ Take("list_atom") /\ Quiet

ListAtomChar == In("list_atom") /\ AtOther(Delimiter) /\ Take("list_atom") /\ Quiet

ListAtomEnd ==
  /\ In("list_atom") /\ (At(Delimiter) \/ AtEOF)
  /\ Go([Changed(Top, "list", buffer_clear(Top.buf)) EXCEPT !.items = Append(@, Symbol(Top.buf))])
  /\ UNCHANGED stream /\ Quiet

ListClose ==
  /\ In("list") /\ At({")"})
  /\ readc /\ Return(sexp_new_source_list(Top.items)) /\ Quiet

(* comment_reader_macro, of a semicolon: to the end of the line, and reads *)

CommentSkip == In("comment") /\ AtOther({"\n"}) /\ readc /\ UNCHANGED <<calls, value>> /\ Quiet
CommentEnd ==
  /\ In("comment") /\ (At({"\n"}) \/ AtEOF)
  /\ stream' = IF AtEOF THEN stream ELSE Tail(stream)
  /\ Become(Reads(TRUE)) /\ Quiet

(* quote_reader_macro *)

Quote ==
  /\ In("quote")
  /\ calls' = Append(Append(Front(calls), [Top EXCEPT !.at = "quoted"]), Reads(TRUE))
  /\ UNCHANGED <<stream, value>> /\ Quiet

(* str_reader_macro.  An escape that is none is dropped. *)

StringChar == In("string") /\ AtOther({"quotes", "\\"}) /\ Take("string") /\ Quiet

StringEnd ==
  /\ In("string") /\ At({"quotes"}) /\ readc
  /\ Return(sexp_new_source_atom("str", String(buffer_to_cstr_move(Top.buf)))) /\ Quiet

\* A mutated form, and the code's.
StringUnterminated_unchecked ==
  In("string") /\ AtEOF /\ Continue("string", Top.buf) /\ UNCHANGED stream /\ Quiet
StringUnterminated ==
  In("string") /\ AtEOF /\ Return(sexp_null) /\ UNCHANGED stream /\ Report("OTHER")

\* A backslash and a char of S after it; from the n-th char on the stream goes
\* on, and the buffer gets the char c.
Escape(S) == In("string") /\ At({"\\"}) /\ CharAt(2) \cap S # {}
EscapeTo(n, c) ==
  /\ stream' = SubSeq(stream, n, Len(stream))
  /\ Continue("string", buffer_append_char(Top.buf, c)) /\ Quiet

EscapeSimple == Escape(SimpleEscape) /\ EscapeTo(3, Escaped(stream[2]))

\* Up to three octal digits; the char after the first two of them must exist.
OctalDigits(n) ==
  /\ Len(stream) > n
  /\ \A i \in 2 .. n + 1 : stream[i] \in Octal
  /\ n < 3 => CharAt(n + 2) \cap Octal = {}

EscapeOctal ==
  \E n \in 1 .. 3 :
    /\ Escape(Octal) /\ OctalDigits(n) /\ Len(stream) > n + 1
    /\ EscapeTo(n + 2, OctalChar(SubSeq(stream, 2, n + 1)))

EscapeOctalAborts ==
  \E n \in 1 .. 3 :
    /\ Escape(Octal) /\ OctalDigits(n) /\ Len(stream) = n + 1
    /\ calls' = <<>> /\ ended' = TRUE
    /\ errors' = errors \cup {"ABORT"}
    /\ UNCHANGED <<text, stream, value, error_flags, results>>

\* The value comes from entry_c, which is the quote that opened the string, one
\* char after the x is dropped, and that quote is unread.
EscapeHex ==
  /\ In("string") /\ At({"\\"}) /\ CharAt(2) = {"x"}
  /\ unreadc(Top.entry_c, SubSeq(stream, 4, Len(stream)))
  /\ Continue("string", buffer_append_char(Top.buf, HexChar)) /\ Quiet

EscapeUnknown ==
  /\ In("string") /\ At({"\\"})
  /\ CharAt(2) \cap (SimpleEscape \cup Octal \cup {"x"}) = {}
  /\ stream' = SubSeq(stream, 3, Len(stream))
  /\ UNCHANGED <<calls, value>> /\ Quiet

(* numeral_reader_macro *)

\* A minus that no digit follows is unread and begins an atom.
NumeralMinus ==
  /\ In("numeral") /\ Top.entry_c = "-" /\ ~At(Digit)
  /\ unreadc(Top.entry_c, stream)
  /\ Become(Reads(FALSE)) /\ Quiet

NumeralBegin ==
  /\ In("numeral") /\ (Top.entry_c # "-" \/ At(Digit))
  /\ Continue("S_INT", buffer_append_char(Top.buf, Top.entry_c)) /\ UNCHANGED stream /\ Quiet

\* The next char, one of S, leads from one state to another.
NumeralChar(from, S, to) == In(from) /\ At(S) /\ Take(to) /\ Quiet

NumeralPrefix ==
  /\ In("S_INT") /\ At({"x"}) /\ Top.buf.data = <<"0">>
  /\ readc /\ Continue("S_HEX", buffer_clear(Top.buf)) /\ Quiet

NumeralEnd == Blank \cup {")"}
Digits(buf) == SubSeq(buf.data, 1, strlen(buf.data, NUL))

IntEnd ==
  /\ In("S_INT") /\ At(NumeralEnd) /\ UNCHANGED stream
  /\ Return(sexp_new_source_atom("int", Integer(Digits(buffer_null_terminate(Top.buf))))) /\ Quiet

\* The char after a float is not unread.
FloatEnd ==
  /\ In("S_FLOAT") /\ At(NumeralEnd) /\ readc
  /\ Return(sexp_new_source_atom("float", Digits(buffer_null_terminate(Top.buf)))) /\ Quiet

HexEnd ==
  /\ In("S_HEX") /\ At(NumeralEnd) /\ Len(Top.buf.data) <= HEX_DIGITS /\ UNCHANGED stream
  /\ Return(sexp_new_source_atom("uint", Top.buf.data)) /\ Quiet
HexTooLong ==
  /\ In("S_HEX") /\ At(NumeralEnd) /\ Len(Top.buf.data) > HEX_DIGITS /\ UNCHANGED stream
  /\ Return(sexp_null) /\ Report("OTHER")

\* What ends the numeral by an error, which the end of the stream is one of.
NumeralError ==
  /\ \/ In("S_INT") /\ ~At(Digit \cup {"."} \cup NumeralEnd) /\ ~(At({"x"}) /\ Top.buf.data = <<"0">>)
     \/ In("S_INTDOT") /\ ~At(Digit)
     \/ In("S_FLOAT") /\ ~At(Digit \cup NumeralEnd)
     \/ In("S_HEX") /\ ~At(HexDigit \cup NumeralEnd)
  /\ stream' = IF AtEOF THEN stream ELSE Tail(stream)
  /\ Return(sexp_null) /\ Report("OTHER")

(* The return of a call to the one that called it *)

Returned(at) == value # NoValue /\ calls # <<>> /\ Top.at = at

ListAppend ==
  /\ Returned("list")
  /\ calls' = Append(Front(calls), [Top EXCEPT !.items = Append(@, value)]) /\ value' = NoValue
  /\ UNCHANGED stream /\ Quiet

p_quote == Named(<<"p", "-", "q", "u", "o", "t", "e">>)

QuoteReturn ==
  /\ Returned("quoted")
  /\ Return(sexp_new_source_list(<<p_quote, value>>))
  /\ UNCHANGED stream /\ Quiet

(* The caller *)

CallReads ==
  /\ calls = <<>> /\ value = NoValue /\ ~ended
  /\ calls' = <<Reads(TRUE)>>
  /\ UNCHANGED <<stream, value>> /\ Quiet

TakeSexp ==
  /\ calls = <<>> /\ value # NoValue
  /\ results' = IF value = sexp_null THEN results ELSE Append(results, value)
  /\ ended' = (value = sexp_null)
  /\ value' = NoValue
  /\ UNCHANGED <<text, stream, calls>> /\ NoError

-----------------------------------------------------------------------------
reads ==
  \/ ReadsSkip \/ ReadsMacro \/ ReadsEOF \/ ReadsUnmatched \/ ReadsList \/ ReadsAtom
  \/ AtomChar \/ AtomEnd
  \/ ListMacro \/ ListUnclosed \/ ListSkip \/ ListOpen \/ ListAtom \/ ListAtomChar \/ ListAtomEnd
  \/ ListClose \/ ListAppend

str_reader_macro ==
  \/ StringChar \/ StringEnd \/ StringUnterminated
  \/ EscapeSimple \/ EscapeOctal \/ EscapeOctalAborts \/ EscapeHex \/ EscapeUnknown

numeral_reader_macro ==
  \/ NumeralMinus \/ NumeralBegin \/ NumeralPrefix
  \/ NumeralChar("S_INT", Digit, "S_INT") \/ NumeralChar("S_INT", {"."}, "S_INTDOT")
  \/ NumeralChar("S_INTDOT", Digit, "S_FLOAT") \/ NumeralChar("S_FLOAT", Digit, "S_FLOAT")
  \/ NumeralChar("S_HEX", HexDigit, "S_HEX")
  \/ IntEnd \/ HexEnd \/ HexTooLong \/ FloatEnd \/ NumeralError

Next ==
  \/ CallReads \/ TakeSexp
  \/ reads
  \/ CommentSkip \/ CommentEnd
  \/ Quote \/ QuoteReturn
  \/ str_reader_macro
  \/ numeral_reader_macro

Spec == Init /\ [][Next]_vars
FairSpec == Spec /\ WF_vars(Next)

-----------------------------------------------------------------------------
(* Sexps beside tokens *)

AtomToken(s) ==
  CASE s[1] = "sym"  -> Chars(s[2])
    [] s[1] = "str"  -> <<"quotes", Chars(s[2])>>
    [] s[1] = "uint" -> <<"0", "x">> \o s[2]
    [] OTHER         -> s[2]

Atoms == {"sym", "str", "uint", "int", "float"}
Skipped == {<<"semicolon">>, <<"#">>}
Marks == Skipped \cup {<<"'">>, <<"(">>, <<")">>}
IsQuote(s) == s[1] = "list" /\ Len(s[2]) = 2 /\ s[2][1] = p_quote
Close == <<"close", <<>>>>
Mismatch == << <<"mismatch", <<>>>> >>

\* What remains of pending after a token, if it is the first of what pending is
\* written as.  A list of p-quote is written in either way; a quote at the end of
\* the text quotes a null sexp.
Matched(pending, token) ==
  LET s == Head(pending)
  IN  CASE token \in Skipped -> pending
        [] token = <<"'">> /\ pending # <<>> /\ IsQuote(s) ->
             (IF s[2][2] = sexp_null THEN <<>> ELSE <<s[2][2]>>) \o Tail(pending)
        [] token = <<"(">> /\ pending # <<>> /\ s[1] = "list" -> s[2] \o <<Close>> \o Tail(pending)
        [] token = <<")">> /\ pending # <<>> /\ s = Close -> Tail(pending)
        [] token \notin Marks /\ pending # <<>> /\ s[1] \in Atoms /\ token = AtomToken(s) -> Tail(pending)
        [] OTHER -> Mismatch

\* What remains of sexps after tokens: nothing if they are written so.
Remaining(sexps, tokens) ==
  LET after[i \in 0 .. Len(tokens)] == IF i = 0 THEN sexps ELSE Matched(after[i - 1], tokens[i])
  IN  after[Len(tokens)]

-----------------------------------------------------------------------------
(* Properties *)

Places == {"reads", "atom", "list", "list_atom", "comment", "quote", "quoted", "string",
           "numeral", "S_INT", "S_INTDOT", "S_FLOAT", "S_HEX"}
Flags == {"UNCLOSED", "UNMATCHED", "OTHER"}

\* Every variable stays in its type; what is unread was read before, and in
\* that order, but for the quote that a hexadecimal escape unreads for another
\* char; no call has written past the allocation of its buffer.
TypeOK ==
  /\ text \in Texts
  /\ \/ IsSuffix(stream, text)
     \/ In("string") /\ At({"quotes"}) /\ IsSuffix(Tail(stream), text) /\ Len(stream) <= Len(text)
  /\ \A i \in DOMAIN calls :
       calls[i].at \in Places /\ calls[i].macros \in BOOLEAN /\ Fits(calls[i].buf)
  /\ error_flags \subseteq Flags
  /\ errors \subseteq Flags \cup {"ABORT"}
  /\ ended \in BOOLEAN

\* The reader reports an error for the texts that are no program, and for no
\* other: it neither gives up on a program nor takes an end for the end.
ErrorsExact == ended => (errors = {} <=> WellFormed(text))

\* Between two sexps, the sexps read so far are written as the tokens of the text
\* up to where the stream is, each once, in order and nested as they were,
\* whatever the reader looked at and unread, and whatever length their chars had
\* on the way through buffers and length-prefixed strings.  (An error drops the
\* token it is about.)
ReadsText ==
  calls = <<>> /\ value = NoValue /\ errors = {} =>
    LET all  == Lex(text)
        left == LexFrom(text)[Len(text) - Len(stream) + 1]
        n    == Len(all) - Len(left)
    IN  /\ n >= 0 /\ left = SubSeq(all, n + 1, Len(all))
        /\ Remaining(results, SubSeq(all, 1, n)) = <<>>

\* Reading comes to the end of every text.
Terminates == <>ended

\* "If parsing error (only mismatched parentheses) returns sexp_null and sets an
\* error flag in the interpreter", "returns sexp_null (no flag) if EOF reached"
\* (reader.h:11-13): by the flags, whoever gets the null sexp can tell a text
\* whose parentheses do not match from one that has come to its end.
FlagsTell == ended => (error_flags # {} <=> ~WellFormed(text))
=============================================================================
