-------------------------------- MODULE XmlText --------------------------------
(* The text of WebDAV's documents: what the printer writes for a text, an          *)
(* attribute, a comment, a processing instruction or a directive, and how the      *)
(* decoder reads it, symbol by symbol (server/webdav/internal/xml).  A symbol is   *)
(* a character, a class of them, or a whole reference ("&...").                    *)
EXTENDS Naturals, Sequences, SequencesExt, FiniteSetsExt

CONSTANTS
  Forms,      \* of what is written: "text", "attr", "comment", "inst", "directive"; or sent raw by a client: "rawText", "rawAttr", "cdata"
  Pieces,     \* of each form: what its value is put together from
  Targets,    \* of processing instructions
  MaxPieces   \* bound: pieces of a value

ASSUME TextAssumption == MaxPieces \in Nat /\ Pieces \in [Forms -> SUBSET Seq(STRING)] /\ Targets \subseteq Seq(STRING)

VARIABLES
  form,       \* what is written
  value,      \* what it holds
  pieces,     \* how many pieces that is
  target,     \* of a processing instruction
  text,       \* what is on the wire
  place,      \* how much of it has been read
  before,     \* b0 and b1
  nested,     \* in a directive: depth, inquote, and how much of "<!--" stands before
  buf,        \* d.buf
  reading     \* "not yet", "reading", "done", "failed"; or "refused" by the printer

textVars == <<form, value, pieces, target, text, place, before, nested, buf, reading>>

Nothing == "none"
Quotes == {"quot", "apos"}
Flat == [depth |-> 0, inquote |-> Nothing, seen |-> 0]
Illegal == {"bad", "lone"}     \* outside of the character range, or no UTF-8
Settled(c) == IF c \in Illegal THEN "fffd" ELSE c

\* entity, and the numbers that escapeText writes.
References == [r \in {"&lt", "&gt", "&amp", "&34", "&39", "&x9", "&xA", "&xD", "&0"} |->
  CASE r = "&lt" -> "<" [] r = "&gt" -> ">" [] r = "&amp" -> "&" [] r = "&34" -> "quot" [] r = "&39" -> "apos"
    [] r = "&x9" -> "tab" [] r = "&xA" -> "nl" [] r = "&xD" -> "cr" [] OTHER -> "bad"]
Entities == DOMAIN References
Unreadable == {"&", "&none"}   \* no reference, or of no entity

TextInit ==
  /\ form \in Forms /\ target \in (IF form = "inst" THEN Targets ELSE {<<>>})
  /\ value = <<>> /\ pieces = 0 /\ text = <<>> /\ place = 0 /\ before = <<Nothing, Nothing>> /\ nested = Flat /\ buf = <<>> /\ reading = "not yet"

Compose(p) ==
  /\ reading = "not yet" /\ pieces < MaxPieces
  /\ value' = value \o p /\ pieces' = pieces + 1
  /\ UNCHANGED <<form, target, text, place, before, nested, buf, reading>>
-----------------------------------------------------------------------------
(* The printer.                                                                   *)

EscapeText(s, escapeNewline) ==
  [i \in 1..Len(s) |-> LET c == Settled(s[i]) IN
     IF c \in {"<", ">", "&", "quot", "apos", "tab", "cr"} \/ (c = "nl" /\ escapeNewline)
     THEN CHOOSE r \in Entities : References[r] = c ELSE c]

\* Of attributes.
EscapeString(s) == EscapeText(s, TRUE)

Holds(s, mark) == \E i \in 0..(Len(s) - Len(mark)) : SubSeq(s, i + 1, i + Len(mark)) = mark
EndsWith(s, mark) == Len(s) >= Len(mark) /\ SubSeq(s, Len(s) - Len(mark) + 1, Len(s)) = mark

BegComment == <<"<", "!", "-", "-">>
EndComment == <<"-", "-", ">">>
EndProcInst == <<"?", ">">>

First == {"a", "xml", ":"}
Second == {"1"}
IsName(s) == s # <<>> /\ s[1] \in First /\ \A i \in 1..Len(s) : s[i] \in First \cup Second

IsNameString(s) == IsName(s)

\* isValidDirective, one character.
Balance(dir, s, i) ==
  LET c == dir[i] IN
  CASE ~s.ok -> s
    [] s.incomment -> [s EXCEPT !.incomment = ~EndsWith(SubSeq(dir, 1, i), EndComment)]
    [] ~s.incomment /\ s.inquote # Nothing -> [s EXCEPT !.inquote = IF c = @ THEN Nothing ELSE @]
    [] OTHER ->
       CASE c \in Quotes -> [s EXCEPT !.inquote = c]
         [] c = "<" -> IF i - 1 + 4 < Len(dir) /\ SubSeq(dir, i, i + 3) = BegComment THEN [s EXCEPT !.incomment = TRUE] ELSE [s EXCEPT !.depth = @ + 1]
         [] c = ">" -> IF s.depth = 0 THEN [s EXCEPT !.ok = FALSE] ELSE [s EXCEPT !.depth = @ - 1]
         [] OTHER -> s
IsValidDirective(dir) ==
  LET s == FoldLeftDomain(LAMBDA acc, i : Balance(dir, acc, i), [ok |-> TRUE, depth |-> 0, inquote |-> Nothing, incomment |-> FALSE], dir)
  IN s.ok /\ s.depth = 0 /\ s.inquote = Nothing /\ ~s.incomment

MayEncode ==
  CASE form = "comment" -> ~Holds(value, EndComment)
    [] form = "inst" -> IsNameString(target) /\ ~Holds(value, EndProcInst)
    [] form = "directive" -> IsValidDirective(value)
    [] OTHER -> TRUE

\* EncodeToken; a client writes the raw ones.
EncodeToken ==
  /\ reading = "not yet"
  /\ reading' = IF MayEncode THEN "reading" ELSE "refused"
  /\ text' = CASE form = "text" -> Append(EscapeText(value, FALSE), "<")
               [] form = "rawText" -> Append(value, "<")
               [] form = "attr" -> <<"quot">> \o EscapeString(value) \o <<"quot">>
               [] form = "cdata" -> value \o <<"]", "]", ">">>
               [] form = "comment" -> value \o EndComment
               [] form = "inst" -> target \o (IF value = <<>> THEN <<>> ELSE <<"sp">>) \o value \o EndProcInst
               [] form = "directive" -> Append(value, ">")
               [] OTHER -> value
  /\ UNCHANGED <<form, value, pieces, target, place, before, nested, buf>>
-----------------------------------------------------------------------------
(* The decoder.                                                                   *)

Next1 == text[place + 1]
CanRead == reading = "reading" /\ place < Len(text)
\* getc.
Getc == CanRead /\ place' = place + 1 /\ UNCHANGED <<form, value, pieces, target, text>>
\* getc and ungetc.
Ungetc == CanRead /\ UNCHANGED <<place, form, value, pieces, target, text>>
Shift(b) == before' = <<before[2], b>>

Legal(s) == \A i \in 1..Len(s) : s[i] \notin Illegal
\* text's end.
EndText(s) == buf' = s /\ reading' = (IF Legal(s) THEN "done" ELSE "failed") /\ UNCHANGED <<before, nested>>
FailText == reading' = "failed" /\ UNCHANGED <<buf, before, nested>>

InText == form \in {"text", "rawText", "attr", "rawAttr", "cdata"}
InAttr == form \in {"attr", "rawAttr"}
AtBrackets(b) == before = <<"]", "]">> /\ b = ">"
Opening == InAttr /\ place = 0

\* attrval, by a strict decoder.
OpenValue ==
  /\ Opening /\ Getc
  /\ IF Next1 \in Quotes THEN UNCHANGED <<before, nested, buf, reading>> ELSE FailText

\* text, one symbol: what ends it or makes it fail,
EndsText(b) == AtBrackets(b) \/ (form # "cdata" /\ b = "<") \/ (InAttr /\ b = text[1])
StopText ==
  /\ InText /\ ~Opening /\ CanRead /\ EndsText(Next1)
  /\ CASE AtBrackets(Next1) -> Getc /\ IF form = "cdata" THEN EndText(SubSeq(buf, 1, Len(buf) - 2)) ELSE FailText
       [] ~AtBrackets(Next1) /\ Next1 = "<" -> Ungetc /\ IF InAttr THEN FailText ELSE EndText(buf)
       [] OTHER -> Getc /\ EndText(buf)

\* After a reference no bracket or line end counts.
Forget(b) == before' = <<Nothing, Nothing>>
\* A reference,
ReadReference ==
  /\ InText /\ form # "cdata" /\ ~Opening /\ CanRead /\ Next1 \in Entities \cup Unreadable /\ Getc
  /\ IF Next1 \in Entities THEN buf' = Append(buf, References[Next1]) /\ Forget(Next1) /\ UNCHANGED <<nested, reading>> ELSE FailText

\* or any other.
ReadChar ==
  /\ InText /\ ~Opening /\ CanRead /\ ~EndsText(Next1) /\ (form = "cdata" \/ Next1 \notin Entities \cup Unreadable) /\ Getc
  /\ buf' = CASE Next1 = "cr" -> Append(buf, "nl")
              [] Next1 = "nl" /\ before[2] = "cr" -> buf
              [] OTHER -> Append(buf, Next1)
  /\ Shift(Next1) /\ UNCHANGED <<nested, reading>>

\* <!--: up to -->.
Closes(b) == b = ">" /\ before = <<"-", "-">>
ReadComment ==
  /\ form = "comment" /\ CanRead /\ Getc /\ Shift(Next1) /\ UNCHANGED nested
  /\ IF Closes(Next1) THEN buf' = SubSeq(buf, 1, Len(buf) - 2) /\ reading' = "done" ELSE buf' = Append(buf, Next1) /\ UNCHANGED reading

\* readName reads all of these; isName looks at them afterwards.
NameBytes == First \cup Second \cup {"odd"}
AfterName == Min({i \in 1..(Len(text) + 1) : i = Len(text) + 1 \/ text[i] \notin NameBytes}) - 1
\* The spaces after it are skipped.
AfterSpace == Min({i \in (AfterName + 1)..(Len(text) + 1) : i = Len(text) + 1 \/ text[i] # "sp"}) - 1

\* procInst: the first value of that name.
ProcInst(param, s) ==
  LET at == {i \in 1..Len(s) : s[i] = param}
      from == Min(at) + 1
      ends == {i \in (from + 1)..Len(s) : s[i] = s[from]}
  IN IF at = {} \/ from > Len(s) \/ s[from] \notin Quotes \/ ends = {} THEN <<>> ELSE SubSeq(s, from + 1, Min(ends) - 1)

\* The declaration; no decoder of WebDAV has a CharsetReader.
Declared(s) == ProcInst("version=", s) \in {<<>>, <<"1.0">>} /\ ProcInst("encoding=", s) \in {<<>>, <<"utf-8">>}

ReadTarget ==
  /\ form = "inst" /\ CanRead /\ place = 0
  /\ place' = AfterSpace
  /\ reading' = IF IsName(SubSeq(text, 1, AfterName)) THEN "reading" ELSE "failed"
  /\ UNCHANGED <<form, value, pieces, target, text, before, nested, buf>>
ReadInst ==
  /\ form = "inst" /\ CanRead /\ place > 0 /\ Getc /\ Shift(Next1) /\ UNCHANGED nested
  /\ IF Next1 = ">" /\ before[2] = "?"
     THEN LET data == Front(buf) IN
          buf' = data /\ reading' = (IF SubSeq(text, 1, AfterName) = <<"xml">> /\ ~Declared(data) THEN "failed" ELSE "done")
     ELSE buf' = Append(buf, Next1) /\ UNCHANGED reading

\* HandleB.
Handle(b) ==
  CASE b = nested.inquote -> [nested EXCEPT !.inquote = Nothing]
    [] b # nested.inquote /\ nested.inquote # Nothing -> nested
    [] OTHER -> CASE b \in Quotes -> [nested EXCEPT !.inquote = b]
                  [] b = ">" -> [nested EXCEPT !.depth = @ - 1]
                  [] b = "<" -> [nested EXCEPT !.seen = 1]
                  [] OTHER -> nested

InComment == nested.seen = 4
\* <!: up to > of the same depth, outside of quotes; comments are left out.  What begins
\* with - or [ is another token.
ReadFirst ==
  /\ form = "directive" /\ CanRead /\ place = 0 /\ Getc /\ UNCHANGED <<before, nested>>
  /\ IF Next1 \in {"-", "["} THEN reading' = "failed" /\ UNCHANGED buf ELSE buf' = <<Next1>> /\ UNCHANGED reading
ReadDirective ==
  /\ form = "directive" /\ CanRead /\ place > 0 /\ nested.seen = 0 /\ Getc /\ UNCHANGED before
  /\ IF Next1 = ">" /\ nested.inquote = Nothing /\ nested.depth = 0 THEN reading' = "done" /\ UNCHANGED <<buf, nested>>
     ELSE buf' = Append(buf, Next1) /\ nested' = Handle(Next1) /\ UNCHANGED reading
ReadOpening ==
  /\ form = "directive" /\ CanRead /\ nested.seen \in 1..3 /\ Getc /\ UNCHANGED reading
  /\ IF Next1 = BegComment[nested.seen + 1]
     THEN nested' = [nested EXCEPT !.seen = @ + 1] /\ before' = <<Nothing, Nothing>> /\ buf' = IF nested.seen = 3 THEN Front(buf) ELSE buf
     ELSE /\ nested' = LET sub == Handle(Next1) IN [sub EXCEPT !.depth = @ + 1, !.seen = IF Next1 = "<" THEN 1 ELSE 0]
          /\ buf' = buf \o SubSeq(BegComment, 2, nested.seen) \o <<Next1>> /\ UNCHANGED before
SkipComment ==
  /\ form = "directive" /\ CanRead /\ InComment /\ Getc /\ Shift(Next1) /\ UNCHANGED <<buf, reading>>
  /\ nested' = IF Closes(Next1) THEN [nested EXCEPT !.seen = 0] ELSE nested

\* The document ends first.
FailEOF == reading = "reading" /\ place = Len(text) /\ FailText /\ UNCHANGED <<form, value, pieces, target, text, place>>

TextNext ==
  \/ \E p \in Pieces[form] : Compose(p)
  \/ EncodeToken \/ OpenValue \/ StopText \/ ReadReference \/ ReadChar \/ ReadComment \/ ReadTarget \/ ReadInst
  \/ ReadFirst \/ ReadDirective \/ ReadOpening \/ SkipComment \/ FailEOF
TextSpec == TextInit /\ [][TextNext]_textVars
-----------------------------------------------------------------------------
Ended == reading \in {"done", "failed"}

\* The type invariant: a directive's depth never sinks below its start.
TextTypeOK ==
  /\ reading \in {"not yet", "reading", "done", "failed", "refused"} /\ place \in 0..Len(text)
  /\ nested.depth \in 0..Len(text) /\ nested.seen \in 0..4 /\ Len(buf) <= Len(text)

\* What is written as a text or an attribute is read, and is what it was: a character no
\* document may hold has become the replacement character, a carriage return is still one.
WrittenIsRead ==
  form \in {"text", "attr"} /\ Ended => reading = "done" /\ buf = [i \in 1..Len(value) |-> Settled(value[i])]

\* What stands there, of what a client sends.
Content ==
  LET from == IF InAttr THEN 2 ELSE 1
      upTo(i) == IF form = "cdata" THEN i + 2 <= Len(text) /\ SubSeq(text, i, i + 2) = <<"]", "]", ">">>
                 ELSE IF InAttr THEN text[i] = text[1] ELSE text[i] = "<"
      ends == {i \in from..Len(text) : upTo(i)}
  IN IF ends = {} THEN <<"bad">> ELSE SubSeq(text, from, Min(ends) - 1)
Normal(s) ==
  FoldLeftDomain(LAMBDA acc, i :
    CASE s[i] \in Entities /\ form # "cdata" -> Append(acc, References[s[i]])
      [] s[i] = "cr" -> Append(acc, "nl")
      [] s[i] = "nl" /\ i > 1 /\ s[i - 1] = "cr" -> acc
      [] OTHER -> Append(acc, s[i]), <<>>, s)
Readable(s) ==
  /\ Legal(Normal(s))
  /\ form # "cdata" => ~Holds(s, <<"]", "]", ">">>) /\ \A i \in 1..Len(s) : s[i] \notin Unreadable
  /\ InAttr => text[1] \in Quotes /\ ~Holds(s, <<"<">>)

\* A text, attribute or CDATA section of a client is read if it may stand there, up to where
\* it ends, with its references replaced and its line ends as one.
RawIsNormal ==
  form \in {"rawText", "rawAttr", "cdata"} /\ Ended =>
    /\ (reading = "done") = Readable(Content)
    /\ reading = "done" => buf = Normal(Content)

TrimLeft(s) == SubSeq(s, Min({i \in 1..(Len(s) + 1) : i = Len(s) + 1 \/ s[i] # "sp"}), Len(s))
\* A comment or instruction that EncodeToken accepts is read to its end, and as it is, but for
\* the spaces before an instruction's text.
MarksHold ==
  /\ form = "comment" /\ Ended => reading = "done" /\ place = Len(text) /\ buf = value
  /\ form = "inst" /\ reading = "done" => place = Len(text) /\ buf = TrimLeft(value)
  /\ form = "inst" /\ reading = "failed" => target = <<"xml">>

\* An XML declaration is taken only if the version and the encoding it states are known.
DeclaredIsKnown ==
  form = "inst" /\ target = <<"xml">> /\ Ended =>
    \A name \in {"version=", "encoding="} : \A q \in Quotes : \A w \in {"1.0", "utf-8", "else"} :
      /\ reading = "done"
      /\ \E i \in 1..(Len(value) - 3) : SubSeq(value, i, i + 3) = <<name, q, w, q>> /\ \A j \in 1..(i - 1) : value[j] # name
      => w = IF name = "version=" THEN "1.0" ELSE "utf-8"

\* The decoder takes a directive's first character as it is, and a comment to be longer
\* than <!--> and <!--->.
Peculiar(dir) == dir = <<>> \/ dir[1] \in {"<", "-", "["} \cup Quotes \/ Holds(dir, BegComment \o <<">">>) \/ Holds(dir, BegComment \o <<"-", ">">>)
\* Any other directive that isValidDirective accepts is one token to the decoder, up to its end.
DirectiveIsOne == form = "directive" /\ Ended /\ ~Peculiar(value) => reading = "done" /\ place = Len(text)

\* Texts and marks are read as they were written.
TextHolds == TextTypeOK /\ WrittenIsRead /\ RawIsNormal /\ MarksHold /\ DeclaredIsKnown /\ DirectiveIsOne
=============================================================================
