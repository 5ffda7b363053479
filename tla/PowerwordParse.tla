--------------------------- MODULE PowerwordParse ---------------------------
(***************************************************************************)
(* The PowerWord plugin (stardict_powerword_parsedata.cpp).  GMarkup calls *)
(* it for every element of an article that starts ("first" stands for the  *)
(* basic meaning, whose first heading is left out, "start" for the others) *)
(* and for every CDATA section, which is written here as the name of its   *)
(* kind, the tokens of its text and "end".  In a text "&b(" ... ")" is     *)
(* bold, "&X(" a transcription, "&l(" a link and "&?(" nothing known; in   *)
(* the articles the parentheses are braces.                                *)
(***************************************************************************)
EXTENDS Markup

Kinds == {"phonetic", "word", "styled", "plain"}
TextTokens == {"c", "'", "<", "&", ")", "&b(", "&X(", "&l(", "&?("}

\* g_markup_escape_text, which writes an apostrophe as a character reference; in
\* transcriptions "'" stands for what toUtfPhonetic turns into one too.
Escaped(t) ==
    CASE t \in {"c", ")"} -> <<Char>>
      [] t = "'" -> <<Ref>>
      [] t \in {"<", "&"} -> <<Entity>>
      [] OTHER -> <<Entity, Char, Char>>
EscapedText(tokens) == Each(Escaped, tokens)

Heading == <<Char>> \o Span(<<Entity, Char, Entity>>)
NewLine == IF res = <<>> THEN <<>> ELSE <<Char>>
Prefix(kind) == CASE kind = "phonetic" -> <<Char, Open("span")>>
                  [] kind = "word" -> <<Open("b")>>
                  [] kind = "styled" -> <<Open("span")>>
                  [] OTHER -> <<>>
Suffix(kind) == CASE kind = "phonetic" -> <<Close("span"), Char>>
                  [] kind = "word" -> <<Close("b")>>
                  [] kind = "styled" -> <<Close("span")>>
                  [] OTHER -> <<>>
CloseMark(mark) == IF mark = "b" THEN <<Close("b")>> ELSE <<>>

Add(units, to) == Write(units, xml_strlen(units), to)
At(t) == ~done /\ p <= Len(src) /\ src[p] = t

start_element ==
    \/ At("start") /\ Add(Heading, p + 1) /\ UNCHANGED ctx
    \/ /\ At("first")
       /\ Add(IF ctx.first THEN <<>> ELSE Heading, p + 1)
       /\ ctx' = [ctx EXCEPT !.first = FALSE]

\* A headword that is the word looked up is not written again.
passthrough ==
    /\ \E kind \in Kinds :
        /\ At(kind)
        /\ \/ /\ Add(NewLine \o Prefix(kind), p + 1)
              /\ ctx' = [ctx EXCEPT !.elem = kind, !.marks = <<>>, !.islink = FALSE]
           \/ /\ kind = "word"
              /\ Add(<<>>, Find({"end"}, p) + 1)
              /\ UNCHANGED ctx

escape ==
    /\ ctx.elem \in {"phonetic", "word"}
    /\ \E t \in TextTokens : At(t) /\ Add(Escaped(t), p + 1)
    /\ UNCHANGED ctx

\* Mutant of Leftover: marks left open are closed in the order of their opening.
LeftoverInOrder == <<Suffix(ctx.elem), Each(CloseMark, ctx.marks)>>

\* What is written at the end of a section: the marks that are open are closed.
Leftover == <<Each(CloseMark, Reverse(ctx.marks)), Suffix(ctx.elem)>>

end ==
    /\ At("end")
    /\ Add(FlattenSeq(Leftover), p + 1)
    /\ ctx' = [ctx EXCEPT !.elem = "", !.marks = <<>>]

\* powerword_markup_add_text: a character, a mark that opens, and one that closes.
InText(t) == ctx.elem \in {"styled", "plain"} /\ At(t)
character ==
    \E t \in {"c", "'", "<", "&"} :
        /\ InText(t)
        /\ Add(<<IF t = "c" THEN Char ELSE Entity>>, p + 1)
        /\ ctx' = [ctx EXCEPT !.islink = FALSE]

open_mark ==
    \E mark \in {"b", "?"} :
        /\ InText(IF mark = "b" THEN "&b(" ELSE "&?(")
        /\ Add(IF mark = "b" THEN <<Open("b")>> ELSE <<>>, p + 1)
        /\ ctx' = [ctx EXCEPT !.marks = Append(@, mark)]

close_mark ==
    /\ InText(")")
    /\ Add(IF ctx.marks = <<>> THEN <<Char>> ELSE CloseMark(Last(ctx.marks)), p + 1)
    /\ ctx' = [ctx EXCEPT !.marks = IF @ = <<>> THEN @ ELSE Front(@), !.islink = FALSE]

\* The text of a transcription or a link ends at the next ")", or with the section.
TagEnd == Find({")", "end"}, p + 1)
Beyond == IF src[TagEnd] = ")" THEN TagEnd + 1 ELSE TagEnd
transcription ==
    /\ InText("&X(")
    /\ Add(Span(EscapedText(Tokens(p + 1, TagEnd - 1))), Beyond)
    /\ ctx' = [ctx EXCEPT !.islink = FALSE]

link ==
    /\ InText("&l(")
    /\ LET text == EscapedText(Tokens(p + 1, TagEnd - 1))
           tab == IF ctx.islink THEN <<Char>> ELSE <<>>
       IN WriteLink(tab, text, xml_strlen(text), Beyond)
    /\ ctx' = [ctx EXCEPT !.islink = TRUE]

finish == ~done /\ p > Len(src) /\ Finish(<<>>) /\ UNCHANGED ctx

powerword2link ==
    \/ start_element \/ passthrough \/ escape \/ end \/ character
    \/ open_mark \/ close_mark \/ transcription \/ link \/ finish
=============================================================================
