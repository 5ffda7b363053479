------------------------------- MODULE Markup -------------------------------
(***************************************************************************)
(* What the parse data plugins have in common: an article is taken apart   *)
(* token by token into items of Pango markup, with the place and length of *)
(* every link in the text that is shown (parsedata_plugin.h).              *)
(*                                                                         *)
(* Markup is a sequence of units.  What a unit shows takes one place; by   *)
(* is the number of the link it was written for, 0 outside of links.       *)
(***************************************************************************)
EXTENDS Integers, Sequences, SequencesExt, FiniteSets

VARIABLES
    src, p,                       \* the tokens, and the place of the next one
    res, cur_pos, links_list,     \* the item being written
    item_list, done,
    ctx                           \* what else a parser keeps from token to token

Unit(k, tag, by) == [k |-> k, tag |-> tag, by |-> by]
Char == Unit("char", "", 0)
Entity == Unit("entity", "", 0)       \* one of the five that XML predefines
Ref == Unit("ref", "", 0)             \* a character reference such as &#39;
Bad == Unit("bad", "", 0)             \* what Pango refuses to parse
Open(tag) == Unit("open", tag, 0)
Close(tag) == Unit("close", tag, 0)
Span(units) == <<Open("span")>> \o units \o <<Close("span")>>

Each(f(_), s) == FlattenSeq([i \in DOMAIN s |-> f(s[i])])
Linked(units) == [i \in DOMAIN units |-> [units[i] EXCEPT !.by = Len(links_list) + 1]]

\* What takes a place in the text; so would what Pango refuses.
Visible == {"char", "entity", "ref", "bad"}

\* How many places the first n units take.
Places(units) == [n \in 0..Len(units) |-> Cardinality({i \in 1..n : units[i].k \in Visible})]

\* Of the predefined entities xml_strlen counts one, of another reference each character.
RefLen == 5
xml_strlen(units) ==
    LET Of(kinds) == {i \in DOMAIN units : units[i].k \in kinds}
    IN Cardinality(Of(Visible \ {"ref"})) + RefLen * Cardinality(Of({"ref"}))

\* pango_parse_markup: all elements closed, in the reverse order of their opening.
Nest(stack, u) ==
    CASE u.k = "open" -> Append(stack, u.tag)
      [] u.k = "close" /\ stack # <<>> /\ Last(stack) = u.tag -> Front(stack)
      [] u.k \in {"close", "bad"} -> <<"refused">> \o stack
      [] OTHER -> stack
Nesting(units) ==
    LET after[n \in 0..Len(units)] ==
            IF n = 0 THEN <<>> ELSE Nest(after[n - 1], units[n])
    IN after[Len(units)]
WellFormed(units) == Nesting(units) = <<>>

Find(tokens, from) == SelectInSubSeq(src, from, Len(src), LAMBDA t : t \in tokens)
Tokens(from, to) == SubSeq(src, from, to)

Start(sources) ==
    /\ src \in sources
    /\ p = 1 /\ res = <<>> /\ cur_pos = 0 /\ links_list = <<>>
    /\ item_list = <<>> /\ done = FALSE
    /\ ctx = [first |-> TRUE, elem |-> "", marks |-> <<>>, islink |-> FALSE]

Write(units, count, to) ==
    /\ res' = res \o units
    /\ cur_pos' = cur_pos + count
    /\ p' = to
    /\ UNCHANGED <<src, links_list, item_list, done>>

\* A link is put on the list before its text is written; lead stands before it.
WriteLink(lead, units, count, to) ==
    LET pos == cur_pos + xml_strlen(lead)
    IN /\ links_list' = Append(links_list, [pos |-> pos, len |-> count])
       /\ res' = res \o lead \o Span(Linked(units))
       /\ cur_pos' = pos + count
    /\ p' = to
    /\ UNCHANGED <<src, item_list, done>>

Item(units) == [type |-> "link", pango |-> units, links_list |-> links_list]
Resource == [type |-> "res", pango |-> Span(<<Char>>), links_list |-> <<>>]

\* A resource ends the item: the next one starts with no text and no links.
WriteResource(to) ==
    /\ item_list' = item_list \o <<Item(res), Resource>>
    /\ res' = <<>> /\ cur_pos' = 0 /\ links_list' = <<>>
    /\ p' = to
    /\ UNCHANGED <<src, done>>

Finish(units) ==
    /\ item_list' = Append(item_list, Item(res \o units))
    /\ done' = TRUE
    /\ UNCHANGED <<src, p, res, cur_pos, links_list>>

-----------------------------------------------------------------------------
\* The elements of the source are closed in the reverse order of their opening; of
\* what stands in a link, which is not parsed, only its end counts.
Proper(pairs, links) ==
    LET Step(stack, t) ==
            LET top == IF stack = <<>> THEN <<"", "">> ELSE Last(stack)
            IN IF t = top[2] THEN Front(stack)
               ELSE IF top \in links THEN stack
               ELSE IF \E pair \in pairs \cup links : t = pair[1]
                    THEN Append(stack, CHOOSE pair \in pairs \cup links : t = pair[1])
               ELSE IF \E pair \in pairs \cup links : t = pair[2] THEN <<<<"", "">>>> \o stack
               ELSE stack
        after[n \in 0..Len(src)] == IF n = 0 THEN <<>> ELSE Step(after[n - 1], src[n])
    IN after[Len(src)] = <<>>

PlacesOf(units, n) ==
    {Places(units)[i] : i \in {j \in DOMAIN units : units[j].k \in Visible /\ units[j].by = n}}
InPlace(item) ==
    \A n \in DOMAIN item.links_list :
        LET link == item.links_list[n]
        IN PlacesOf(item.pango, n) = (link.pos + 1)..(link.pos + link.len)

\* parse_data of the program joins the markup of all items into one text.
Joined == Each(LAMBDA item : item.pango, item_list)
=============================================================================
