----------------------------- MODULE WikiLines ------------------------------
(***************************************************************************)
(* The wiki plugin, line by line (WIKI2XML.cpp): lists, which are opened   *)
(* and closed by how the prefixes of two lines differ, tables, which are   *)
(* kept on a stack, headings and the like.  The XML written is a sequence  *)
(* of opening and closing tags; elements that are written whole and text   *)
(* are left out, for they are well formed wherever they stand.             *)
(*                                                                         *)
(* A line is a prefix of list characters and what follows it.              *)
(***************************************************************************)
EXTENDS Naturals, Sequences, SequencesExt, FiniteSets

VARIABLES
    lines, a,          \* the lines, and the one to parse next
    xml,
    list,              \* the list characters of the last line
    tables,            \* open tables: [tr_open, td_open]
    undefined          \* the top of an empty stack of tables has been used

vars == <<lines, a, xml, list, tables, undefined>>

Open(tag) == [open |-> TRUE, tag |-> tag]
Close(tag) == [open |-> FALSE, tag |-> tag]

\* Bodies of lines; "cells" is a line of two cells, "|}}" ends a template.
Bodies == {"", "text", "{|", "|}", "|}}", "|-", "cell", "cells"}
InTable == {"|}", "|}}", "|-", "cell", "cells"}

ListTag(c) == CASE c = "*" -> "ul" [] c = "#" -> "ol" [] c = ":" -> "dl"
ItemName(c) == IF c = ":" THEN "dd" ELSE "li"
get_list_tag(c, open) == IF open THEN <<Open(ListTag(c)), Open(ItemName(c))>>
                         ELSE <<Close(ItemName(c)), Close(ListTag(c))>>

\* fix_list: what the two prefixes have in common stays open.
Common(newlist) ==
    CHOOSE n \in 0..Len(list) :
        /\ n <= Len(newlist) /\ SubSeq(list, 1, n) = SubSeq(newlist, 1, n)
        /\ (n < Len(list) /\ n < Len(newlist)) => list[n + 1] # newlist[n + 1]

\* Mutant of fix_list: old lists are closed from the outside in.
fix_list_outer(newlist) ==
    LET n == Common(newlist)
    IN FlattenSeq([i \in 1..(Len(list) - n) |-> get_list_tag(list[n + i], FALSE)]) \o
       FlattenSeq([i \in 1..(Len(newlist) - n) |-> get_list_tag(newlist[n + i], TRUE)])

fix_list(newlist) ==
    LET n == Common(newlist)
    IN FlattenSeq([i \in 1..(Len(list) - n) |-> get_list_tag(list[Len(list) + 1 - i], FALSE)]) \o
       FlattenSeq([i \in 1..(Len(newlist) - n) |-> get_list_tag(newlist[n + i], TRUE)])

\* The same prefix again is the next item of the same list.
NextItem(newlist) ==
    IF newlist # <<>> /\ newlist = list
    THEN <<Close(ItemName(Last(list))), Open(ItemName(Last(list)))>> ELSE <<>>

-----------------------------------------------------------------------------
TTableInfo == [tr_open |-> FALSE, td_open |-> FALSE]
CloseCell(t) == IF t.td_open THEN <<Close("wikitablecell")>> ELSE <<>>
CloseRow(t) == CloseCell(t) \o (IF t.tr_open THEN <<Close("wikitablerow")>> ELSE <<>>)
close(t) == CloseRow(t) \o <<Close("wikitable")>>
new_row(t) == CloseRow(t) \o <<Open("wikitablerow")>>
InRow == [tr_open |-> TRUE, td_open |-> FALSE]
\* new_row() has closed the cell that was open, and says so in td_open.
new_cell(t) ==
    LET row == IF t.tr_open THEN t ELSE InRow
    IN (IF t.tr_open THEN <<>> ELSE new_row(t)) \o CloseCell(row) \o <<Open("wikitablecell")>>
InCell == [tr_open |-> TRUE, td_open |-> TRUE]

\* Which lines are table markup: those that begin with "|" only while a table is open.
IsTable(body) == body \in {"{|", "|}"} \/ (body \in InTable /\ tables # <<>>)

Top == Last(tables)
table_markup(body) ==
    CASE body = "{|" -> <<Open("wikitable")>>
      [] body \in {"|}", "|}}"} -> close(Top)
      [] body = "|-" -> new_row(Top)
      [] body = "cell" -> new_cell(Top)
      [] body = "cells" -> new_cell(Top) \o new_cell(InCell)

TablesAfter(body) ==
    CASE body = "{|" -> Append(tables, TTableInfo)
      [] body \in {"|}", "|}}"} -> Front(tables)
      [] body = "|-" -> Append(Front(tables), InRow)
      [] OTHER -> Append(Front(tables), InCell)

-----------------------------------------------------------------------------
Start(sources) ==
    /\ lines \in sources
    /\ a = 1 /\ xml = <<>> /\ list = <<>> /\ tables = <<>> /\ undefined = FALSE

More == a <= Len(lines) /\ ~undefined

parse_line ==
    /\ More
    /\ LET line == lines[a]
           pre == fix_list(line.prefix) \o NextItem(line.prefix)
       IN /\ ~ (line.body = "|}" /\ tables = <<>>)
          /\ xml' = xml \o pre \o (IF IsTable(line.body) THEN table_markup(line.body) ELSE <<>>)
          /\ tables' = IF IsTable(line.body) THEN TablesAfter(line.body) ELSE tables
          /\ list' = line.prefix
    /\ a' = a + 1
    /\ UNCHANGED <<lines, undefined>>

\* "|}" without a table: tables[tables.size()-1] of an empty vector.
parse_line_undefined ==
    /\ More
    /\ lines[a].body = "|}" /\ tables = <<>>
    /\ undefined' = TRUE
    /\ UNCHANGED <<lines, a, xml, list, tables>>

\* parse_lines: lists and tables that are still open are closed, lists first.
Cleanup ==
    /\ a = Len(lines) + 1 /\ ~undefined
    /\ xml' = xml \o fix_list(<<>>) \o
              FlattenSeq([i \in DOMAIN tables |-> close(tables[Len(tables) + 1 - i])])
    /\ list' = <<>> /\ tables' = <<>>
    /\ a' = a + 1
    /\ UNCHANGED <<lines, undefined>>

parse_lines == parse_line \/ parse_line_undefined \/ Cleanup

-----------------------------------------------------------------------------
Nest(stack, u) ==
    IF u.open THEN Append(stack, u.tag)
    ELSE IF stack # <<>> /\ Last(stack) = u.tag THEN Front(stack)
    ELSE <<"refused">> \o stack
Nesting(units) ==
    LET after[n \in 0..Len(units)] ==
            IF n = 0 THEN <<>> ELSE Nest(after[n - 1], units[n])
    IN after[Len(units)]
Finished == a = Len(lines) + 2

\* No table markup behind list characters.
Separate == \A i \in DOMAIN lines : lines[i].prefix # <<>> => lines[i].body \in {"", "text"}

\* Every "|}" has its "{|" before it; a "|}}" in a table ends it as well.
Matched ==
    \A i \in DOMAIN lines : lines[i].body = "|}" =>
        LET count(bodies) == Cardinality({j \in 1..i : lines[j].body \in bodies})
        IN count({"{|"}) >= count({"|}", "|}}"})

\* wikixml2pango reads the XML with GMarkup, which stops at the first tag that does
\* not fit: everything opened for lists and tables is closed again, innermost first.
XmlNested == Finished /\ Separate => Nesting(xml) = <<>>

\* The stack of tables is only read while a table is open.
TablesKnown == Matched => ~undefined
=============================================================================
