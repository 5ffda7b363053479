--------------------------- MODULE MCSearchWindow ---------------------------
(***************************************************************************)
(* Four dictionaries: one whose articles all have two texts, some of them  *)
(* empty, and in which two articles share a word, one whose articles name  *)
(* the types of their sections, the last of which is a block, one of       *)
(* pictures, which is not searched, and one with nothing but an empty text.*)
(***************************************************************************)
EXTENDS SearchWindow

a == 97
b == 98
m == 109
t == 116
P == 80

text(type, chars) == [type |-> type, text |-> chars]

SameType == [words |-> <<1, 2, 2>>, syns |-> <<3>>, sts |-> <<m, t>>,
             articles |-> <<<<text(m, <<b>>), text(t, <<b, m, a>>)>>,
                            <<text(m, <<a, m, Space, a, b>>), text(t, <<>>)>>,
                            <<text(m, <<>>), text(t, <<m, a, a, b>>)>>>>]
Typed == [words |-> <<2, 4>>, syns |-> <<>>, sts |-> <<>>,
          articles |-> <<<<text(m, <<a>>), text(t, <<Space, a, b>>)>>,
                         <<text(t, <<m, a>>), text(P, <<a, b>>)>>>>]
Pictures == [words |-> <<5>>, syns |-> <<5, 6>>, sts |-> <<P>>,
             articles |-> <<<<text(P, <<a, b>>)>>>>]

Blank == [words |-> <<2>>, syns |-> <<>>, sts |-> <<m>>, articles |-> <<<<text(m, <<>>)>>>>]

MCDictionary == [d \in {"same", "typed", "pictures", "blank"} |->
                    CASE d = "same" -> SameType [] d = "typed" -> Typed
                      [] d = "blank" -> Blank [] OTHER -> Pictures]
MCDictLists == {<<>>, <<"pictures", "typed">>, <<"typed", "same">>, <<"blank">>}

\* "|m\\a  b" asks for two words, "|\\ a" for a word with a space, "| " for none; "*"
\* and ":b" match more or fewer words, and "\\*/" and "/*" do not ask for a pattern.
MCTexts == {<<>>, <<Bar, m, BackSlash, a, Space, Space, b>>, <<Bar, BackSlash, Space, a>>,
            <<Bar, Space>>, <<Star>>, <<Colon, b>>, <<BackSlash, Star, Slash>>,
            <<Slash, Star>>}
MCMatching == [q \in {<<Star>>, <<b>>} |-> IF q = <<Star>> THEN 1..6 ELSE {2, 3}]
=============================================================================
