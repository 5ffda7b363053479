----------------------------- MODULE MCLanguages ----------------------------
(***************************************************************************)
(* Tables of an instance of Collation: the alphabets of the languages that *)
(* lib/ctype-uca.cpp has a tailoring for, with the weights its pages have  *)
(* for their letters and the letters of the rules, and the sort values     *)
(* lib/ctype-utf8.cpp has for the words the instance uses.                 *)
(***************************************************************************)
EXTENDS Integers, SequencesExt, TLC

\* The default weights of the letters.
Primary ==
    [c \in {65, 97, 193, 194, 196, 197, 225, 226, 228, 229} \cup 258..261 |-> <<3635>>] @@
    [c \in {66, 98} |-> <<3658>>] @@
    [c \in {67, 99, 199, 231, 268, 269} \cup 262..265 |-> <<3680>>] @@
    [c \in {68, 100} |-> <<3693>>] @@
    [c \in {69, 101, 201, 233} \cup 278..281 |-> <<3723>>] @@
    [c \in {70, 102} |-> <<3769>>] @@
    [c \in {71, 103, 290, 291} \cup 284..287 |-> <<3777>>] @@
    [c \in {72, 104, 292, 293} |-> <<3809>>] @@
    [c \in {73, 105, 205, 206, 237, 238, 304} |-> <<3835>>] @@
    [c \in {74, 106, 308, 309} |-> <<3856>>] @@
    [c \in {75, 107, 310, 311} |-> <<3873>>] @@
    [c \in {76, 108, 315, 316} |-> <<3886>>] @@
    [c \in {77, 109} |-> <<3931>>] @@
    [c \in {78, 110, 209, 241} \cup 323..326 |-> <<3940>>] @@
    [c \in {79, 111, 336, 337} \cup 211..214 \cup 243..246 |-> <<3970>>] @@
    [c \in {80, 112} |-> <<4007>>] @@
    [c \in {81, 113} |-> <<4020>>] @@
    [c \in {82, 114} \cup 342..345 |-> <<4032>>] @@
    [c \in {83, 115, 536, 537} \cup 346..353 |-> <<4074>>] @@
    [c \in {84, 116, 354, 355, 538, 539} |-> <<4098>>] @@
    [c \in {85, 117, 218, 220, 250, 252, 364, 365, 368, 369} |-> <<4127>>] @@
    [c \in {86, 118} |-> <<4164>>] @@
    [c \in {87, 119} |-> <<4177>>] @@
    [c \in {88, 120} |-> <<4186>>] @@
    [c \in {89, 121, 221, 253} |-> <<4190>>] @@
    [c \in {90, 122} \cup 377..382 |-> <<4202>>] @@
    [c \in {198, 230} |-> <<3640>>] @@
    [c \in {208, 240} |-> <<3718>>] @@
    [c \in {216, 248} |-> <<3981>>] @@
    [c \in {222, 254} |-> <<4244>>] @@
    [c \in {223} |-> <<4074, 4074>>] @@
    [c \in {305} |-> <<3839>>] @@
    [c \in {321, 322} |-> <<3894>>] @@
    [c \in {768, 1648, 65140, 65151} \cup 1611..1616 \cup 1619..1621
               \cup 65136..65138 \cup 65142..65147 |-> <<>>] @@
    [c \in {1569, 65152} |-> <<4935>>] @@
    [c \in {1570, 65153, 65154} |-> <<4936>>] @@
    [c \in {1571, 65155, 65156} |-> <<4937>>] @@
    [c \in {1572, 65157, 65158} |-> <<4940>>] @@
    [c \in {1573, 65159, 65160} |-> <<4941>>] @@
    [c \in {1574} |-> <<4943>>] @@
    [c \in {1575, 65165, 65166} |-> <<4944>>] @@
    [c \in {1576} |-> <<4946>>] @@
    [c \in {1577, 65171, 65172} |-> <<4950>>] @@
    [c \in {1578} |-> <<4951>>] @@
    [c \in {1579} |-> <<4952>>] @@
    [c \in {1580} |-> <<4958>>] @@
    [c \in {1581} |-> <<4964>>] @@
    [c \in {1582} |-> <<4965>>] @@
    [c \in {1583} |-> <<4969>>] @@
    [c \in {1584} |-> <<4970>>] @@
    [c \in {1585, 65198} |-> <<4981>>] @@
    [c \in {1586} |-> <<4982>>] @@
    [c \in {1587} |-> <<4993>>] @@
    [c \in {1588} |-> <<4994>>] @@
    [c \in {1589} |-> <<4999>>] @@
    [c \in {1590} |-> <<5000>>] @@
    [c \in {1591} |-> <<5004>>] @@
    [c \in {1592} |-> <<5005>>] @@
    [c \in {1593} |-> <<5007>>] @@
    [c \in {1594} |-> <<5008>>] @@
    [c \in {1601} |-> <<5011>>] @@
    [c \in {1602, 65240} |-> <<5019>>] @@
    [c \in {1603} \cup 65241..65244 |-> <<5022>>] @@
    [c \in {1604} |-> <<5035>>] @@
    [c \in {1605} |-> <<5040>>] @@
    [c \in {1606} |-> <<5041>>] @@
    [c \in {1607} \cup 65257..65260 |-> <<5047>>] @@
    [c \in {1608, 65262} |-> <<5053>>] @@
    [c \in {1609, 65263, 65264} |-> <<5063>>] @@
    [c \in {1610} \cup 65265..65268 |-> <<5064>>] @@
    [c \in {1641} |-> <<3634>>] @@
    [c \in {1645} |-> <<715>>] @@
    [c \in {1649, 64336, 64337} |-> <<4939>>] @@
    [c \in {1662} |-> <<4948>>] @@
    [c \in {1670} |-> <<4961>>] @@
    [c \in {1673} |-> <<4972>>] @@
    [c \in {1674} |-> <<4973>>] @@
    [c \in {1688} |-> <<4990>>] @@
    [c \in {1705} \cup 64398..64401 |-> <<5023>>] @@
    [c \in {1711} |-> <<5029>>] @@
    [c \in {1728, 64420, 64421} |-> <<5052>>] @@
    [c \in {1740} \cup 64508..64511 |-> <<5065>>] @@
    [c \in {65020} |-> <<4981, 5065, 4944, 5035>>] @@
    [c \in {65269, 65270} |-> <<5035, 4936>>] @@
    [c \in {65271, 65272} |-> <<5035, 4937>>] @@
    [c \in {65273, 65274} |-> <<5035, 4941>>] @@
    [c \in {65275, 65276} |-> <<5035, 4944>>]

MCuca_length == 0 :> 4 @@ 1 :> 3 @@ 2 :> 3 @@ 3 :> 4 @@ 6 :> 3 @@ 251 :> 4 @@ 253 :> 9 @@ 254 :> 3
MCuca_weight ==
    [c \in DOMAIN Primary |->
        [k \in 1..MCuca_length[c \div 256] |->
            IF k <= Len(Primary[c]) THEN Primary[c][k] ELSE 0]]

\* The characters of words, in small letters and by their sort values.
Accented == {196, 197, 228, 229}
Carons == {268, 269}
Plain == (97..122) \cup {223, 768, 20013}
MCToLower == [c \in 65..90 \cup {196, 197} |-> c + 32] @@ 268 :> 269 @@
             [c \in Plain \cup {228, 229, 269} |-> c]
MCSort == [c \in Accented |-> 65] @@ [c \in Carons |-> 67] @@
          [c \in 97..122 |-> c - 32] @@ [c \in Plain \cup 65..90 |-> c]

\* UTF-8 of the characters used here, and words of them.
Utf8(c) == IF c < 128 THEN <<c>>
           ELSE IF c < 2048 THEN <<192 + (c \div 64), 128 + (c % 64)>>
           ELSE <<224 + (c \div 4096), 128 + ((c \div 64) % 64), 128 + (c % 64)>>
W(cs) == FlattenSeq([k \in DOMAIN cs |-> Utf8(cs[k])])
Letters(cs) == {W(<<c>>) : c \in cs}

\* A letter in all its forms: with its capital, and with what else is sorted in
\* its place.  1 to 3 stand for ch, ll and aa, which are sorted as one letter.
Pairs(c, d) == {<<c, d>>, <<c - 32, d>>, <<c - 32, d - 32>>}
CapitalOf(c) == IF c < 256 THEN c - 32 ELSE IF c < 1024 THEN c - 1 ELSE c
Spelt(c) ==
    CASE c = 1 -> Pairs(99, 104)
      [] c = 2 -> Pairs(108, 108)
      [] c = 3 -> Pairs(97, 97)
      [] c = 304 -> Letters({304, 105})
      [] c = 305 -> Letters({305, 73})
      [] OTHER -> Letters({c, CapitalOf(c)})
Order(letters, also) ==
    [k \in DOMAIN letters |->
        LET Forms == {letters[k]} \cup (IF letters[k] \in DOMAIN also THEN also[letters[k]] ELSE {})
        IN  UNION {Spelt(c) : c \in Forms}]

MCAlphabet ==
    [utf8_icelandic_ci |->
        Order(<<97, 225, 98, 99, 100, 240, 101, 233, 102, 103, 104, 105, 237, 106, 107,
            108, 109, 110, 111, 243, 112, 113, 114, 115, 116, 117, 250, 118, 119, 120,
            121, 253, 122, 254, 230, 246, 229>>, 230 :> {228} @@ 246 :> {248}),
     utf8_latvian_ci |->
        Order(<<97, 98, 99, 269, 100, 101, 102, 103, 291, 104, 105, 121, 106, 107, 311,
            108, 316, 109, 110, 326, 111, 112, 113, 114, 343, 115, 353, 116, 117, 118,
            119, 120, 122, 382>>, <<>>),
     utf8_romanian_ci |->
        Order(<<97, 259, 226, 98, 99, 100, 101, 102, 103, 104, 105, 238, 106, 107, 108,
            109, 110, 111, 112, 113, 114, 115, 537, 116, 539, 117, 118, 119, 120, 121,
            122>>, 537 :> {351} @@ 539 :> {355}),
     utf8_slovenian_ci |->
        Order(<<97, 98, 99, 269, 100, 101, 102, 103, 104, 105, 106, 107, 108, 109, 110,
            111, 112, 113, 114, 115, 353, 116, 117, 118, 119, 120, 121, 122, 382>>,
            <<>>),
     utf8_polish_ci |->
        Order(<<97, 261, 98, 99, 263, 100, 101, 281, 102, 103, 104, 105, 106, 107, 108,
            322, 109, 110, 324, 111, 243, 112, 113, 114, 115, 347, 116, 117, 118, 119,
            120, 121, 122, 378, 380>>, <<>>),
     utf8_estonian_ci |->
        Order(<<97, 98, 99, 100, 101, 102, 103, 104, 105, 106, 107, 108, 109, 110, 111,
            112, 113, 114, 115, 353, 122, 382, 116, 117, 118, 119, 245, 228, 246, 252,
            120, 121>>, <<>>),
     utf8_spanish_ci |->
        Order(<<97, 98, 99, 100, 101, 102, 103, 104, 105, 106, 107, 108, 109, 110, 241,
            111, 112, 113, 114, 115, 116, 117, 118, 119, 120, 121, 122>>, <<>>),
     utf8_swedish_ci |->
        Order(<<97, 98, 99, 100, 101, 102, 103, 104, 105, 106, 107, 108, 109, 110, 111,
            112, 113, 114, 115, 116, 117, 118, 119, 120, 121, 122, 229, 228, 246>>, 121
            :> {252} @@ 228 :> {230} @@ 246 :> {248}),
     utf8_turkish_ci |->
        Order(<<97, 98, 99, 231, 100, 101, 102, 103, 287, 104, 305, 304, 106, 107, 108,
            109, 110, 111, 246, 112, 113, 114, 115, 351, 116, 117, 252, 118, 119, 120,
            121, 122>>, <<>>),
     utf8_czech_ci |->
        Order(<<97, 98, 99, 269, 100, 101, 102, 103, 104, 1, 105, 106, 107, 108, 109,
            110, 111, 112, 113, 114, 345, 115, 353, 116, 117, 118, 119, 120, 121, 122,
            382>>, <<>>),
     utf8_danish_ci |->
        Order(<<97, 98, 99, 100, 101, 102, 103, 104, 105, 106, 107, 108, 109, 110, 111,
            112, 113, 114, 115, 116, 117, 118, 119, 120, 121, 122, 230, 248, 229>>, 121
            :> {252, 369} @@ 230 :> {228} @@ 248 :> {246, 337} @@ 229 :> {3}),
     utf8_lithuanian_ci |->
        Order(<<97, 98, 99, 269, 100, 101, 102, 103, 104, 105, 106, 107, 108, 109, 110,
            111, 112, 113, 114, 115, 353, 116, 117, 118, 119, 120, 122, 382>>, 101 :>
            {281, 279} @@ 105 :> {121}),
     utf8_slovak_ci |->
        Order(<<97, 228, 98, 99, 269, 100, 101, 102, 103, 104, 1, 105, 106, 107, 108,
            109, 110, 111, 244, 112, 113, 114, 115, 353, 116, 117, 118, 119, 120, 121,
            122, 382>>, <<>>),
     utf8_spanish2_ci |->
        Order(<<97, 98, 99, 1, 100, 101, 102, 103, 104, 105, 106, 107, 108, 2, 109, 110,
            241, 111, 112, 113, 114, 115, 116, 117, 118, 119, 120, 121, 122>>, <<>>),
     utf8_roman_ci |->
        Order(<<97, 98, 99, 100, 101, 102, 103, 104, 105, 107, 108, 109, 110, 111, 112,
            113, 114, 115, 116, 117, 119, 120, 121, 122>>, 105 :> {106} @@ 117 :> {118}),
     utf8_persian_ci |->
        Order(<<1570, 1575, 1576, 1662, 1578, 1579, 1580, 1670, 1581, 1582, 1583, 1584,
            1585, 1586, 1688, 1587, 1588, 1589, 1590, 1591, 1592, 1593, 1594, 1601,
            1602, 1705, 1711, 1604, 1605, 1606, 1608, 1607, 1740>>, <<>>),
     utf8_esperanto_ci |->
        Order(<<97, 98, 99, 265, 100, 101, 102, 103, 285, 104, 293, 105, 106, 309, 107,
            108, 109, 110, 111, 112, 113, 114, 115, 349, 116, 117, 365, 118, 119, 120,
            121, 122>>, <<>>),
     utf8_hungarian_ci |->
        Order(<<97, 98, 99, 100, 101, 102, 103, 104, 105, 106, 107, 108, 109, 110, 111,
            246, 112, 113, 114, 115, 116, 117, 252, 118, 119, 120, 121, 122>>, 246 :>
            {337} @@ 252 :> {369})]

\* cl, Cl, c^ (a combining mark, which has no weight), c'h, ch, hh, chh, a
\* Chinese character, ss and the German letter for it.
Sampled == {W(cs) : cs \in
    {<<99, 108>>, <<67, 108>>, <<99, 768>>, <<269, 104>>, <<99, 104>>, <<104, 104>>,
     <<20013>>, <<115, 115>>, <<223>>, <<108, 108, 97>>, <<108, 109>>}}
\* l and then a byte that is not UTF-8
Broken == <<108, 255, 97>>
MCSample ==
    [f \in {"utf8_bin", "utf8_czech_ci", "utf8_spanish2_ci", "utf8_unicode_ci"} |->
        Sampled \cup {Broken}] @@ [f \in {"utf8_general_ci"} |-> Sampled]

\* Words in the order of an index file: two that utf8_general_ci calls equal and
\* that are not in the order of their bytes, the Czech ch and c with a caron, and
\* English words of which one comes twice.
ca == <<99, 97>>  Cd == <<67, 100>>  ch == <<99, 104>>  di == <<100, 105>>  hr == <<104, 114>>
bake == <<98, 97, 107, 101>>  bus == <<98, 117, 115>>
cae == W(<<99, 228>>)  Cao == W(<<67, 229>>)
MCWords == <<
    <<ca, ch, cae, Cao, hr>>,
    <<ca, ch, di, W(<<269, 97>>), W(<<269, 100>>)>>,
    \* Bake bake bus bus call cry RUN
    <<<<66, 97, 107, 101>>, bake, bus, bus, <<99, 97, 108, 108>>, <<99, 114, 121>>,
      <<82, 85, 78>>>> >>
MCQueries == {cae, Cao, ch, Cd, <<99, 98>>, W(<<269, 97>>), <<97>>, <<122>>, bus}

\* The synonyms Bakes and bakes, bus and bus.
MCSynonyms == <<
    <<>>,
    <<[word |-> ch, orig |-> 2]>>,
    <<[word |-> <<66>> \o Tail(bake) \o <<115>>, orig |-> 0],
      [word |-> bake \o <<115>>, orig |-> 1],
      [word |-> bus, orig |-> 4], [word |-> bus, orig |-> 5]>> >>

\* BUSES, busting, calling, Baking, CRIED, running, rUn, bAkE, bUs, Chs, zoo.
MCTyped == {<<66, 85, 83, 69, 83>>, bus \o <<116, 105, 110, 103>>,
            <<99, 97, 108, 108, 105, 110, 103>>, <<66, 97, 107, 105, 110, 103>>,
            <<67, 82, 73, 69, 68>>, <<114, 117, 110, 110, 105, 110, 103>>,
            <<114, 85, 110>>, <<98, 65, 107, 69>>, <<98, 85, 115>>, <<67, 104, 115>>,
            <<122, 111, 111>>}
=============================================================================
