----------------------------- MODULE Languages -----------------------------
(***************************************************************************)
(* The tailorings of lib/ctype-uca.cpp: how the alphabet of a language     *)
(* differs from the default order of the letters.                          *)
(*                                                                         *)
(* The text of a rule is a sequence of numbers: the codes of '&', '<', ' ' *)
(* and the letters, and Escape + c for \u and the hexadecimal digits of c. *)
(* A rule resets to a base and says which letters follow it, one '<' for   *)
(* another letter, two for another form of it and three for another case.  *)
(***************************************************************************)
EXTENDS Integers, Sequences, SequencesExt, TLC

Escape == 65536     \* above every character

Reset(c) == <<38, 32, c>>
ResetTo(c) == <<38, 32, Escape + c>>
Diff(d, text) == <<32>> \o [k \in 1..d |-> 60] \o <<32>> \o text
Letter(d, c) == Diff(d, <<Escape + c>>)

\* A letter after its base, and its capital; letters without capitals; a letter
\* that is written as two, and its capitals.
Both(d, c, capital) == Letter(d, c) \o Letter(3, capital)
Each(cs) == FlattenSeq([k \in DOMAIN cs |-> Letter(1, cs[k])])
Digraph(d, a, b) ==
    Diff(d, <<a, b>>) \o Diff(3, <<a - 32, b>>) \o Diff(3, <<a - 32, b - 32>>)

icelandic ==
    Reset(65) \o Both(1, 225, 193) \o Reset(68) \o Both(1, 240, 208) \o Reset(69) \o
    Both(1, 233, 201) \o Reset(73) \o Both(1, 237, 205) \o Reset(79) \o
    Both(1, 243, 211) \o Reset(85) \o Both(1, 250, 218) \o Reset(89) \o
    Both(1, 253, 221) \o Reset(90) \o Both(1, 254, 222) \o Both(1, 230, 198) \o
    Both(2, 228, 196) \o Both(1, 246, 214) \o Both(2, 248, 216) \o Both(1, 229, 197)

latvian ==
    Reset(67) \o Both(1, 269, 268) \o Reset(71) \o Both(1, 291, 290) \o Reset(73) \o
    Both(1, 121, 89) \o Reset(75) \o Both(1, 311, 310) \o Reset(76) \o
    Both(1, 316, 315) \o Reset(78) \o Both(1, 326, 325) \o Reset(82) \o
    Both(1, 343, 342) \o Reset(83) \o Both(1, 353, 352) \o Reset(90) \o
    Both(1, 382, 381)

romanian ==
    Reset(65) \o Both(1, 259, 258) \o Both(1, 226, 194) \o Reset(73) \o
    Both(1, 238, 206) \o Reset(83) \o Both(1, 537, 536) \o Both(2, 351, 350) \o
    Reset(84) \o Both(1, 539, 538) \o Both(2, 355, 354)

slovenian ==
    Reset(67) \o Both(1, 269, 268) \o Reset(83) \o Both(1, 353, 352) \o Reset(90) \o
    Both(1, 382, 381)

polish ==
    Reset(65) \o Both(1, 261, 260) \o Reset(67) \o Both(1, 263, 262) \o Reset(69) \o
    Both(1, 281, 280) \o Reset(76) \o Both(1, 322, 321) \o Reset(78) \o
    Both(1, 324, 323) \o Reset(79) \o Both(1, 243, 211) \o Reset(83) \o
    Both(1, 347, 346) \o Reset(90) \o Both(1, 378, 377) \o Both(1, 380, 379)

estonian ==
    Reset(83) \o Both(1, 353, 352) \o Both(1, 122, 90) \o Both(1, 382, 381) \o
    Reset(87) \o Both(1, 245, 213) \o Both(1, 228, 196) \o Both(1, 246, 214) \o
    Both(1, 252, 220)

spanish ==
    Reset(78) \o Both(1, 241, 209)

swedish ==
    Reset(89) \o Both(2, 252, 220) \o Reset(90) \o Both(1, 229, 197) \o
    Both(1, 228, 196) \o Both(2, 230, 198) \o Both(1, 246, 214) \o Both(2, 248, 216)

turkish ==
    Reset(67) \o Both(1, 231, 199) \o Reset(71) \o Both(1, 287, 286) \o Reset(72) \o
    Both(1, 305, 73) \o Reset(79) \o Both(1, 246, 214) \o Reset(83) \o
    Both(1, 351, 350) \o Reset(85) \o Both(1, 252, 220)

czech ==
    Reset(67) \o Both(1, 269, 268) \o Reset(72) \o Digraph(1, 99, 104) \o Reset(82) \o
    Both(1, 345, 344) \o Reset(83) \o Both(1, 353, 352) \o Reset(90) \o
    Both(1, 382, 381)

danish ==
    Reset(89) \o Both(2, 252, 220) \o Both(2, 369, 368) \o Reset(90) \o
    Both(1, 230, 198) \o Both(2, 228, 196) \o Both(1, 248, 216) \o Both(2, 246, 214)
    \o Both(2, 337, 336) \o Both(1, 229, 197) \o Digraph(2, 97, 97)

lithuanian ==
    Reset(67) \o Digraph(2, 99, 104) \o Both(1, 269, 268) \o Reset(69) \o
    Both(2, 281, 280) \o Both(2, 279, 278) \o Reset(73) \o Both(2, 121, 89) \o
    Reset(83) \o Both(1, 353, 352) \o Reset(90) \o Both(1, 382, 381)

slovak ==
    Reset(65) \o Both(1, 228, 196) \o Reset(67) \o Both(1, 269, 268) \o Reset(72) \o
    Digraph(1, 99, 104) \o Reset(79) \o Both(1, 244, 212) \o Reset(83) \o
    Both(1, 353, 352) \o Reset(90) \o Both(1, 382, 381)

spanish2 ==
    Reset(67) \o Digraph(1, 99, 104) \o Reset(76) \o Digraph(1, 108, 108) \o Reset(78)
    \o Both(1, 241, 209)

roman ==
    Reset(73) \o Both(2, 106, 74) \o Reset(86) \o Both(2, 117, 85)

persian ==
    ResetTo(1645) \o Each(<<1614, 65142, 65143, 1616, 65146, 65147, 1615, 65144,
    65145, 1611, 65136, 65137, 1613, 65140, 1612, 65138>>) \o ResetTo(65151) \o
    Each(<<1619, 1620, 1621, 1648>>) \o ResetTo(1641) \o Each(<<1570, 1575, 1649,
    1569, 1571, 1573, 1572, 1574>>) \o ResetTo(1602) \o Each(<<1705, 1603>>) \o
    ResetTo(1608) \o Each(<<1607, 1577, 1728, 1740, 1609, 1610>>) \o ResetTo(65152) \o
    Each(<<65153, 65154, 65165, 65166, 64336, 64337, 65152, 65155, 65156, 65159,
    65160, 65157, 65158, 1673, 1674>>) \o ResetTo(65198) \o Each(<<65020>>) \o
    ResetTo(65240) \o Each(<<64398, 64399, 64400, 64401, 65241, 65242, 65243, 65244>>)
    \o ResetTo(65262) \o Each(<<65257, 65258, 65259, 65260, 65171, 65172, 64420,
    64421, 64508, 64509, 64510, 64511, 65263, 65264, 65265, 65266, 65267, 65268,
    65269, 65270, 65271, 65272, 65273, 65274, 65275, 65276>>)

esperanto ==
    Reset(67) \o Both(1, 265, 264) \o Reset(71) \o Both(1, 285, 284) \o Reset(72) \o
    Both(1, 293, 292) \o Reset(74) \o Both(1, 309, 308) \o Reset(83) \o
    Both(1, 349, 348) \o Reset(85) \o Both(1, 365, 364)

hungarian ==
    Reset(79) \o Both(1, 246, 214) \o Both(2, 337, 336) \o Reset(85) \o
    Both(1, 252, 220) \o Both(2, 369, 368)

\* The tailoring of a collation function; the default order has none.
Tailoring ==
    [utf8_unicode_ci |-> <<>>,
     utf8_icelandic_ci |-> icelandic,
     utf8_latvian_ci |-> latvian,
     utf8_romanian_ci |-> romanian,
     utf8_slovenian_ci |-> slovenian,
     utf8_polish_ci |-> polish,
     utf8_estonian_ci |-> estonian,
     utf8_spanish_ci |-> spanish,
     utf8_swedish_ci |-> swedish,
     utf8_turkish_ci |-> turkish,
     utf8_czech_ci |-> czech,
     utf8_danish_ci |-> danish,
     utf8_lithuanian_ci |-> lithuanian,
     utf8_slovak_ci |-> slovak,
     utf8_spanish2_ci |-> spanish2,
     utf8_roman_ci |-> roman,
     utf8_persian_ci |-> persian,
     utf8_esperanto_ci |-> esperanto,
     utf8_hungarian_ci |-> hungarian]
=============================================================================
