-------------------------- MODULE MCPluginManager ---------------------------
(* Two plugins of one type, one of another, and a module of no known type. *)
EXTENDS PluginManager

MCTypeOf == [f \in Files |-> CASE f \in {"html", "xdxf"} -> "PARSEDATA"
                               [] f = "espeak" -> "TTS"
                               [] f = "other" -> "UNKNOWN"]
MCDir == <<"xdxf", "espeak", "other", "html">>
MCOrders == {<<>>, <<"html", "espeak">>, <<"html", "xdxf">>, <<"espeak", "xdxf", "html">>}
=============================================================================
