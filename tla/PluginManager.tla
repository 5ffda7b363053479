--------------------------- MODULE PluginManager ----------------------------
(***************************************************************************)
(* The plugin manager (pluginmanager.cpp): it opens shared modules, asks   *)
(* each of what type it is, and keeps an object for it in the list of that *)
(* type; it lists, unloads, loads and reorders plugins while it runs, and  *)
(* deletes all of them when it is destroyed.                               *)
(***************************************************************************)
EXTENDS Naturals, Sequences, FiniteSets, SequencesExt

CONSTANTS
    Files,               \* file names of modules
    TypeOf,              \* TypeOf[f]: the type stardict_plugin_init of f names
    Dir,                 \* the files of the plugin directory as it is read
    Orders,              \* the order lists callers pass
    Disables             \* and the disable lists, as sets

Types == {"VIRTUALDICT", "NETDICT", "SPECIALDICT", "TTS", "PARSEDATA", "MISC"}

\* A list that named a file twice would give its pointer two places in the vector.
ASSUME OrdersAssumption ==
    \A order \in Orders : order \in Seq(Files) /\ IsInjective(order)
ASSUME FilesAssumption ==
    TypeOf \in [Files -> Types \cup {"UNKNOWN"}] /\ Dir \in Seq(Files)

VARIABLES
    VirtualDictPlugins, NetDictPlugins, SpecialDictPlugins,
    TtsPlugins, ParseDataPlugins, MiscPlugins,
    loaded_plugin_list,
    heap,                \* the live plugin objects: heap[o] is plugin_filename
    refs,                \* refs[f]: how often the module f is open
    toload,              \* the files load() has still to try
    plugin_list,         \* what get_plugin_list gave last
    stopped

lists == <<VirtualDictPlugins, NetDictPlugins, SpecialDictPlugins,
           TtsPlugins, ParseDataPlugins, MiscPlugins>>
plugin_vars == <<lists, loaded_plugin_list, heap, refs, toload, plugin_list, stopped>>

VirtualDict == INSTANCE PluginList WITH oPlugins <- VirtualDictPlugins
NetDict == INSTANCE PluginList WITH oPlugins <- NetDictPlugins
SpecialDict == INSTANCE PluginList WITH oPlugins <- SpecialDictPlugins
Tts == INSTANCE PluginList WITH oPlugins <- TtsPlugins
ParseData == INSTANCE PluginList WITH oPlugins <- ParseDataPlugins
Misc == INSTANCE PluginList WITH oPlugins <- MiscPlugins

NewObject == CHOOSE o \in 1..Cardinality(DOMAIN heap) + 1 : o \notin DOMAIN heap

\* The destructor of a plugin closes the module, once for each object deleted.
Of(objects, f) == Cardinality({o \in objects : heap[o] = f})
Closed(objects) == [f \in Files |-> refs[f] - Of(objects, f)]
Delete(objects) ==
    /\ heap' = Restrict(heap, DOMAIN heap \ objects)
    /\ refs' = Closed(objects)

\* for_each_file: the list first, then the directory without the files it names.
Without(files, skipped) ==
    FlattenSeq([k \in DOMAIN files |-> IF files[k] \in skipped THEN <<>> ELSE <<files[k]>>])
Visited(order, disabled) ==
    Without(order, disabled) \o Without(Dir, disabled \cup Range(order))

PluginsInit ==
    /\ VirtualDictPlugins = <<>> /\ NetDictPlugins = <<>> /\ SpecialDictPlugins = <<>>
    /\ TtsPlugins = <<>> /\ ParseDataPlugins = <<>> /\ MiscPlugins = <<>>
    /\ loaded_plugin_list = <<>>
    /\ heap = <<>>
    /\ refs = [f \in Files |-> 0]
    /\ \E order \in Orders, disabled \in Disables :
        toload = Visited(order, disabled)
    /\ plugin_list = {}
    /\ stopped = FALSE

-----------------------------------------------------------------------------
\* How far a module gets: it cannot be opened, has no init function or its
\* init function fails, the same with that of its type, or all goes well.
Stages == {"absent", "no init", "no typed init", "loaded"}

\* The module is closed again when it was opened and is not kept.
RefsAfter(f, stage) ==
    LET opened == IF stage = "absent" THEN 0 ELSE 1
        closed == IF stage \in {"no init", "no typed init"} THEN 1 ELSE 0
    IN [refs EXCEPT ![f] = @ + opened - closed]

\* add() of the list that the type of the plugin names.
Into(t, o) ==
    /\ VirtualDictPlugins' = IF t = "VIRTUALDICT" THEN VirtualDict!add(o) ELSE VirtualDictPlugins
    /\ NetDictPlugins' = IF t = "NETDICT" THEN NetDict!add(o) ELSE NetDictPlugins
    /\ SpecialDictPlugins' = IF t = "SPECIALDICT" THEN SpecialDict!add(o) ELSE SpecialDictPlugins
    /\ TtsPlugins' = IF t = "TTS" THEN Tts!add(o) ELSE TtsPlugins
    /\ ParseDataPlugins' = IF t = "PARSEDATA" THEN ParseData!add(o) ELSE ParseDataPlugins
    /\ MiscPlugins' = IF t = "MISC" THEN Misc!add(o) ELSE MiscPlugins

\* Mutant of get_loaded: only the name that was put on the list last is compared.
get_loaded_last(f) ==
    loaded_plugin_list # <<>> /\ loaded_plugin_list[Len(loaded_plugin_list)] = f

\* load_plugin: the name is put on the list before anything can fail.
get_loaded(f) == f \in Range(loaded_plugin_list)

LoadFile(f) ==
    IF get_loaded(f)
    THEN UNCHANGED <<lists, loaded_plugin_list, heap, refs>>
    ELSE /\ loaded_plugin_list' = Append(loaded_plugin_list, f)
         /\ \E stage \in Stages :
              /\ TypeOf[f] = "UNKNOWN" => stage # "loaded"
              /\ refs' = RefsAfter(f, stage)
              /\ IF stage = "loaded"
                 THEN /\ heap' = [o \in DOMAIN heap \cup {NewObject} |->
                                    IF o \in DOMAIN heap THEN heap[o] ELSE f]
                      /\ Into(TypeOf[f], NewObject)
                 ELSE UNCHANGED <<heap, lists>>

\* load(), which the constructor calls, one file at a time.
load ==
    /\ toload # <<>>
    /\ LoadFile(Head(toload))
    /\ toload' = Tail(toload)
    /\ UNCHANGED <<plugin_list, stopped>>

Ready == toload = <<>> /\ ~stopped

\* Callers load and unload what get_plugin_list has listed, with the type it gave.
load_plugin ==
    /\ Ready
    /\ \E info \in plugin_list : LoadFile(info.filename)
    /\ UNCHANGED <<toload, plugin_list, stopped>>

\* A module is opened and closed again to be asked; any may fail this time.
get_plugin_list ==
    /\ Ready
    /\ \E answering \in SUBSET {f \in Files : TypeOf[f] # "UNKNOWN"}, order \in Orders :
        plugin_list' = {[filename |-> f, plugin_type |-> TypeOf[f]] :
                            f \in answering \cap Range(Visited(order, {}))}
    /\ UNCHANGED <<lists, loaded_plugin_list, heap, refs, toload, stopped>>

unload_plugin ==
    /\ Ready
    /\ \E info \in plugin_list :
        LET f == info.filename
            t == info.plugin_type
            Doomed == CASE t = "VIRTUALDICT" -> VirtualDict!Unloaded(f)
                        [] t = "NETDICT" -> NetDict!Unloaded(f)
                        [] t = "SPECIALDICT" -> SpecialDict!Unloaded(f)
                        [] t = "TTS" -> Tts!Unloaded(f)
                        [] t = "PARSEDATA" -> ParseData!Unloaded(f)
                        [] t = "MISC" -> Misc!Unloaded(f)
            after(type, kept, list) == IF t = type THEN kept ELSE list
        IN /\ loaded_plugin_list' = RemoveFirst(loaded_plugin_list, f)
           /\ Delete(Doomed)
           /\ VirtualDictPlugins' =
                after("VIRTUALDICT", VirtualDict!unload_plugin(f), VirtualDictPlugins)
           /\ NetDictPlugins' = after("NETDICT", NetDict!unload_plugin(f), NetDictPlugins)
           /\ SpecialDictPlugins' =
                after("SPECIALDICT", SpecialDict!unload_plugin(f), SpecialDictPlugins)
           /\ TtsPlugins' = after("TTS", Tts!unload_plugin(f), TtsPlugins)
           /\ ParseDataPlugins' = after("PARSEDATA", ParseData!unload_plugin(f), ParseDataPlugins)
           /\ MiscPlugins' = after("MISC", Misc!unload_plugin(f), MiscPlugins)
    /\ UNCHANGED <<toload, plugin_list, stopped>>

\* The names of the plugins it deletes stay on loaded_plugin_list.
reorder ==
    /\ Ready
    /\ \E order \in Orders :
        /\ VirtualDictPlugins' = VirtualDict!reorder(order)
        /\ NetDictPlugins' = NetDict!reorder(order)
        /\ SpecialDictPlugins' = SpecialDict!reorder(order)
        /\ TtsPlugins' = Tts!reorder(order)
        /\ ParseDataPlugins' = ParseData!reorder(order)
        /\ MiscPlugins' = Misc!reorder(order)
        /\ Delete(UNION {VirtualDict!Dropped(order), NetDict!Dropped(order),
                         SpecialDict!Dropped(order), Tts!Dropped(order),
                         ParseData!Dropped(order), Misc!Dropped(order)})
    /\ UNCHANGED <<loaded_plugin_list, toload, plugin_list, stopped>>

\* ~StarDictPlugins: the destructor of each list deletes its plugins.
Held == UNION {Range(lists[i]) : i \in DOMAIN lists}
destroy ==
    /\ Ready
    /\ stopped' = TRUE
    /\ Delete(Held)
    /\ VirtualDictPlugins' = <<>> /\ NetDictPlugins' = <<>> /\ SpecialDictPlugins' = <<>>
    /\ TtsPlugins' = <<>> /\ ParseDataPlugins' = <<>> /\ MiscPlugins' = <<>>
    /\ UNCHANGED <<loaded_plugin_list, toload, plugin_list>>

PluginsNext == load \/ load_plugin \/ get_plugin_list \/ unload_plugin \/ reorder \/ destroy

PluginsSpec == PluginsInit /\ [][PluginsNext]_plugin_vars

-----------------------------------------------------------------------------
Places(o) ==
    UNION {{i} \X {j \in DOMAIN lists[i] : lists[i][j] = o} : i \in DOMAIN lists}

\* Every pointer of a list is to a live object, and every live object has one place
\* in one list: none is used after it was deleted, deleted twice, or leaked.
OwnedOnce ==
    /\ Held \subseteq DOMAIN heap
    /\ \A o \in DOMAIN heap : Cardinality(Places(o)) = 1

\* A module is open as often as there are plugins of it, however often it failed to
\* load, was listed, unloaded or dropped by a reorder.
ModulesHeld == \A f \in Files : refs[f] = Of(DOMAIN heap, f)

\* Both: objects and modules are given back exactly once.
PluginsHeld == OwnedOnce /\ ModulesHeld

\* No module runs as two plugins, and each that runs is on the list that get_loaded
\* and load_plugin ask.
RunsOnce == \A f \in Files : Of(DOMAIN heap, f) <= IF get_loaded(f) THEN 1 ELSE 0

\* A plugin stands in the list of its type, where unload_plugin will look for it.
InItsList ==
    \A i \in DOMAIN lists : \A o \in Range(lists[i]) :
        TypeOf[heap[o]] = <<"VIRTUALDICT", "NETDICT", "SPECIALDICT",
                            "TTS", "PARSEDATA", "MISC">>[i]

\* Both: a plugin that is loaded runs once and can be unloaded.
PluginsRun == RunsOnce /\ InItsList
=============================================================================
