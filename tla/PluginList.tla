----------------------------- MODULE PluginList -----------------------------
(***************************************************************************)
(* The plugins of one type (the Star*Plugins classes of pluginmanager.cpp, *)
(* which are the same code six times): a vector of pointers to objects of  *)
(* the heap.  The objects it deletes are named here and taken out of the   *)
(* heap by PluginManager, which instantiates this module once per class.   *)
(***************************************************************************)
EXTENDS Naturals, Sequences, SequencesExt, FiniteSetsExt

VARIABLES oPlugins, heap     \* heap[o]: the file name of the plugin object o

add(o) == Append(oPlugins, o)

find_dict_by_id(f) == {i \in DOMAIN oPlugins : heap[oPlugins[i]] = f}

\* unload_plugin: the first plugin of that name is deleted and its pointer erased.
Unloaded(f) == IF find_dict_by_id(f) = {} THEN {} ELSE {oPlugins[Min(find_dict_by_id(f))]}
unload_plugin(f) == IF find_dict_by_id(f) = {} THEN oPlugins
                    ELSE RemoveAt(oPlugins, Min(find_dict_by_id(f)))

\* plugins_reorder: the plugins named by the list, in its order; the others are deleted.
Named(f) ==
    FlattenSeq([j \in DOMAIN oPlugins |-> IF heap[oPlugins[j]] = f THEN <<oPlugins[j]>> ELSE <<>>])
reorder(order) == FlattenSeq([i \in DOMAIN order |-> Named(order[i])])

\* Mutant of Dropped: what the list does not name is neither kept nor deleted.
DroppedNone(order) == {}

Dropped(order) == Range(oPlugins) \ Range(reorder(order))

=============================================================================
