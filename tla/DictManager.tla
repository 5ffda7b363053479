---------------------------- MODULE DictManager ----------------------------
(***************************************************************************)
(* Which dictionaries are loaded, and what the search code may dereference.*)
(*                                                                         *)
(* DictMngr (dictmngr.cpp) reads the list of dictionaries from gconf       *)
(* (conf.cpp), has Libs (lib/stddict.cpp) load or reload the Dict objects, *)
(* and then rebuilds query_dictmask and iCurrentIndex, through which every *)
(* search of libwrapper.cpp reaches them.  The four structures live in     *)
(* three files and are only kept in step by the order of the loops below.  *)
(* Each iteration of a loop is a step.  A crash may come between any two   *)
(* of them: gconf and the disk survive it, the memory does not.            *)
(*                                                                         *)
(* Positions are 1-based here and 0-based in the code.                     *)
(***************************************************************************)
EXTENDS Naturals, Sequences, FiniteSets, SequencesExt

CONSTANTS
    Files,     \* the .ifo files that may be installed
    BookName,  \* BookName[f]: the bookname= line of f
    NoName,    \* the empty bookname of an .ifo file that cannot be parsed
    Dicts,     \* addresses a Dict object may be given
    Free,      \* the content of an address that holds no object
    DiskStates \* the states of an .ifo file that are explored

ASSUME FreeAssumption == Free \notin Files
ASSUME FilesAssumption == IsFiniteSet(Files)
ASSUME DictsAssumption == Dicts \subseteq Nat
ASSUME DiskAssumption == DiskStates \subseteq {"absent", "bad", "nodata", "ok"}
ASSUME BookNameAssumption == NoName \notin {BookName[f] : f \in Files}

VARIABLES
    disk,      \* every .ifo file: absent, bad (cannot be parsed), nodata (some
               \* other file of the dictionary cannot be loaded) or ok
    confSet,   \* whether gconf holds a value for .../dict_list
    conf,      \* that value
    heap,      \* heap[d]: the file the live Dict d was loaded from, or Free
    oLib,      \* Libs::oLib
    mask,      \* query_dictmask: the .index of each entry
    idxCap,    \* number of entries iCurrentIndex has room for
    entry,     \* what the search entry holds
    label,     \* what label_widget / results_widget show
    pc,        \* which loop or handler is being executed
    caller,    \* who asked for the (re)load: main or the dialog
    list,      \* dict_list, the list being loaded
    i,         \* the iterator into it
    prev,      \* Libs::reload: the objects of the old oLib not yet reused
    rows,      \* the rows of the dialog
    presel     \* the rows the dialog selected before it was shown

vars == <<disk, confSet, conf, heap, oLib, mask, idxCap, entry, label, pc,
          caller, list, i, prev, rows, presel>>

stored == <<disk, confSet, conf>>
search == <<entry, label>>
dialog == <<rows, presel>>

-----------------------------------------------------------------------------
\* Files whose load succeeds; files GetAllDictionaryList lists.
Loadable  == {f \in Files : disk[f] = "ok"}
Installed == {f \in Files : disk[f] # "absent"}

Live == {d \in Dicts : heap[d] # Free}

\* The order in which g_dir_read_name returns the files is arbitrary.
GetAllDictionaryList == SetToSeqs(Installed)

\* DictInfo::load_from_ifo_file leaves the bookname empty when it fails.
RowName(f) == IF disk[f] = "bad" THEN NoName ELSE BookName[f]

\* Libs::dict_name(k)
DictName(k) == BookName[heap[oLib[k]]]

\* Libs::find_lib_by_filename: the first position that has f, if there is one.
LibsOf(f)  == {k \in DOMAIN oLib : heap[oLib[k]] = f}
FindLib(f) == {k \in LibsOf(f) : \A l \in LibsOf(f) : k <= l}

\* The lists GTK_RESPONSE_ACCEPT may read: the rows the user left selected, in
\* row order.
InRowOrder(sel) ==
    {s \in SetToSeqs(sel) :
        \A k, l \in DOMAIN s : \A m, n \in DOMAIN rows :
            k < l /\ s[k] = rows[m] /\ s[l] = rows[n] => m < n}

TypeOK ==
    /\ disk \in [Files -> DiskStates]
    /\ confSet \in {"yes", "no"}
    /\ conf \in Seq(Files)
    /\ heap \in [Dicts -> Files \cup {Free}]
    /\ oLib \in Seq(Dicts)
    /\ mask \in Seq(Nat)
    /\ idxCap \in Nat
    /\ entry \in {"empty", "word", "data"}
    /\ label \in {"NoResults", "NoDictionary", "Results"}
    /\ pc \in {"off", "load", "reload", "mask", "research", "idle", "dialog"}
    /\ caller \in {"main", "dialog"}
    /\ list \in Seq(Files)
    /\ i \in Nat \ {0}
    /\ prev \subseteq Dicts
    /\ rows \in Seq(Files)
    /\ presel \subseteq Files

-----------------------------------------------------------------------------
Init ==
    /\ disk \in [Files -> DiskStates]
    /\ confSet = "no" /\ conf = <<>>
    /\ pc = "off"
    /\ heap = [d \in Dicts |-> Free]
    /\ oLib = <<>> /\ mask = <<>> /\ idxCap = 0
    /\ entry = "empty" /\ label = "NoResults"
    /\ caller = "main" /\ list = <<>> /\ i = 1 /\ prev = {}
    /\ rows = <<>> /\ presel = {}

\* main, and LoadDictionaries up to the load loop.  Conf::SetStringList does
\* nothing for an empty list, and gconf may refuse the write.
Start ==
    /\ pc = "off"
    /\ pc' = "load" /\ caller' = "main" /\ i' = 1 /\ label' = "NoResults"
    /\ \/ /\ confSet = "yes"
          /\ list' = conf
          /\ UNCHANGED <<confSet, conf>>
       \/ /\ confSet = "no"
          /\ list' \in GetAllDictionaryList
          /\ \/ list' # <<>> /\ confSet' = "yes" /\ conf' = list'
             \/ UNCHANGED <<confSet, conf>>
    /\ UNCHANGED <<disk, heap, oLib, mask, idxCap, entry, prev, dialog>>

\* Libs::load_dict: the new object joins oLib, or is deleted again.
LoadDict(f) ==
    \/ /\ f \in Loadable
       /\ \E d \in Dicts \ Live :
            /\ \A e \in Dicts \ Live : d <= e  \* which address is irrelevant
            /\ heap' = [heap EXCEPT ![d] = f]
            /\ oLib' = Append(oLib, d)
       /\ UNCHANGED prev
    \/ f \notin Loadable /\ UNCHANGED <<heap, oLib, prev>>

\* Mutant of LoadNext: a dictionary that cannot be loaded is tried again.
LoadNextRetrying ==
    /\ pc = "load" /\ i <= Len(list)
    /\ LoadDict(list[i])
    /\ i' = IF list[i] \in Loadable THEN i + 1 ELSE i
    /\ UNCHANGED <<stored, search, dialog, mask, idxCap, pc, caller, list>>

\* One iteration of Libs::load.
LoadNext ==
    /\ pc = "load" /\ i <= Len(list)
    /\ LoadDict(list[i])
    /\ i' = i + 1
    /\ UNCHANGED <<stored, search, dialog, mask, idxCap, pc, caller, list>>

\* LoadDictionaries after oLibs->load.
LoadDone ==
    /\ pc = "load" /\ i > Len(list)
    /\ pc' = "mask" /\ i' = 1 /\ mask' = <<>>
    /\ UNCHANGED <<stored, search, dialog, heap, oLib, idxCap, caller, list, prev>>

\* Mutant of Reuse: the object taken over is not erased from prev.
ReuseWithoutErase(f) ==
    \E d \in prev :
        /\ heap[d] = f
        /\ oLib' = Append(oLib, d)
        /\ UNCHANGED <<heap, prev>>

\* Libs::reload finds the file among the old objects and takes that object over.
Reuse(f) ==
    \E d \in prev :
        /\ heap[d] = f
        /\ prev' = prev \ {d}
        /\ oLib' = Append(oLib, d)
        /\ UNCHANGED heap

\* One iteration of the loop of Libs::reload over the list.
ReloadNext ==
    /\ pc = "reload" /\ i <= Len(list)
    /\ \/ Reuse(list[i])
       \/ (\A d \in prev : heap[d] # list[i]) /\ LoadDict(list[i])
    /\ i' = i + 1
    /\ UNCHANGED <<stored, search, dialog, mask, idxCap, pc, caller, list>>

\* The end of Libs::reload deletes what was not reused.
ReloadDone ==
    /\ pc = "reload" /\ i > Len(list)
    /\ heap' = [d \in Dicts |-> IF d \in prev THEN Free ELSE heap[d]]
    /\ prev' = {}
    /\ pc' = "mask" /\ i' = 1 /\ mask' = <<>>
    /\ UNCHANGED <<stored, search, dialog, oLib, idxCap, caller, list>>

\* One iteration of the loop that fills query_dictmask.
MaskNext ==
    /\ pc = "mask" /\ i <= Len(list)
    /\ \/ \E k \in FindLib(list[i]) : mask' = Append(mask, k)
       \/ FindLib(list[i]) = {} /\ UNCHANGED mask
    /\ i' = i + 1
    /\ UNCHANGED <<stored, search, dialog, heap, oLib, idxCap, pc, caller, list, prev>>

\* Mutant of MaskDone: iCurrentIndex is not allocated anew.
MaskDoneKeepingIndex ==
    /\ pc = "mask" /\ i > Len(list)
    /\ label' = IF mask = <<>> THEN "NoDictionary" ELSE label
    /\ pc' = IF caller = "main" THEN "idle" ELSE "research"
    /\ caller' = "main" /\ i' = 1 /\ list' = <<>>
    /\ UNCHANGED <<stored, dialog, entry, heap, oLib, mask, idxCap, prev>>

\* Mutant of MaskDone: nothing is searched again after a reload.
MaskDoneWithoutResearch ==
    /\ pc = "mask" /\ i > Len(list)
    /\ idxCap' = Len(mask)
    /\ label' = IF mask = <<>> THEN "NoDictionary" ELSE label
    /\ pc' = "idle"
    /\ caller' = "main" /\ i' = 1 /\ list' = <<>>
    /\ UNCHANGED <<stored, dialog, entry, heap, oLib, mask, prev>>

\* The end of LoadDictionaries and of ReLoadDictionaries.
MaskDone ==
    /\ pc = "mask" /\ i > Len(list)
    /\ idxCap' = Len(mask)
    /\ label' = IF mask = <<>> THEN "NoDictionary" ELSE label
    /\ pc' = IF caller = "main" THEN "idle" ELSE "research"
    /\ caller' = "main" /\ i' = 1 /\ list' = <<>>
    /\ UNCHANGED <<stored, dialog, entry, heap, oLib, mask, prev>>

-----------------------------------------------------------------------------
\* onSearchEntryChanged with the text e.  A data query finds nothing here.
SearchEntryChanged(e) ==
    IF mask = <<>> THEN UNCHANGED label
    ELSE \/ label' = "NoResults"
         \/ e = "word" /\ label' = "Results"

\* Typing, and onSearchClearClicked.
EditEntry ==
    /\ pc = "idle"
    /\ entry' \in {"empty", "word", "data"} \ {entry}
    /\ SearchEntryChanged(entry')
    /\ UNCHANGED <<stored, dialog, heap, oLib, mask, idxCap, pc, caller, list, i, prev>>

\* MStarDict::SearchWord, on KP_Enter: only data queries search anything.
SearchWord ==
    /\ pc = "idle" /\ mask # <<>>
    /\ \/ entry = "empty" /\ label' = "NoResults"
       \/ entry = "data" /\ label' \in {"NoResults", "Results"}
    /\ UNCHANGED <<stored, dialog, entry, heap, oLib, mask, idxCap, pc, caller, list, i, prev>>

\* Mutant of OpenDialog: the last entry of query_dictmask is not compared.
OpenDialogOffByOne ==
    /\ pc = "idle"
    /\ pc' = "dialog"
    /\ rows' \in GetAllDictionaryList
    /\ presel' = {f \in Installed : \E k \in 1..Len(mask) - 1 : DictName(k) = RowName(f)}
    /\ UNCHANGED <<stored, search, heap, oLib, mask, idxCap, caller, list, i, prev>>

\* CreateDictMngrDialog up to gtk_dialog_run.
OpenDialog ==
    /\ pc = "idle"
    /\ pc' = "dialog"
    /\ rows' \in GetAllDictionaryList
    /\ presel' = {f \in Installed : \E k \in 1..Len(mask) : DictName(k) = RowName(f)}
    /\ UNCHANGED <<stored, search, heap, oLib, mask, idxCap, caller, list, i, prev>>

\* Mutant of AcceptDialog: the list is reloaded without being stored.
AcceptDialogUnstored ==
    /\ pc = "dialog"
    /\ \E sel \in SUBSET ToSet(rows) \ {{}} : list' \in InRowOrder(sel)
    /\ pc' = "reload" /\ caller' = "dialog" /\ i' = 1
    /\ prev' = ToSet(oLib) /\ oLib' = <<>>
    /\ rows' = <<>> /\ presel' = {}
    /\ UNCHANGED <<disk, confSet, conf, search, heap, mask, idxCap>>

\* The dialog is accepted with the rows sel selected and gconf takes the list.
\* SetStringList(<<>>) returns false, so an empty selection reloads nothing.
AcceptDialog ==
    /\ pc = "dialog"
    /\ \E sel \in SUBSET ToSet(rows) \ {{}} : conf' \in InRowOrder(sel)
    /\ confSet' = "yes"
    /\ list' = conf'
    /\ pc' = "reload" /\ caller' = "dialog" /\ i' = 1
    /\ prev' = ToSet(oLib) /\ oLib' = <<>>
    /\ rows' = <<>> /\ presel' = {}
    /\ UNCHANGED <<disk, search, heap, mask, idxCap>>

\* The dialog is cancelled, or the list was empty or not written.
LeaveDialog ==
    /\ pc = "dialog"
    /\ pc' = "research"
    /\ rows' = <<>> /\ presel' = {}
    /\ UNCHANGED <<stored, search, heap, oLib, mask, idxCap, caller, list, i, prev>>

\* onDictionariesMenuItemClicked searches again after the dialog.
Research ==
    /\ pc = "research"
    /\ SearchEntryChanged(entry)
    /\ pc' = "idle"
    /\ UNCHANGED <<stored, dialog, entry, heap, oLib, mask, idxCap, caller, list, i, prev>>

-----------------------------------------------------------------------------
\* Quitting (~MStarDict, ~Libs) or being killed: the memory is gone.
Stop ==
    /\ pc # "off"
    /\ pc' = "off"
    /\ heap' = [d \in Dicts |-> Free]
    /\ oLib' = <<>> /\ mask' = <<>> /\ idxCap' = 0
    /\ entry' = "empty" /\ label' = "NoResults"
    /\ caller' = "main" /\ list' = <<>> /\ i' = 1 /\ prev' = {}
    /\ rows' = <<>> /\ presel' = {}
    /\ UNCHANGED stored

\* Dictionaries are installed, removed and damaged by other programs.
DiskChange ==
    /\ pc \in {"off", "idle"}
    /\ \E f \in Files, s \in DiskStates :
         disk' = [disk EXCEPT ![f] = s]
    /\ UNCHANGED <<confSet, conf, heap, oLib, mask, idxCap, search, pc, caller,
                   list, i, prev, dialog>>

\* What the program does without waiting for anybody.
Run == LoadNext \/ LoadDone \/ ReloadNext \/ ReloadDone \/ MaskNext \/ MaskDone \/ Research

Next ==
    \/ Run \/ Start \/ Stop \/ DiskChange
    \/ EditEntry \/ SearchWord \/ OpenDialog \/ AcceptDialog \/ LeaveDialog

\* The loops run in the only thread there is: once entered they go on.
Spec == Init /\ [][Next]_vars /\ WF_vars(Run)

-----------------------------------------------------------------------------
\* Every Dict object is owned by exactly one place, so that it is deleted
\* exactly once: oLib and the leftovers of reload are disjoint, hold no object
\* twice, hold only live objects, and no live object is held by neither.
HeapOwned ==
    /\ \A k, l \in DOMAIN oLib : oLib[k] = oLib[l] => k = l
    /\ ToSet(oLib) \cap prev = {}
    /\ ToSet(oLib) \cup prev = Live

\* Whenever a handler may search, every entry of query_dictmask leads to a live
\* object and has room in iCurrentIndex (BuildResultData indexes both by iLib).
SearchSafe ==
    pc \in {"idle", "research", "dialog"} =>
        \A k \in DOMAIN mask :
            k <= idxCap /\ mask[k] \in DOMAIN oLib /\ oLib[mask[k]] \in Live

\* BuildResultData labels a result of query_dictmask[iLib] with dict_name(iLib),
\* and the dialog compares dict_name(iLib): both take a position in the mask for
\* a position in oLib.  They name the dictionary the text comes from.
NamesMatch ==
    pc \in {"idle", "research", "dialog"} =>
        \A k \in DOMAIN mask : k \in DOMAIN oLib /\ mask[k] = k

\* Both at once, what every search relies on.
SearchAligned == SearchSafe /\ NamesMatch

\* After a load or reload, whatever the list names and the disk can deliver is
\* loaded, once, and everything loaded can be searched.
ListLoaded ==
    pc = "mask" =>
        /\ \A f \in ToSet(list) \cap Loadable : \E k \in DOMAIN oLib : heap[oLib[k]] = f
        /\ \A d, e \in Live : heap[d] = heap[e] => d = e
        /\ i > Len(list) => Len(mask) = Len(oLib)

\* The dictionaries in use are all that could be loaded of the stored list, in its
\* order: a crash between the write to gconf and the end of the reload loses
\* nothing, since the next start loads the same list.
LoadedFollowsConf ==
    /\ ListLoaded
    /\ pc = "idle" /\ confSet = "yes" =>
        \E pos \in [DOMAIN oLib -> DOMAIN conf] :
            \A k \in DOMAIN oLib :
                /\ heap[oLib[k]] = conf[pos[k]]
                /\ \A l \in DOMAIN oLib : k < l => pos[k] < pos[l]

\* The window never says that no dictionary is loaded when one is, nor offers
\* results of an empty query, nor stays silent when none is loaded.
LabelTruthful ==
    pc = "idle" =>
        /\ label = "NoDictionary" <=> mask = <<>>
        /\ label = "Results" => entry # "empty"

\* Accepting the dialog untouched never drops a loaded dictionary whose .ifo
\* file is still there and readable: its row is among the selected ones.
LoadedPreselected ==
    pc = "dialog" =>
        \A k \in DOMAIN oLib :
            heap[oLib[k]] \in ToSet(rows) /\ disk[heap[oLib[k]]] # "bad"
                => heap[oLib[k]] \in presel

\* Every load and reload comes to an end, whatever cannot be loaded.
LoadEnds == pc \in {"load", "reload"} ~> pc \in {"idle", "off"}
=============================================================================
