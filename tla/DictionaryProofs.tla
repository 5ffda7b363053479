-------------------------- MODULE DictionaryProofs --------------------------
(***************************************************************************)
(* What holds of DictManager for any set of installed files, however long  *)
(* the program runs, is reloaded, or is killed; and of IndexLookup for     *)
(* every sorted list of words and every page size: its binary searches, on *)
(* pages or not, give the answers IndexSpec asks for, and the words        *)
(* suggested are as good as they can be.                                   *)
(***************************************************************************)
EXTENDS DictManager, IndexLookup, FiniteSetTheorems, TLAPS


-----------------------------------------------------------------------------
(* Lists of files.                                                         *)

NoRepeats(s) == \A k, l \in DOMAIN s : s[k] = s[l] => k = l

LEMMA SeqsOfSet ==
  ASSUME NEW S, IsFiniteSet(S), NEW s \in SetToSeqs(S)
  PROVE  s \in Seq(S) /\ NoRepeats(s)
<1>1. Cardinality(S) \in Nat
  BY FS_CardinalityType
<1>2. s \in [1..Cardinality(S) -> S] /\ NoRepeats(s)
  BY DEF SetToSeqs, NoRepeats
<1>. QED  BY <1>1, <1>2

LEMMA InstalledFinite == IsFiniteSet(Installed) /\ Installed \subseteq Files
<1>1. Installed \subseteq Files
  BY DEF Installed
<1>. QED  BY <1>1, FS_Subset, FilesAssumption

LEMMA GetAllType ==
  ASSUME NEW s \in GetAllDictionaryList
  PROVE  s \in Seq(Files) /\ NoRepeats(s)
<1>1. s \in Seq(Installed) /\ NoRepeats(s)
  BY SeqsOfSet, InstalledFinite DEF GetAllDictionaryList
<1>. QED  BY <1>1, InstalledFinite

LEMMA InRowOrderType ==
  ASSUME rows \in Seq(Files),
         NEW sel \in SUBSET ToSet(rows), NEW s \in InRowOrder(sel)
  PROVE  s \in Seq(Files) /\ NoRepeats(s)
<1>1. sel \subseteq Files
  BY DEF ToSet
<1>2. IsFiniteSet(sel)
  BY <1>1, FS_Subset, FilesAssumption
<1>3. s \in Seq(sel) /\ NoRepeats(s)
  BY <1>2, SeqsOfSet DEF InRowOrder
<1>. QED  BY <1>1, <1>3

LEMMA ToSetAppend ==
  ASSUME NEW S, NEW s \in Seq(S), NEW e
  PROVE  ToSet(Append(s, e)) = ToSet(s) \cup {e}
<1>. DEFINE t == Append(s, e)
<1>1. Len(t) = Len(s) + 1 /\ t[Len(s) + 1] = e /\ DOMAIN t = 1..Len(s) + 1
  OBVIOUS
<1>2. \A k \in 1..Len(s) : t[k] = s[k]
  OBVIOUS
<1>3. DOMAIN s = 1..Len(s) /\ Len(s) \in Nat
  OBVIOUS
<1>. QED  BY <1>1, <1>2, <1>3 DEF ToSet

-----------------------------------------------------------------------------
(* Types.                                                                  *)

\* LoadDictionaries, the dialog and the searches keep every variable in its type.
THEOREM TypeCorrect == Spec => []TypeOK
<1>. USE DEF TypeOK
<1>1. Init => TypeOK
  BY DEF Init
<1>2. TypeOK /\ [Next]_vars => TypeOK'
  <2>. SUFFICES ASSUME TypeOK, [Next]_vars  PROVE TypeOK'
    OBVIOUS
  <2>. USE DEF stored, search, dialog
  <2>0. ASSUME NEW f \in Files, LoadDict(f)
        PROVE  /\ heap' \in [Dicts -> Files \cup {Free}]
               /\ oLib' \in Seq(Dicts)
               /\ prev' \subseteq Dicts
    <3>1. CASE f \in Loadable
      <4>1. PICK d \in Dicts : heap' = [heap EXCEPT ![d] = f] /\ oLib' = Append(oLib, d)
                                /\ UNCHANGED prev
        BY <2>0, <3>1 DEF LoadDict
      <4>2. oLib' \in Seq(Dicts)
        BY <4>1
      <4>. QED  BY <4>1, <4>2
    <3>2. CASE f \notin Loadable
      BY <2>0, <3>2 DEF LoadDict
    <3>. QED  BY <3>1, <3>2
  <2>1. CASE LoadNext
    <3>1. list[i] \in Files
      BY <2>1 DEF LoadNext
    <3>. QED  BY <2>1, <3>1, <2>0 DEF LoadNext
  <2>2. CASE LoadDone
    BY <2>2 DEF LoadDone
  <2>3. CASE ReloadNext
    <3>1. list[i] \in Files
      BY <2>3 DEF ReloadNext
    <3>2. CASE Reuse(list[i])
      BY <2>3, <3>2 DEF ReloadNext, Reuse
    <3>3. CASE LoadDict(list[i])
      BY <2>3, <3>1, <3>3, <2>0 DEF ReloadNext
    <3>. QED  BY <2>3, <3>2, <3>3 DEF ReloadNext
  <2>4. CASE ReloadDone
    BY <2>4 DEF ReloadDone
  <2>5. CASE MaskNext
    <3>1. mask' \in Seq(Nat)
      <4>1. \A f : FindLib(f) \subseteq Nat
        BY DEF FindLib, LibsOf
      <4>2. CASE UNCHANGED mask
        BY <4>2
      <4>3. ASSUME NEW k \in FindLib(list[i]), mask' = Append(mask, k)
            PROVE  mask' \in Seq(Nat)
        BY <4>1, <4>3
      <4>. QED  BY <2>5, <4>2, <4>3 DEF MaskNext
    <3>. QED  BY <2>5, <3>1 DEF MaskNext
  <2>6. CASE MaskDone
    BY <2>6 DEF MaskDone
  <2>7. CASE Research
    BY <2>7 DEF Research, SearchEntryChanged
  <2>8. CASE Start
    BY <2>8, GetAllType DEF Start
  <2>9. CASE Stop
    BY <2>9 DEF Stop
  <2>10. CASE DiskChange
    BY <2>10 DEF DiskChange
  <2>11. CASE EditEntry
    BY <2>11 DEF EditEntry, SearchEntryChanged
  <2>12. CASE SearchWord
    BY <2>12 DEF SearchWord
  <2>13. CASE OpenDialog
    BY <2>13, GetAllType, InstalledFinite DEF OpenDialog
  <2>14. CASE AcceptDialog
    <3>1. conf' \in Seq(Files)
      BY <2>14, InRowOrderType DEF AcceptDialog
    <3>2. ToSet(oLib) \subseteq Dicts
      BY DEF ToSet
    <3>. QED  BY <2>14, <3>1, <3>2 DEF AcceptDialog
  <2>15. CASE LeaveDialog
    BY <2>15 DEF LeaveDialog
  <2>16. CASE UNCHANGED vars
    BY <2>16 DEF vars
  <2>. QED  BY <2>1, <2>2, <2>3, <2>4, <2>5, <2>6, <2>7, <2>8, <2>9, <2>10,
               <2>11, <2>12, <2>13, <2>14, <2>15, <2>16 DEF Next, Run
<1>. QED  BY <1>1, <1>2, PTL DEF Spec

-----------------------------------------------------------------------------
(* Ownership.  HeapOwned alone is not inductive: accepting the dialog      *)
(* overwrites prev, so it must be known to be empty outside of a reload,   *)
(* and a start must find no object at all.                                 *)

OwnedInv ==
    /\ HeapOwned
    /\ pc # "reload" => prev = {}
    /\ pc = "off" => oLib = <<>> /\ mask = <<>>

\* load_dict either leaves everything alone or adds one object to both the heap
\* and the end of oLib; the files of the objects there already do not change.
LEMMA LoadDictStep ==
  ASSUME TypeOK, HeapOwned, NEW f \in Files, LoadDict(f)
  PROVE  /\ HeapOwned'
         /\ UNCHANGED prev
         /\ \/ UNCHANGED <<heap, oLib>>
            \/ /\ \E d \in Dicts \ Live : oLib' = Append(oLib, d) /\ heap' = [heap EXCEPT ![d] = f]
               /\ \A k \in DOMAIN oLib : heap'[oLib'[k]] = heap[oLib[k]]
               /\ heap'[oLib'[Len(oLib) + 1]] = f
<1>1. CASE f \notin Loadable
  BY <1>1 DEF LoadDict, HeapOwned, Live
<1>2. CASE f \in Loadable
  <2>1. PICK d \in Dicts \ Live : /\ heap' = [heap EXCEPT ![d] = f]
                                  /\ oLib' = Append(oLib, d)
                                  /\ prev' = prev
    BY <1>2 DEF LoadDict
  <2>2. f # Free
    BY FreeAssumption
  <2>3. heap \in [Dicts -> Files \cup {Free}] /\ oLib \in Seq(Dicts)
    BY DEF TypeOK
  <2>4. Live' = Live \cup {d}
    BY <2>1, <2>2, <2>3 DEF Live
  <2>5. ToSet(oLib') = ToSet(oLib) \cup {d}
    BY <2>1, <2>3, ToSetAppend
  <2>6. d \notin ToSet(oLib) /\ d \notin prev
    BY DEF HeapOwned
  <2>7. /\ Len(oLib) \in Nat /\ DOMAIN oLib = 1..Len(oLib)
        /\ DOMAIN oLib' = 1..Len(oLib) + 1
        /\ oLib'[Len(oLib) + 1] = d
        /\ \A k \in DOMAIN oLib : oLib'[k] = oLib[k]
    BY <2>1, <2>3
  <2>8. \A k \in DOMAIN oLib : oLib[k] # d /\ oLib[k] \in Dicts
    BY <2>3, <2>6 DEF ToSet
  <2>9. \A k, l \in DOMAIN oLib' : oLib'[k] = oLib'[l] => k = l
    <3>. SUFFICES ASSUME NEW k \in DOMAIN oLib', NEW l \in DOMAIN oLib', oLib'[k] = oLib'[l]
                  PROVE  k = l
      OBVIOUS
    <3>1. CASE k \in DOMAIN oLib /\ l \in DOMAIN oLib
      BY <3>1, <2>7 DEF HeapOwned
    <3>2. CASE k \notin DOMAIN oLib \/ l \notin DOMAIN oLib
      BY <3>2, <2>7, <2>8
    <3>. QED  BY <3>1, <3>2
  <2>10. ToSet(oLib') \cap prev' = {}
    BY <2>1, <2>5, <2>6 DEF HeapOwned
  <2>11. ToSet(oLib') \cup prev' = Live'
    BY <2>1, <2>4, <2>5 DEF HeapOwned
  <2>12. \A k \in DOMAIN oLib : heap'[oLib'[k]] = heap[oLib[k]]
    BY <2>1, <2>3, <2>7, <2>8
  <2>13. heap'[oLib'[Len(oLib) + 1]] = f
    BY <2>1, <2>3, <2>7
  <2>. QED  BY <2>1, <2>9, <2>10, <2>11, <2>12, <2>13 DEF HeapOwned
<1>. QED  BY <1>1, <1>2

\* Taking an old object over moves it from prev to the end of oLib.
LEMMA ReuseStep ==
  ASSUME TypeOK, HeapOwned, NEW f, Reuse(f)
  PROVE  /\ HeapOwned'
         /\ heap' = heap
         /\ \E d \in prev : oLib' = Append(oLib, d) /\ heap[d] = f
<1>1. PICK d \in prev : heap[d] = f /\ prev' = prev \ {d} /\ oLib' = Append(oLib, d) /\ heap' = heap
  BY DEF Reuse
<1>2. oLib \in Seq(Dicts) /\ d \in Dicts
  BY DEF TypeOK
<1>3. ToSet(oLib') = ToSet(oLib) \cup {d}
  BY <1>1, <1>2, ToSetAppend
<1>4. /\ Len(oLib) \in Nat /\ DOMAIN oLib = 1..Len(oLib)
      /\ DOMAIN oLib' = 1..Len(oLib) + 1
      /\ oLib'[Len(oLib) + 1] = d
      /\ \A k \in DOMAIN oLib : oLib'[k] = oLib[k]
  BY <1>1, <1>2
<1>5. \A k \in DOMAIN oLib : oLib[k] # d
  BY DEF HeapOwned, ToSet
<1>6. \A k, l \in DOMAIN oLib' : oLib'[k] = oLib'[l] => k = l
  <2>. SUFFICES ASSUME NEW k \in DOMAIN oLib', NEW l \in DOMAIN oLib', oLib'[k] = oLib'[l]
                PROVE  k = l
    OBVIOUS
  <2>1. CASE k \in DOMAIN oLib /\ l \in DOMAIN oLib
    BY <2>1, <1>4 DEF HeapOwned
  <2>2. CASE k \notin DOMAIN oLib \/ l \notin DOMAIN oLib
    BY <2>2, <1>4, <1>5
  <2>. QED  BY <2>1, <2>2
<1>7. ToSet(oLib') \cap prev' = {}
  BY <1>1, <1>3 DEF HeapOwned
<1>8. Live' = Live
  BY <1>1 DEF Live
<1>9. ToSet(oLib') \cup prev' = Live'
  BY <1>1, <1>3, <1>8 DEF HeapOwned
<1>. QED  BY <1>1, <1>6, <1>7, <1>9 DEF HeapOwned

\* HeapOwned depends on the heap and its two owners only.
LEMMA OwnedStutter ==
  ASSUME OwnedInv, UNCHANGED <<heap, oLib, prev>>,
         pc' # "reload" => prev = {},
         pc' = "off" => oLib = <<>> /\ mask' = <<>>
  PROVE  OwnedInv'
BY DEF OwnedInv, HeapOwned, Live

LEMMA OwnedAlways == Spec => []OwnedInv
<1>1. Init => OwnedInv
  BY DEF Init, OwnedInv, HeapOwned, Live, ToSet
<1>2. TypeOK /\ OwnedInv /\ [Next]_vars => OwnedInv'
  <2>. SUFFICES ASSUME TypeOK, OwnedInv, [Next]_vars  PROVE OwnedInv'
    OBVIOUS
  <2>. USE DEF stored, search, dialog
  <2>1. CASE LoadNext
    <3>1. list[i] \in Files
      BY <2>1 DEF LoadNext, TypeOK
    <3>2. HeapOwned' /\ prev' = prev
      BY <2>1, <3>1, LoadDictStep DEF LoadNext, OwnedInv
    <3>. QED  BY <2>1, <3>2 DEF LoadNext, OwnedInv
  <2>2. CASE ReloadNext
    <3>1. list[i] \in Files
      BY <2>2 DEF ReloadNext, TypeOK
    <3>2. HeapOwned'
      BY <2>2, <3>1, LoadDictStep, ReuseStep DEF ReloadNext, OwnedInv
    <3>. QED  BY <2>2, <3>2 DEF ReloadNext, OwnedInv
  <2>3. CASE ReloadDone
    <3>1. heap \in [Dicts -> Files \cup {Free}]
      BY DEF TypeOK
    <3>2. heap' = [d \in Dicts |-> IF d \in prev THEN Free ELSE heap[d]]
          /\ prev' = {} /\ oLib' = oLib /\ pc' = "mask"
      BY <2>3 DEF ReloadDone
    <3>3. Live' = Live \ prev
      BY <3>1, <3>2 DEF Live
    <3>4. ToSet(oLib') = ToSet(oLib)
      BY <3>2
    <3>. QED  BY <3>2, <3>3, <3>4 DEF OwnedInv, HeapOwned
  <2>4. CASE AcceptDialog
    <3>1. prev = {} /\ prev' = ToSet(oLib) /\ oLib' = <<>> /\ heap' = heap /\ pc' = "reload"
      BY <2>4 DEF AcceptDialog, OwnedInv
    <3>2. Live' = Live /\ ToSet(oLib') = {}
      BY <3>1 DEF Live, ToSet
    <3>. QED  BY <3>1, <3>2 DEF OwnedInv, HeapOwned
  <2>5. CASE Stop
    BY <2>5 DEF Stop, OwnedInv, HeapOwned, Live, ToSet
  <2>6. CASE LoadDone
    BY <2>6, OwnedStutter DEF LoadDone, OwnedInv
  <2>7. CASE MaskNext
    BY <2>7, OwnedStutter DEF MaskNext, OwnedInv
  <2>8. CASE MaskDone
    BY <2>8, OwnedStutter DEF MaskDone, OwnedInv
  <2>9. CASE Research
    BY <2>9, OwnedStutter DEF Research, OwnedInv
  <2>10. CASE Start
    BY <2>10, OwnedStutter DEF Start, OwnedInv
  <2>11. CASE DiskChange
    BY <2>11, OwnedStutter DEF DiskChange, OwnedInv
  <2>12. CASE EditEntry
    BY <2>12, OwnedStutter DEF EditEntry, OwnedInv
  <2>13. CASE SearchWord
    BY <2>13, OwnedStutter DEF SearchWord, OwnedInv
  <2>14. CASE OpenDialog
    BY <2>14, OwnedStutter DEF OpenDialog, OwnedInv
  <2>15. CASE LeaveDialog
    BY <2>15, OwnedStutter DEF LeaveDialog, OwnedInv
  <2>16. CASE UNCHANGED vars
    BY <2>16, OwnedStutter DEF vars, OwnedInv
  <2>. QED  BY <2>1, <2>2, <2>3, <2>4, <2>5, <2>6, <2>7, <2>8, <2>9, <2>10,
               <2>11, <2>12, <2>13, <2>14, <2>15, <2>16 DEF Next, Run
<1>. QED  BY <1>1, <1>2, TypeCorrect, PTL DEF Spec

\* No Dict object is ever owned twice, used after its deletion, or leaked.
THEOREM Ownership == Spec => []HeapOwned
<1>1. OwnedInv => HeapOwned
  BY DEF OwnedInv
<1>. QED  BY <1>1, OwnedAlways, PTL

-----------------------------------------------------------------------------
(* Alignment.  The lists have no repetitions, so the objects of oLib stand *)
(* in the order of their files in the list, and the loop over the same     *)
(* list that fills query_dictmask meets them in that order: its k-th hit   *)
(* is oLib[k].                                                             *)

ListsInv == NoRepeats(conf) /\ NoRepeats(list) /\ NoRepeats(rows)

\* The objects o (whose files the heap h tells) come from the first n elements
\* of the list ls, in its order.
InListOrder(o, h, ls, n) ==
    /\ \A k \in DOMAIN o : \E p \in DOMAIN ls : p <= n /\ ls[p] = h[o[k]]
    /\ \A k, l \in DOMAIN o : \A p, q \in DOMAIN ls :
          k < l /\ ls[p] = h[o[k]] /\ ls[q] = h[o[l]] => p < q

\* m is what the first n elements of the list ls contribute to query_dictmask.
MaskedUpTo(m, o, h, ls, n) ==
    /\ Len(m) <= Len(o)
    /\ \A k \in DOMAIN m : m[k] = k
    /\ \A k \in DOMAIN o : \A p \in DOMAIN ls : ls[p] = h[o[k]] => (k <= Len(m) <=> p <= n)

MaskComplete ==
    /\ Len(mask) = Len(oLib)
    /\ \A k \in DOMAIN mask : mask[k] = k
    /\ idxCap = Len(mask)

AlignInv ==
    /\ ListsInv
    /\ pc = "off" => oLib = <<>>
    /\ pc \in {"load", "reload"} =>
          i <= Len(list) + 1 /\ InListOrder(oLib, heap, list, i - 1)
    /\ pc = "mask" =>
          /\ i <= Len(list) + 1
          /\ InListOrder(oLib, heap, list, Len(list))
          /\ MaskedUpTo(mask, oLib, heap, list, i - 1)
    /\ pc \in {"idle", "research", "dialog"} => MaskComplete

\* Appending to o an object of the element n+1 of the list keeps it in order.
LEMMA AppendInOrder ==
  ASSUME NEW ls \in Seq(Files), NoRepeats(ls), NEW n \in Nat, n + 1 \in DOMAIN ls,
         NEW o \in Seq(Dicts), NEW h, InListOrder(o, h, ls, n),
         NEW d \in Dicts, NEW h2, h2[d] = ls[n + 1],
         \A k \in DOMAIN o : h2[o[k]] = h[o[k]]
  PROVE  InListOrder(Append(o, d), h2, ls, n + 1)
<1>. DEFINE o2 == Append(o, d)
<1>1. /\ Len(o) \in Nat /\ DOMAIN o = 1..Len(o)
      /\ DOMAIN o2 = 1..Len(o) + 1
      /\ o2[Len(o) + 1] = d
      /\ \A k \in DOMAIN o : o2[k] = o[k]
  OBVIOUS
<1>2. DOMAIN ls = 1..Len(ls) /\ Len(ls) \in Nat
  OBVIOUS
<1>. HIDE DEF o2
<1>3. \A k \in DOMAIN o : \A p \in DOMAIN ls : ls[p] = h[o[k]] => p <= n
  BY <1>2 DEF InListOrder, NoRepeats
<1>4. ASSUME NEW k \in DOMAIN o2  PROVE \E p \in DOMAIN ls : p <= n + 1 /\ ls[p] = h2[o2[k]]
  <2>1. CASE k \in DOMAIN o
    <3>1. PICK p \in DOMAIN ls : p <= n /\ ls[p] = h[o[k]]
      BY <2>1 DEF InListOrder
    <3>2. p <= n + 1
      BY <3>1, <1>2
    <3>. QED  BY <2>1, <3>1, <3>2, <1>1
  <2>2. CASE k = Len(o) + 1
    BY <2>2, <1>1
  <2>. QED  BY <2>1, <2>2, <1>1
<1>5. ASSUME NEW k \in DOMAIN o2, NEW l \in DOMAIN o2, NEW p \in DOMAIN ls, NEW q \in DOMAIN ls,
             k < l, ls[p] = h2[o2[k]], ls[q] = h2[o2[l]]
      PROVE  p < q
  <2>1. k \in DOMAIN o
    BY <1>1, <1>5
  <2>2. ls[p] = h[o[k]] /\ p <= n
    BY <2>1, <1>1, <1>3, <1>5
  <2>3. CASE l \in DOMAIN o
    BY <2>1, <2>2, <2>3, <1>1, <1>5 DEF InListOrder
  <2>4. CASE l = Len(o) + 1
    <3>1. q = n + 1
      BY <2>4, <1>1, <1>5 DEF NoRepeats
    <3>. QED  BY <2>2, <3>1, <1>2
  <2>. QED  BY <2>3, <2>4, <1>1
<1>. QED  BY <1>4, <1>5 DEF InListOrder, o2

\* An element of the list that is not loaded changes nothing.
LEMMA SkipInOrder ==
  ASSUME NEW ls \in Seq(Files), NEW n \in Nat, NEW o, NEW h, InListOrder(o, h, ls, n)
  PROVE  InListOrder(o, h, ls, n + 1)
<1>1. DOMAIN ls \subseteq Nat
  OBVIOUS
<1>2. \A p \in DOMAIN ls : p <= n => p <= n + 1
  BY <1>1
<1>. QED  BY <1>2 DEF InListOrder

\* One iteration of a load or reload loop.
LEMMA LoadInOrder ==
  ASSUME TypeOK, HeapOwned, NoRepeats(list), i \in DOMAIN list,
         InListOrder(oLib, heap, list, i - 1),
         i' = i + 1, LoadDict(list[i]) \/ Reuse(list[i])
  PROVE  InListOrder(oLib', heap', list, i' - 1)
<1>1. i \in Nat \ {0} /\ list \in Seq(Files) /\ list[i] \in Files
      /\ i - 1 \in Nat /\ i' - 1 = (i - 1) + 1 /\ (i - 1) + 1 = i
      /\ oLib \in Seq(Dicts) /\ heap \in [Dicts -> Files \cup {Free}]
  BY DEF TypeOK
<1>2. CASE UNCHANGED <<heap, oLib>>
  BY <1>1, <1>2, SkipInOrder
<1>3. ASSUME NEW d \in Dicts, oLib' = Append(oLib, d), heap'[d] = list[i],
             \A k \in DOMAIN oLib : heap'[oLib[k]] = heap[oLib[k]]
      PROVE  InListOrder(oLib', heap', list, (i - 1) + 1)
  BY <1>1, <1>3, AppendInOrder
<1>4. CASE LoadDict(list[i])
  <2>1. CASE ~UNCHANGED <<heap, oLib>>
    <3>1. PICK d \in Dicts \ Live : oLib' = Append(oLib, d) /\ heap' = [heap EXCEPT ![d] = list[i]]
      BY <1>1, <1>4, <2>1, LoadDictStep
    <3>2. heap'[d] = list[i]
      BY <1>1, <3>1
    <3>3. \A k \in DOMAIN oLib : oLib[k] # d /\ oLib[k] \in Dicts
      BY <1>1 DEF HeapOwned, ToSet
    <3>4. \A k \in DOMAIN oLib : heap'[oLib[k]] = heap[oLib[k]]
      BY <1>1, <3>1, <3>3
    <3>. QED  BY <1>1, <1>3, <3>1, <3>2, <3>4
  <2>. QED  BY <1>2, <2>1
<1>5. CASE Reuse(list[i])
  <2>1. PICK d \in prev : oLib' = Append(oLib, d) /\ heap[d] = list[i]
    BY <1>5, ReuseStep
  <2>2. heap' = heap /\ d \in Dicts
    BY <1>5, ReuseStep DEF TypeOK
  <2>. QED  BY <1>1, <1>3, <2>1, <2>2
<1>. QED  BY <1>4, <1>5

\* One iteration of the loop that fills query_dictmask.
LEMMA MaskInOrder ==
  ASSUME TypeOK, NoRepeats(list), i \in DOMAIN list,
         InListOrder(oLib, heap, list, Len(list)),
         MaskedUpTo(mask, oLib, heap, list, i - 1),
         i' = i + 1,
         \/ \E k \in FindLib(list[i]) : mask' = Append(mask, k)
         \/ FindLib(list[i]) = {} /\ UNCHANGED mask
  PROVE  MaskedUpTo(mask', oLib, heap, list, i' - 1)
<1>1. /\ i \in Nat \ {0} /\ i' - 1 = i
      /\ DOMAIN list = 1..Len(list) /\ Len(list) \in Nat
      /\ DOMAIN oLib = 1..Len(oLib) /\ Len(oLib) \in Nat
      /\ mask \in Seq(Nat) /\ DOMAIN mask = 1..Len(mask) /\ Len(mask) \in Nat
  BY DEF TypeOK
<1>2. \A k \in DOMAIN oLib : \A p \in DOMAIN list :
          list[p] = heap[oLib[k]] => (k <= Len(mask) <=> p <= i - 1)
  BY DEF MaskedUpTo
<1>3. \A k, l \in DOMAIN oLib : \A p, q \in DOMAIN list :
          k < l /\ list[p] = heap[oLib[k]] /\ list[q] = heap[oLib[l]] => p < q
  BY DEF InListOrder
<1>4. CASE \E k \in FindLib(list[i]) : mask' = Append(mask, k)
  <2>1. PICK r \in FindLib(list[i]) : mask' = Append(mask, r)
    BY <1>4
  <2>2. r \in DOMAIN oLib /\ list[i] = heap[oLib[r]]
    BY <2>1 DEF FindLib, LibsOf
  <2>3. r > Len(mask)
    BY <1>1, <1>2, <2>2
  <2>4. ~(r > Len(mask) + 1)
    <3>. SUFFICES ASSUME r > Len(mask) + 1  PROVE FALSE
      OBVIOUS
    <3>1. Len(mask) + 1 \in DOMAIN oLib
      BY <1>1, <2>2
    <3>2. PICK p \in DOMAIN list : list[p] = heap[oLib[Len(mask) + 1]]
      BY <3>1 DEF InListOrder
    <3>3. p < i
      BY <1>1, <1>3, <2>2, <3>1, <3>2
    <3>4. Len(mask) + 1 <= Len(mask)
      BY <1>1, <1>2, <3>1, <3>2, <3>3, SMTT(30)
    <3>. QED  BY <1>1, <3>4
  <2>5. r = Len(mask) + 1
    BY <1>1, <2>2, <2>3, <2>4
  <2>6. Len(mask') = r /\ DOMAIN mask' = 1..r /\ \A k \in DOMAIN mask' : mask'[k] = k
    <3>1. r \in Nat /\ \A k \in DOMAIN mask : mask[k] = k
      BY <1>1, <2>2 DEF MaskedUpTo
    <3>2. /\ Len(Append(mask, r)) = Len(mask) + 1
          /\ DOMAIN Append(mask, r) = 1..Len(mask) + 1
          /\ \A k \in 1..Len(mask) : Append(mask, r)[k] = mask[k]
          /\ Append(mask, r)[Len(mask) + 1] = r
      BY <1>1, <3>1
    <3>3. \A k \in 1..Len(mask) + 1 : Append(mask, r)[k] = k
      <4>1. \A k \in 1..Len(mask) + 1 : k \in 1..Len(mask) \/ k = Len(mask) + 1
        BY <1>1
      <4>. QED  BY <1>1, <2>5, <3>1, <3>2, <4>1
    <3>. QED  BY <2>1, <2>5, <3>2, <3>3
  <2>7. ASSUME NEW k \in DOMAIN oLib, NEW p \in DOMAIN list, list[p] = heap[oLib[k]]
        PROVE  k <= r <=> p <= i
    <3>1. CASE p <= i - 1
      BY <3>1, <1>1, <1>2, <2>5, <2>7
    <3>2. CASE p = i
      BY <3>2, <1>1, <1>3, <2>2, <2>7
    <3>3. CASE p > i
      <4>1. k > Len(mask)
        BY <3>3, <1>1, <1>2, <2>7
      <4>2. k # r
        BY <3>3, <1>1, <2>2, <2>7 DEF NoRepeats
      <4>. QED  BY <3>3, <4>1, <4>2, <1>1, <2>5
    <3>. QED  BY <3>1, <3>2, <3>3, <1>1
  <2>8. Len(mask') <= Len(oLib)
    BY <1>1, <2>2, <2>6
  <2>. QED  BY <1>1, <2>6, <2>7, <2>8 DEF MaskedUpTo
<1>5. CASE FindLib(list[i]) = {} /\ UNCHANGED mask
  <2>1. \A k \in DOMAIN oLib : list[i] # heap[oLib[k]]
    <3>. SUFFICES ASSUME NEW k \in DOMAIN oLib, list[i] = heap[oLib[k]]  PROVE FALSE
      OBVIOUS
    <3>1. k \in LibsOf(list[i])
      BY DEF LibsOf
    <3>2. ASSUME NEW l \in LibsOf(list[i])  PROVE k <= l
      <4>1. l \in DOMAIN oLib /\ list[i] = heap[oLib[l]]
        BY DEF LibsOf
      <4>2. l < k => i < i
        BY <4>1, <1>3
      <4>3. k \in Nat /\ l \in Nat
        BY <4>1, <1>1
      <4>. QED  BY <4>2, <4>3, <1>1
    <3>. QED  BY <3>1, <3>2, <1>5 DEF FindLib
  <2>2. \A k \in DOMAIN oLib : \A p \in DOMAIN list :
            list[p] = heap[oLib[k]] => (k <= Len(mask) <=> p <= i)
    BY <1>1, <1>2, <2>1
  <2>. QED  BY <1>1, <1>5, <2>2 DEF MaskedUpTo
<1>. QED  BY <1>4, <1>5

\* When the masking loop has come to its end, every loaded dictionary is in the mask.
LEMMA AllMasked ==
  ASSUME NEW m \in Seq(Nat), NEW o \in Seq(Dicts), NEW h, NEW ls,
         InListOrder(o, h, ls, Len(ls)), MaskedUpTo(m, o, h, ls, Len(ls))
  PROVE  Len(m) = Len(o)
<1>1. Len(m) \in Nat /\ Len(o) \in Nat /\ DOMAIN o = 1..Len(o) /\ Len(m) <= Len(o)
  BY DEF MaskedUpTo
<1>2. CASE Len(o) # 0
  <2>1. Len(o) \in DOMAIN o
    BY <1>1, <1>2
  <2>2. PICK p \in DOMAIN ls : p <= Len(ls) /\ ls[p] = h[o[Len(o)]]
    BY <2>1 DEF InListOrder
  <2>3. Len(o) <= Len(m)
    BY <2>1, <2>2 DEF MaskedUpTo
  <2>. QED  BY <1>1, <2>3
<1>. QED  BY <1>1, <1>2

\* Handlers that load nothing leave the alignment alone.
LEMMA AlignStutter ==
  ASSUME AlignInv, UNCHANGED <<heap, oLib, mask, idxCap, conf, list, i>>,
         NoRepeats(rows'),
         pc \in {"idle", "research", "dialog"}, pc' \in {"idle", "research", "dialog"}
  PROVE  AlignInv'
BY DEF AlignInv, ListsInv, MaskComplete, NoRepeats

\* oLib follows the list as far as the loops of load and reload have come, and
\* query_dictmask and iCurrentIndex follow oLib.
THEOREM Alignment == Spec => []AlignInv
<1>1. Init => AlignInv
  BY DEF Init, AlignInv, ListsInv, NoRepeats
<1>2. TypeOK /\ HeapOwned /\ AlignInv /\ [Next]_vars => AlignInv'
  <2>. SUFFICES ASSUME TypeOK, HeapOwned, AlignInv, [Next]_vars  PROVE AlignInv'
    OBVIOUS
  <2>. USE DEF stored, search, dialog
  <2>0. /\ i \in Nat \ {0} /\ list \in Seq(Files) /\ Len(list) \in Nat
        /\ DOMAIN list = 1..Len(list)
    BY DEF TypeOK
  <2>1. CASE LoadNext \/ ReloadNext
    <3>1. /\ pc \in {"load", "reload"} /\ pc' = pc
          /\ i <= Len(list) /\ i' = i + 1
          /\ UNCHANGED <<conf, list, rows>>
          /\ LoadDict(list[i]) \/ Reuse(list[i])
      BY <2>1 DEF LoadNext, ReloadNext
    <3>2. i \in DOMAIN list
      BY <2>0, <3>1
    <3>3. InListOrder(oLib', heap', list, i' - 1)
      BY <3>1, <3>2, LoadInOrder DEF AlignInv, ListsInv
    <3>4. i' <= Len(list') + 1
      BY <2>0, <3>1
    <3>. QED  BY <3>1, <3>3, <3>4 DEF AlignInv, ListsInv
  <2>2. CASE LoadDone \/ ReloadDone
    <3>1. /\ pc \in {"load", "reload"} /\ pc' = "mask"
          /\ i > Len(list) /\ i' = 1 /\ mask' = <<>>
          /\ UNCHANGED <<conf, list, rows, oLib>>
      BY <2>2 DEF LoadDone, ReloadDone
    <3>2. \A k \in DOMAIN oLib : heap'[oLib[k]] = heap[oLib[k]]
      <4>1. \A k \in DOMAIN oLib : oLib[k] \in Dicts /\ oLib[k] \notin prev
        BY DEF TypeOK, HeapOwned, ToSet
      <4>. QED  BY <2>2, <4>1 DEF LoadDone, ReloadDone
    <3>3. i - 1 = Len(list)
      BY <2>0, <3>1 DEF AlignInv
    <3>4. InListOrder(oLib, heap, list, Len(list))
      BY <3>1, <3>3 DEF AlignInv
    <3>5. InListOrder(oLib', heap', list', Len(list'))
      BY <3>1, <3>2, <3>4 DEF InListOrder
    <3>6. MaskedUpTo(mask', oLib', heap', list', i' - 1)
      <4>1. Len(oLib) \in Nat /\ DOMAIN oLib = 1..Len(oLib)
        BY DEF TypeOK
      <4>2. Len(mask') = 0 /\ DOMAIN mask' = {} /\ i' - 1 = 0
        BY <3>1
      <4>. QED  BY <2>0, <3>1, <4>1, <4>2 DEF MaskedUpTo
    <3>7. i' <= Len(list') + 1
      BY <2>0, <3>1
    <3>. QED  BY <3>1, <3>5, <3>6, <3>7 DEF AlignInv, ListsInv
  <2>3. CASE MaskNext
    <3>1. /\ pc = "mask" /\ pc' = "mask" /\ i <= Len(list) /\ i' = i + 1
          /\ UNCHANGED <<conf, list, rows, oLib, heap>>
      BY <2>3 DEF MaskNext
    <3>2. MaskedUpTo(mask', oLib, heap, list, i' - 1)
      <4>1. i \in DOMAIN list
        BY <2>0, <3>1
      <4>. QED  BY <2>3, <3>1, <4>1, MaskInOrder DEF MaskNext, AlignInv, ListsInv
    <3>3. i' <= Len(list') + 1
      BY <2>0, <3>1
    <3>. QED  BY <3>1, <3>2, <3>3 DEF AlignInv, ListsInv
  <2>4. CASE MaskDone
    <3>1. /\ pc = "mask" /\ pc' \in {"idle", "research"} /\ i > Len(list)
          /\ idxCap' = Len(mask) /\ list' = <<>>
          /\ UNCHANGED <<conf, rows, oLib, mask>>
      BY <2>4 DEF MaskDone
    <3>2. i - 1 = Len(list)
      BY <2>0, <3>1 DEF AlignInv
    <3>3. MaskedUpTo(mask, oLib, heap, list, Len(list)) /\ InListOrder(oLib, heap, list, Len(list))
      BY <3>1, <3>2 DEF AlignInv
    <3>4. Len(oLib) \in Nat /\ DOMAIN oLib = 1..Len(oLib) /\ Len(mask) \in Nat
      BY DEF TypeOK
    <3>5. Len(mask) = Len(oLib)
      BY <3>3, AllMasked DEF TypeOK
    <3>6. MaskComplete'
      BY <3>1, <3>3, <3>5 DEF MaskComplete, MaskedUpTo
    <3>7. NoRepeats(list')
      BY <3>1 DEF NoRepeats
    <3>. QED  BY <3>1, <3>6, <3>7 DEF AlignInv, ListsInv
  <2>5. CASE Start
    <3>1. /\ pc = "off" /\ pc' = "load" /\ i' = 1 /\ UNCHANGED <<oLib, rows>>
      BY <2>5 DEF Start
    <3>2. oLib' = <<>>
      BY <3>1 DEF AlignInv
    <3>3. NoRepeats(conf') /\ NoRepeats(list') /\ list' \in Seq(Files)
      BY <2>5, GetAllType DEF Start, AlignInv, ListsInv, TypeOK
    <3>4. InListOrder(oLib', heap', list', i' - 1)
      BY <3>2 DEF InListOrder
    <3>5. i' <= Len(list') + 1
      BY <3>1, <3>3
    <3>. QED  BY <3>1, <3>2, <3>3, <3>4, <3>5 DEF AlignInv, ListsInv
  <2>6. CASE AcceptDialog
    <3>1. /\ pc' = "reload" /\ i' = 1 /\ oLib' = <<>> /\ list' = conf' /\ rows' = <<>>
      BY <2>6 DEF AcceptDialog
    <3>2. NoRepeats(conf') /\ conf' \in Seq(Files)
      BY <2>6, InRowOrderType DEF AcceptDialog, TypeOK
    <3>3. InListOrder(oLib', heap', list', i' - 1)
      BY <3>1 DEF InListOrder
    <3>4. i' <= Len(list') + 1 /\ NoRepeats(rows')
      BY <3>1, <3>2 DEF NoRepeats
    <3>. QED  BY <3>1, <3>2, <3>3, <3>4 DEF AlignInv, ListsInv
  <2>7. CASE Stop
    <3>1. pc' = "off" /\ oLib' = <<>> /\ list' = <<>> /\ rows' = <<>> /\ conf' = conf
      BY <2>7 DEF Stop
    <3>. QED  BY <3>1 DEF AlignInv, ListsInv, NoRepeats
  <2>8. CASE OpenDialog
    <3>1. NoRepeats(rows')
      BY <2>8, GetAllType DEF OpenDialog
    <3>. QED  BY <2>8, <3>1, AlignStutter DEF OpenDialog
  <2>9. CASE LeaveDialog
    <3>1. NoRepeats(rows')
      BY <2>9 DEF LeaveDialog, NoRepeats
    <3>. QED  BY <2>9, <3>1, AlignStutter DEF LeaveDialog
  <2>10. CASE Research
    BY <2>10, AlignStutter DEF Research, AlignInv, ListsInv
  <2>11. CASE EditEntry
    BY <2>11, AlignStutter DEF EditEntry, AlignInv, ListsInv
  <2>12. CASE SearchWord
    BY <2>12, AlignStutter DEF SearchWord, AlignInv, ListsInv
  <2>13. CASE DiskChange \/ UNCHANGED vars
    <3>1. UNCHANGED <<heap, oLib, mask, idxCap, conf, list, i, rows, pc>>
      BY <2>13 DEF DiskChange, vars
    <3>. QED  BY <3>1 DEF AlignInv, ListsInv, MaskComplete
  <2>. QED  BY <2>1, <2>2, <2>3, <2>4, <2>5, <2>6, <2>7, <2>8, <2>9, <2>10,
               <2>11, <2>12, <2>13 DEF Next, Run
<1>. QED  BY <1>1, <1>2, TypeCorrect, Ownership, PTL DEF Spec

\* Result labels and dialog rows always name the right dictionary.
THEOREM NamesCorrect == Spec => []NamesMatch
<1>1. TypeOK /\ AlignInv => NamesMatch
  BY DEF TypeOK, AlignInv, MaskComplete, NamesMatch
<1>. QED  BY <1>1, TypeCorrect, Alignment, PTL

\* No search can follow query_dictmask to a deleted dictionary or write beyond
\* the end of iCurrentIndex.
THEOREM SearchesSafe == Spec => []SearchSafe
<1>1. TypeOK /\ HeapOwned /\ AlignInv => SearchSafe
  <2>. SUFFICES ASSUME TypeOK, HeapOwned, AlignInv, pc \in {"idle", "research", "dialog"},
                       NEW k \in DOMAIN mask
                PROVE  k <= idxCap /\ mask[k] \in DOMAIN oLib /\ oLib[mask[k]] \in Live
    BY DEF SearchSafe
  <2>1. k \in 1..Len(mask) /\ mask[k] = k /\ k \in DOMAIN oLib /\ idxCap = Len(mask)
    BY DEF TypeOK, AlignInv, MaskComplete
  <2>2. oLib[k] \in Live
    BY <2>1 DEF HeapOwned, ToSet
  <2>. QED  BY <2>1, <2>2
<1>. QED  BY <1>1, TypeCorrect, Ownership, Alignment, PTL

\* Searches find live objects, their own places in iCurrentIndex and the right
\* names.
THEOREM SearchesAligned == Spec => []SearchAligned
<1>1. SearchSafe /\ NamesMatch => SearchAligned
  BY DEF SearchAligned
<1>. QED  BY <1>1, SearchesSafe, NamesCorrect, PTL

-----------------------------------------------------------------------------
(* What is loaded.  Nothing changes the disk or gconf while a list is      *)
(* loaded, so what the loops have passed can be compared with both.        *)

\* All of the first n elements of the list that can be loaded are.
LoadedUpTo(n) ==
    \A p \in DOMAIN list :
        p <= n /\ list[p] \in Loadable => \E k \in DOMAIN oLib : heap[oLib[k]] = list[p]

\* The list that is loaded is the stored one, if there is one; and what was loaded
\* from it stands in its order.
FollowInv ==
    /\ pc \in {"load", "reload", "mask"} /\ confSet = "yes" => list = conf
    /\ pc \in {"idle", "research", "dialog"} /\ confSet = "yes" =>
          InListOrder(oLib, heap, conf, Len(conf))
    /\ pc \in {"load", "reload"} => LoadedUpTo(i - 1)
    /\ pc = "mask" => LoadedUpTo(Len(list))

\* The label is only wrong between a reload and the search that follows it, and
\* not even then if nothing could be loaded.
LabelInv ==
    /\ pc = "reload" => caller = "dialog"
    /\ pc \in {"off", "load"} => entry = "empty"
    /\ pc = "load" \/ (pc = "mask" /\ caller = "main") => label = "NoResults"
    /\ pc = "research" /\ mask = <<>> => label = "NoDictionary"
    /\ pc \in {"idle", "dialog"} =>
          /\ label = "NoDictionary" <=> mask = <<>>
          /\ label = "Results" => entry # "empty"

\* The rows and the selection of the dialog stay what they were computed as.
PreselInv ==
    pc = "dialog" =>
        /\ ToSet(rows) \subseteq Installed
        /\ presel = {f \in Installed : \E k \in 1..Len(mask) : DictName(k) = RowName(f)}

\* The objects that a reload deletes at its end are not those of oLib.
LEMMA DoneKeepsFiles ==
  ASSUME TypeOK, HeapOwned, LoadDone \/ ReloadDone
  PROVE  \A k \in DOMAIN oLib : heap'[oLib[k]] = heap[oLib[k]]
<1>1. \A k \in DOMAIN oLib : oLib[k] \in Dicts /\ oLib[k] \notin prev
  BY DEF TypeOK, HeapOwned, ToSet
<1>. QED  BY <1>1 DEF LoadDone, ReloadDone

\* One iteration of a load or reload loop loads its element if that can be.
LEMMA LoadReaches ==
  ASSUME TypeOK, HeapOwned, i \in DOMAIN list, LoadedUpTo(i - 1),
         i' = i + 1, UNCHANGED <<disk, list>>,
         LoadDict(list[i]) \/ Reuse(list[i])
  PROVE  LoadedUpTo(i - 1)'
<1>1. /\ i \in Nat /\ i' - 1 = i /\ list \in Seq(Files) /\ list[i] \in Files
      /\ DOMAIN list \subseteq Nat /\ oLib \in Seq(Dicts)
      /\ Len(oLib) \in Nat /\ DOMAIN oLib = 1..Len(oLib)
  BY DEF TypeOK
<1>2. Loadable' = Loadable
  BY DEF Loadable
<1>3. /\ \A k \in DOMAIN oLib : k \in DOMAIN oLib' /\ heap'[oLib'[k]] = heap[oLib[k]]
      /\ list[i] \in Loadable => \E k \in DOMAIN oLib' : heap'[oLib'[k]] = list[i]
  <2>1. CASE Reuse(list[i])
    <3>1. PICK d \in prev : oLib' = Append(oLib, d) /\ heap[d] = list[i] /\ heap' = heap
      BY <2>1, ReuseStep
    <3>2. d \in Dicts
      BY DEF TypeOK
    <3>3. /\ DOMAIN oLib' = 1..Len(oLib) + 1 /\ oLib'[Len(oLib) + 1] = d
          /\ \A k \in DOMAIN oLib : oLib'[k] = oLib[k]
      BY <1>1, <3>1, <3>2
    <3>. QED  BY <1>1, <3>1, <3>3
  <2>2. CASE LoadDict(list[i]) /\ list[i] \notin Loadable
    BY <2>2 DEF LoadDict
  <2>3. CASE LoadDict(list[i]) /\ list[i] \in Loadable
    <3>1. PICK d \in Dicts \ Live : heap' = [heap EXCEPT ![d] = list[i]] /\ oLib' = Append(oLib, d)
      BY <2>3 DEF LoadDict
    <3>2. /\ DOMAIN oLib' = 1..Len(oLib) + 1 /\ oLib'[Len(oLib) + 1] = d
          /\ \A k \in DOMAIN oLib : oLib'[k] = oLib[k]
      BY <1>1, <3>1
    <3>3. \A k \in DOMAIN oLib : oLib[k] \in Dicts /\ oLib[k] # d
      BY <1>1 DEF HeapOwned, ToSet
    <3>4. heap \in [Dicts -> Files \cup {Free}]
      BY DEF TypeOK
    <3>5. heap'[d] = list[i] /\ \A k \in DOMAIN oLib : heap'[oLib[k]] = heap[oLib[k]]
      BY <3>1, <3>3, <3>4
    <3>. QED  BY <1>1, <3>2, <3>5
  <2>. QED  BY <2>1, <2>2, <2>3
<1>. SUFFICES ASSUME NEW p \in DOMAIN list, p <= i, list[p] \in Loadable
              PROVE  \E k \in DOMAIN oLib' : heap'[oLib'[k]] = list[p]
  BY <1>1, <1>2 DEF LoadedUpTo
<1>4. CASE p <= i - 1
  BY <1>3, <1>4 DEF LoadedUpTo
<1>5. CASE p = i
  BY <1>3, <1>5
<1>. QED  BY <1>1, <1>4, <1>5

\* Handlers that load nothing leave what was loaded alone.
LEMMA FollowStutter ==
  ASSUME FollowInv, UNCHANGED <<heap, oLib, conf, confSet>>,
         pc \in {"idle", "research", "dialog"}, pc' \in {"idle", "research", "dialog"}
  PROVE  FollowInv'
BY DEF FollowInv, InListOrder

LEMMA FollowStep == TypeOK /\ HeapOwned /\ AlignInv /\ FollowInv /\ [Next]_vars => FollowInv'
<1>. SUFFICES ASSUME TypeOK, HeapOwned, AlignInv, FollowInv, [Next]_vars  PROVE FollowInv'
  OBVIOUS
<1>. USE DEF stored, search, dialog
<1>0. /\ i \in Nat \ {0} /\ list \in Seq(Files) /\ Len(list) \in Nat
      /\ DOMAIN list = 1..Len(list)
  BY DEF TypeOK
<1>1. CASE LoadNext \/ ReloadNext
  <2>1. /\ pc \in {"load", "reload"} /\ pc' = pc
        /\ i <= Len(list) /\ i' = i + 1
        /\ UNCHANGED <<disk, conf, confSet, list>>
        /\ LoadDict(list[i]) \/ Reuse(list[i])
    BY <1>1 DEF LoadNext, ReloadNext
  <2>2. i \in DOMAIN list
    BY <1>0, <2>1
  <2>3. LoadedUpTo(i - 1)'
    BY <2>1, <2>2, LoadReaches DEF FollowInv
  <2>. QED  BY <2>1, <2>3 DEF FollowInv
<1>2. CASE LoadDone \/ ReloadDone
  <2>1. /\ pc \in {"load", "reload"} /\ pc' = "mask" /\ i > Len(list)
        /\ UNCHANGED <<disk, conf, confSet, list, oLib>>
    BY <1>2 DEF LoadDone, ReloadDone
  <2>2. i - 1 = Len(list)
    BY <1>0, <2>1 DEF AlignInv
  <2>3. \A k \in DOMAIN oLib : heap'[oLib'[k]] = heap[oLib[k]]
    BY <1>2, <2>1, DoneKeepsFiles
  <2>4. LoadedUpTo(Len(list))'
    BY <2>1, <2>2, <2>3 DEF FollowInv, LoadedUpTo, Loadable
  <2>. QED  BY <2>1, <2>4 DEF FollowInv
<1>3. CASE MaskNext
  BY <1>3 DEF MaskNext, FollowInv, LoadedUpTo, Loadable
<1>4. CASE MaskDone
  <2>1. /\ pc = "mask" /\ pc' \in {"idle", "research"}
        /\ UNCHANGED <<conf, confSet, heap, oLib>>
    BY <1>4 DEF MaskDone
  <2>2. InListOrder(oLib, heap, list, Len(list))
    BY <2>1 DEF AlignInv
  <2>3. confSet = "yes" => list = conf
    BY <2>1 DEF FollowInv
  <2>. QED  BY <2>1, <2>2, <2>3 DEF FollowInv
<1>5. CASE Start
  <2>1. pc' = "load" /\ i' = 1 /\ (confSet' = "yes" => list' = conf')
    BY <1>5 DEF Start, TypeOK
  <2>2. list' \in Seq(Files)
    BY <1>5, GetAllType DEF Start, TypeOK
  <2>3. LoadedUpTo(i - 1)'
    BY <2>1, <2>2 DEF LoadedUpTo
  <2>. QED  BY <2>1, <2>3 DEF FollowInv
<1>6. CASE AcceptDialog
  <2>1. pc' = "reload" /\ i' = 1 /\ list' = conf'
    BY <1>6 DEF AcceptDialog
  <2>2. list' \in Seq(Files)
    BY <1>6, <2>1, InRowOrderType DEF AcceptDialog, TypeOK
  <2>3. LoadedUpTo(i - 1)'
    BY <2>1, <2>2 DEF LoadedUpTo
  <2>. QED  BY <2>1, <2>3 DEF FollowInv
<1>7. CASE Stop
  BY <1>7 DEF Stop, FollowInv
<1>8. CASE OpenDialog \/ LeaveDialog
  BY <1>8, FollowStutter DEF OpenDialog, LeaveDialog
<1>9. CASE Research \/ EditEntry \/ SearchWord
  BY <1>9, FollowStutter DEF Research, EditEntry, SearchWord
<1>10. CASE DiskChange
  <2>1. pc \in {"off", "idle"} /\ UNCHANGED <<heap, oLib, conf, confSet, pc>>
    BY <1>10 DEF DiskChange
  <2>. QED  BY <2>1 DEF FollowInv
<1>11. CASE UNCHANGED vars
  BY <1>11 DEF vars, FollowInv, LoadedUpTo, Loadable
<1>. QED  BY <1>1, <1>2, <1>3, <1>4, <1>5, <1>6, <1>7, <1>8, <1>9, <1>10, <1>11 DEF Next, Run

\* An order is what the places of the objects in the stored list show.
LEMMA OrderPlaces ==
  ASSUME NEW o, NEW h, NEW ls, NEW n, InListOrder(o, h, ls, n)
  PROVE  \E pos \in [DOMAIN o -> DOMAIN ls] :
            \A k \in DOMAIN o :
                /\ h[o[k]] = ls[pos[k]]
                /\ \A l \in DOMAIN o : k < l => pos[k] < pos[l]
<1>. DEFINE pos == [k \in DOMAIN o |-> CHOOSE p \in DOMAIN ls : ls[p] = h[o[k]]]
<1>1. \A k \in DOMAIN o : pos[k] \in DOMAIN ls /\ ls[pos[k]] = h[o[k]]
  BY DEF InListOrder
<1>2. pos \in [DOMAIN o -> DOMAIN ls]
  BY <1>1
<1>. HIDE DEF pos
<1>3. \A k, l \in DOMAIN o : k < l => pos[k] < pos[l]
  BY <1>1 DEF InListOrder
<1>. WITNESS pos \in [DOMAIN o -> DOMAIN ls]
<1>. QED  BY <1>1, <1>3

\* Whatever was asked for and can be delivered is loaded, once, in the order of the
\* list in gconf, and can be searched; a crash loses nothing of it.
THEOREM LoadedCorrect == Spec => []LoadedFollowsConf
<1>1. Init => FollowInv
  BY DEF Init, FollowInv
<1>2. TypeOK /\ OwnedInv /\ AlignInv /\ FollowInv => LoadedFollowsConf
  <2>. SUFFICES ASSUME TypeOK, OwnedInv, AlignInv, FollowInv  PROVE LoadedFollowsConf
    OBVIOUS
  <2>1. ASSUME pc = "mask"
        PROVE  /\ \A f \in ToSet(list) \cap Loadable : \E k \in DOMAIN oLib : heap[oLib[k]] = f
               /\ \A d, e \in Live : heap[d] = heap[e] => d = e
               /\ i > Len(list) => Len(mask) = Len(oLib)
    <3>1. /\ InListOrder(oLib, heap, list, Len(list)) /\ LoadedUpTo(Len(list))
          /\ MaskedUpTo(mask, oLib, heap, list, i - 1) /\ i <= Len(list) + 1
          /\ prev = {} /\ HeapOwned
      BY <2>1 DEF AlignInv, FollowInv, OwnedInv
    <3>2. /\ i \in Nat /\ Len(list) \in Nat /\ DOMAIN list = 1..Len(list)
          /\ DOMAIN oLib = 1..Len(oLib) /\ Len(oLib) \in Nat
          /\ mask \in Seq(Nat) /\ oLib \in Seq(Dicts)
      BY DEF TypeOK
    <3>3. ASSUME NEW f \in ToSet(list) \cap Loadable
          PROVE  \E k \in DOMAIN oLib : heap[oLib[k]] = f
      BY <3>1, <3>2 DEF LoadedUpTo, ToSet
    <3>4. ASSUME NEW d \in Live, NEW e \in Live, heap[d] = heap[e]  PROVE d = e
      <4>1. PICK k \in DOMAIN oLib : oLib[k] = d
        BY <3>1 DEF HeapOwned, ToSet
      <4>2. PICK l \in DOMAIN oLib : oLib[l] = e
        BY <3>1 DEF HeapOwned, ToSet
      <4>3. PICK p \in DOMAIN list : list[p] = heap[oLib[k]]
        BY <3>1 DEF InListOrder
      <4>4. ~(k < l) /\ ~(l < k)
        BY <3>1, <3>2, <3>4, <4>1, <4>2, <4>3 DEF InListOrder
      <4>. QED  BY <3>2, <4>1, <4>2, <4>4
    <3>5. ASSUME i > Len(list)  PROVE Len(mask) = Len(oLib)
      <4>1. i - 1 = Len(list)
        BY <3>1, <3>2, <3>5
      <4>. QED  BY <3>1, <3>2, <4>1, AllMasked
    <3>. QED  BY <3>3, <3>4, <3>5
  <2>2. ASSUME pc = "idle", confSet = "yes"
        PROVE  \E pos \in [DOMAIN oLib -> DOMAIN conf] :
                  \A k \in DOMAIN oLib :
                      /\ heap[oLib[k]] = conf[pos[k]]
                      /\ \A l \in DOMAIN oLib : k < l => pos[k] < pos[l]
    BY <2>2, OrderPlaces DEF FollowInv
  <2>. QED  BY <2>1, <2>2 DEF LoadedFollowsConf, ListLoaded
<1>. QED  BY <1>1, <1>2, FollowStep, TypeCorrect, Ownership, OwnedAlways, Alignment, PTL DEF Spec

-----------------------------------------------------------------------------
(* What the window says and what the dialog has selected.                  *)

\* The window tells that nothing is loaded exactly then, and offers results of
\* something only, whatever was loaded, reloaded and typed.
THEOREM LabelCorrect == Spec => []LabelTruthful
<1>1. Init => LabelInv
  BY DEF Init, LabelInv
<1>2. LabelInv /\ [Next]_vars => LabelInv'
  <2>. SUFFICES ASSUME LabelInv, [Next]_vars  PROVE LabelInv'
    OBVIOUS
  <2>. USE DEF LabelInv, stored, search, dialog
  <2>1. CASE LoadNext \/ ReloadNext
    <3>1. UNCHANGED <<entry, label, mask, pc, caller>>
      BY <2>1 DEF LoadNext, ReloadNext
    <3>. QED  BY <3>1
  <2>2. CASE LoadDone
    BY <2>2 DEF LoadDone
  <2>3. CASE ReloadDone
    BY <2>3 DEF ReloadDone
  <2>4. CASE MaskNext
    BY <2>4 DEF MaskNext
  <2>5. CASE MaskDone
    BY <2>5 DEF MaskDone
  <2>6. CASE Research
    BY <2>6 DEF Research, SearchEntryChanged
  <2>7. CASE Start
    BY <2>7 DEF Start
  <2>8. CASE Stop
    BY <2>8 DEF Stop
  <2>9. CASE DiskChange
    BY <2>9 DEF DiskChange
  <2>10. CASE EditEntry
    BY <2>10 DEF EditEntry, SearchEntryChanged
  <2>11. CASE SearchWord
    BY <2>11 DEF SearchWord
  <2>12. CASE OpenDialog
    BY <2>12 DEF OpenDialog
  <2>13. CASE AcceptDialog
    BY <2>13 DEF AcceptDialog
  <2>14. CASE LeaveDialog
    BY <2>14 DEF LeaveDialog
  <2>15. CASE UNCHANGED vars
    BY <2>15 DEF vars
  <2>. QED  BY <2>1, <2>2, <2>3, <2>4, <2>5, <2>6, <2>7, <2>8, <2>9, <2>10,
               <2>11, <2>12, <2>13, <2>14, <2>15 DEF Next, Run
<1>3. LabelInv => LabelTruthful
  BY DEF LabelInv, LabelTruthful
<1>. QED  BY <1>1, <1>2, <1>3, PTL DEF Spec

LEMMA RowsInstalled ==
  ASSUME NEW s \in GetAllDictionaryList
  PROVE  ToSet(s) \subseteq Installed
<1>1. s \in Seq(Installed)
  BY SeqsOfSet, InstalledFinite DEF GetAllDictionaryList
<1>. QED  BY <1>1 DEF ToSet

\* Accepting the dialog untouched keeps every loaded dictionary that is still there.
THEOREM PreselectionCorrect == Spec => []LoadedPreselected
<1>1. Init => PreselInv
  BY DEF Init, PreselInv
<1>2. PreselInv /\ [Next]_vars => PreselInv'
  <2>. SUFFICES ASSUME PreselInv, [Next]_vars, pc' = "dialog"
                PROVE  /\ ToSet(rows') \subseteq Installed'
                       /\ presel' = {f \in Installed : \E k \in 1..Len(mask) : DictName(k) = RowName(f)}'
    BY DEF PreselInv
  <2>1. CASE OpenDialog
    <3>1. rows' \in GetAllDictionaryList /\ UNCHANGED <<disk, heap, oLib, mask>>
          /\ presel' = {f \in Installed : \E k \in 1..Len(mask) : DictName(k) = RowName(f)}
      BY <2>1 DEF OpenDialog, stored
    <3>2. Installed' = Installed /\ ToSet(rows') \subseteq Installed
      BY <3>1, RowsInstalled DEF Installed
    <3>3. \A k : DictName(k)' = DictName(k)
      BY <3>1 DEF DictName
    <3>4. \A f : RowName(f)' = RowName(f)
      BY <3>1 DEF RowName
    <3>. QED  BY <3>1, <3>2, <3>3, <3>4
  <2>2. CASE UNCHANGED vars
    BY <2>2 DEF vars, PreselInv, Installed, DictName, RowName
  <2>. QED
    BY <2>1, <2>2 DEF Next, Run, LoadNext, LoadDone, ReloadNext, ReloadDone, MaskNext,
       MaskDone, Research, Start, Stop, DiskChange, EditEntry, SearchWord, AcceptDialog,
       LeaveDialog
<1>3. TypeOK /\ AlignInv /\ PreselInv => LoadedPreselected
  <2>. SUFFICES ASSUME TypeOK, AlignInv, PreselInv, pc = "dialog", NEW k \in DOMAIN oLib,
                       heap[oLib[k]] \in ToSet(rows), disk[heap[oLib[k]]] # "bad"
                PROVE  heap[oLib[k]] \in presel
    BY DEF LoadedPreselected
  <2>1. k \in 1..Len(mask)
    BY DEF AlignInv, MaskComplete, TypeOK
  <2>2. DictName(k) = RowName(heap[oLib[k]])
    BY DEF DictName, RowName
  <2>. QED  BY <2>1, <2>2 DEF PreselInv
<1>. QED  BY <1>1, <1>2, <1>3, TypeCorrect, Alignment, PTL DEF Spec

-----------------------------------------------------------------------------
(* Looking a word up: the inductive invariant.                             *)

LookupTypeOK ==
    /\ kind \in {"paged", "flat"}
    /\ keys \in Seq(Words) /\ keys # <<>> /\ Sorted(keys)
    /\ kind = "paged" => page \in 0..LastPage
    /\ stage \in {"idle", "pages", "entries", "words", "suggest", "done"}
    /\ stage \in {"pages", "entries"} => kind = "paged"
    /\ stage = "words" => kind = "flat"
    /\ bFound \in BOOLEAN
    /\ stage = "idle" => str = NoWord /\ ~bFound
    /\ stage # "idle" => str \in Words

\* The greatest index that the search under way may look at.
LastProbe ==
    CASE stage = "pages"   -> LastPage
      [] stage = "entries" -> Entries(page) - 1
      [] stage = "words"   -> wordcount - 1

\* What the search has excluded, or found.
BisectInv ==
    stage \in {"pages", "entries", "words"} =>
        /\ Key(0) <= str /\ str <= Key(wordcount - 1)
        /\ bFound => iThisIndex \in 0..LastProbe /\ Probe(iThisIndex) = str
        /\ ~bFound =>
              /\ iFrom \in Nat /\ iTo \in Int /\ iTo <= LastProbe /\ iFrom <= iTo + 1
              /\ \A k \in 0..iFrom - 1 : Probe(k) < str
              /\ \A k \in iTo + 1..LastProbe : Probe(k) > str

\* Inside a page, the word is not beyond it.
PageInv ==
    stage = "entries" =>
        /\ idx = page
        /\ page < LastPage => FirstOnPage(page + 1) > str
        /\ ~bFound => iFrom > 0

\* The word is not there: it would come between k - 1 and k.
Missed(k) == k \in 1..wordcount - 1 /\ Key(k - 1) < str /\ str < Key(k)

\* While a suggestion is looked for, best is what idx_suggest shares with the word, or
\* at first what the entry shares that was in memory at its place.
SuggestInv ==
    stage = "suggest" =>
        /\ ~bFound /\ Missed(idx)
        /\ best \in Nat /\ idx_suggest \in 0..idx
        /\ idx_suggest < idx => /\ Shared(idx_suggest) > 0 /\ best = Shared(idx_suggest)
                                /\ Shared(idx - 1) <= best
                                /\ ~StaleBest => Shared(idx) <= best
        /\ idx_suggest = idx =>
              best = IF StaleBest THEN Shared(idx - ENTR_PER_PAGE) ELSE Shared(idx)
        /\ kind = "paged" => \/ idx_suggest % ENTR_PER_PAGE = 0
                             \/ page = idx_suggest \div ENTR_PER_PAGE

DoneInv ==
    stage = "done" => <<bFound, idx>> \in Outcomes(keys, str) /\ SuggestionPlausible

LookupInv == BisectInv /\ PageInv /\ SuggestInv /\ DoneInv

-----------------------------------------------------------------------------
(* Arithmetic.                                                             *)

LEMMA DivNat ==
    ASSUME NEW a \in Nat, NEW b \in Nat \ {0}
    PROVE  /\ a \div b \in Nat /\ a % b \in 0..b - 1
           /\ (a \div b) * b + (a % b) = a
OBVIOUS

\* Quotients are determined by their bounds.
LEMMA Between ==
    ASSUME NEW b \in Nat \ {0}, NEW q \in Int, NEW c \in Int, q * b < c * b
    PROVE  q < c
OBVIOUS

LEMMA Times ==
    ASSUME NEW b \in Nat \ {0}, NEW q \in Int, NEW c \in Int, q <= c
    PROVE  q * b \in Int /\ c * b \in Int /\ q * b <= c * b
OBVIOUS

LEMMA TimesNext ==
    ASSUME NEW b \in Nat \ {0}, NEW q \in Int
    PROVE  (q + 1) * b = q * b + b /\ q * b \in Int /\ (q \in Nat => q * b \in Nat)
OBVIOUS

LEMMA DivIs ==
    ASSUME NEW a \in Nat, NEW b \in Nat \ {0}, NEW q \in Nat, NEW r \in 0..b - 1,
           a = q * b + r
    PROVE  a \div b = q /\ a % b = r
<1> DEFINE f == a \div b
           g == a % b
<1>1. f \in Nat /\ g \in 0..b - 1 /\ f * b + g = a
  BY DivNat
<1> HIDE DEF f, g
<1>2. (f + 1) * b = f * b + b /\ (q + 1) * b = q * b + b /\ f * b \in Int /\ q * b \in Int
  BY <1>1, TimesNext
<1>3. f * b < (q + 1) * b /\ q * b < (f + 1) * b
  BY <1>1, <1>2
<1>4. f < q + 1 /\ q < f + 1
  BY <1>1, <1>3, Between
<1>5. f = q
  BY <1>1, <1>4
<1>6. g = r
  BY <1>1, <1>2, <1>5
<1>7. QED BY <1>5, <1>6 DEF f, g

LEMMA DivMono ==
    ASSUME NEW a \in Nat, NEW c \in Nat, a <= c, NEW b \in Nat \ {0}
    PROVE  a \div b <= c \div b
<1> DEFINE f == a \div b
           g == a % b
           h == c \div b
           l == c % b
<1>1. f \in Nat /\ g \in 0..b - 1 /\ f * b + g = a /\ h \in Nat /\ l \in 0..b - 1 /\ h * b + l = c
  BY DivNat
<1> HIDE DEF f, g, h, l
<1>2. (h + 1) * b = h * b + b /\ f * b \in Int /\ h * b \in Int
  BY <1>1, TimesNext
<1>3. f * b < (h + 1) * b
  BY <1>1, <1>2
<1>4. f < h + 1
  BY <1>1, <1>3, Between
<1>5. QED BY <1>1, <1>4 DEF f, h

-----------------------------------------------------------------------------
(* Words and pages.                                                        *)

LEMMA KeyFacts ==
    ASSUME LookupTypeOK
    PROVE  /\ wordcount \in Nat \ {0}
           /\ \A k \in 0..wordcount - 1 : Key(k) \in Words /\ Key(k) \in Nat
           /\ \A k, l \in 0..wordcount - 1 : k <= l => Key(k) <= Key(l)
           /\ Words \subseteq Nat
<1>1. Words \subseteq Nat
  BY LetterAssumption DEF Words
<1>2. wordcount \in Nat \ {0}
  BY DEF LookupTypeOK, wordcount
<1>3. ASSUME NEW k \in 0..wordcount - 1
      PROVE  Key(k) \in Words /\ Key(k) \in Nat
  <2>1. keys \in Seq(Words) /\ k + 1 \in 1..Len(keys)
    BY <1>2 DEF LookupTypeOK, wordcount
  <2>2. keys[k + 1] \in Words
    BY <2>1
  <2>3. QED BY <1>1, <2>2 DEF Key, KeyAt
<1>4. ASSUME NEW k \in 0..wordcount - 1, NEW l \in 0..wordcount - 1, k <= l
      PROVE  Key(k) <= Key(l)
  <2>1. CASE k = l
    BY <2>1, <1>3
  <2>2. CASE k < l
    BY <2>2, <1>2 DEF LookupTypeOK, wordcount, Key, KeyAt, Sorted
  <2>3. QED BY <1>4, <2>1, <2>2
<1>5. QED BY <1>1, <1>2, <1>3, <1>4

\* The pages cover the list, and the last one ends where it does.
LEMMA PageFacts ==
    ASSUME LookupTypeOK
    PROVE  /\ LastPage \in Nat
           /\ LastPage * ENTR_PER_PAGE + Entries(LastPage) = wordcount
           /\ Entries(LastPage) \in 1..ENTR_PER_PAGE
           /\ \A p \in 0..LastPage - 1 : Entries(p) = ENTR_PER_PAGE
<1>1. wordcount \in Nat \ {0}
  BY KeyFacts
<1> DEFINE n == wordcount
           b == ENTR_PER_PAGE
           q == n \div b
           r == n % b
<1>2. q \in Nat /\ r \in 0..b - 1 /\ q * b + r = n /\ b \in Nat \ {0}
  BY <1>1, DivNat, PageAssumption
<1>3. LastPage = (n - 1) \div b
  <2>1. (n - 1) \div b \in Nat
    BY <1>1, DivNat, PageAssumption
  <2>2. QED BY <2>1 DEF LastPage, npages
<1>4. CASE r # 0
  <2>1. n - 1 = q * b + (r - 1) /\ r - 1 \in 0..b - 1
    BY <1>1, <1>2, <1>4, TimesNext
  <2>2. (n - 1) \div b = q
    <3>1. n - 1 \in Nat
      BY <1>1
    <3> HIDE DEF n, b, q, r
    <3>2. QED BY <3>1, <2>1, <1>2, DivIs
  <2>3. Entries(LastPage) = r /\ LastPage = q
    BY <2>2, <1>3, <1>4 DEF Entries
  <2>4. QED BY <2>3, <1>2, <1>4, SMTT(30) DEF Entries
<1>5. CASE r = 0
  <2>1. q - 1 \in Nat
    BY <1>1, <1>2, <1>5
  <2>2. (q - 1) * b + b = q * b /\ (q - 1) * b \in Nat
    BY <2>1, <1>2, TimesNext, SMTT(30)
  <2>3. n - 1 = (q - 1) * b + (b - 1) /\ b - 1 \in 0..b - 1
    BY <1>1, <1>2, <1>5, <2>2
  <2>4. (n - 1) \div b = q - 1
    <3>1. n - 1 \in Nat
      BY <1>1
    <3> HIDE DEF n, b, q, r
    <3>2. QED BY <3>1, <2>1, <2>3, <1>2, DivIs
  <2>5. Entries(LastPage) = b /\ LastPage = q - 1
    BY <2>4, <1>3, <1>5 DEF Entries
  <2>6. QED BY <2>5, <2>2, <2>1, <1>1, <1>2, <1>5 DEF Entries
<1>6. QED BY <1>4, <1>5

LEMMA PlaceFacts ==
    ASSUME LookupTypeOK, NEW p \in 0..LastPage
    PROVE  /\ p * ENTR_PER_PAGE \in 0..wordcount - 1
           /\ Entries(p) \in 1..ENTR_PER_PAGE
           /\ \A e \in 0..Entries(p) - 1 : p * ENTR_PER_PAGE + e \in 0..wordcount - 1
           /\ p < LastPage =>
                 /\ (p + 1) * ENTR_PER_PAGE = p * ENTR_PER_PAGE + ENTR_PER_PAGE
                 /\ (p + 1) * ENTR_PER_PAGE \in 0..wordcount - 1
                 /\ Entries(p) = ENTR_PER_PAGE
<1> DEFINE b == ENTR_PER_PAGE
<1>1. /\ b \in Nat \ {0} /\ LastPage \in Nat /\ wordcount \in Nat \ {0}
      /\ LastPage * b + Entries(LastPage) = wordcount
      /\ Entries(LastPage) \in 1..b
      /\ p < LastPage => Entries(p) = b
  BY PageAssumption, PageFacts, KeyFacts
<1>2. p \in Int /\ p * b \in Nat /\ LastPage * b \in Nat /\ (p + 1) * b = p * b + b
  BY <1>1, TimesNext
<1>3. p < LastPage => (p + 1) * b <= LastPage * b
  BY <1>1, <1>2, Times
<1> HIDE DEF b
<1>4. CASE p = LastPage
  BY <1>1, <1>2, <1>4 DEF b
<1>5. CASE p < LastPage
  <2>1. Entries(p) = b /\ p * b + b <= LastPage * b
    BY <1>1, <1>2, <1>3, <1>5
  <2>2. p * b \in 0..wordcount - 1 /\ p * b + b \in 0..wordcount - 1
    BY <1>1, <1>2, <2>1
  <2>3. \A e \in 0..b - 1 : p * b + e \in 0..wordcount - 1
    BY <1>1, <1>2, <2>2
  <2>4. QED BY <1>1, <1>2, <2>1, <2>2, <2>3 DEF b
<1>6. QED BY <1>1, <1>4, <1>5

-----------------------------------------------------------------------------
(* The quality of a suggestion.                                            *)

LEMMA PrefixNat ==
    ASSUME NEW a, NEW b
    PROVE  PrefixMatch(a, b) \in Nat
<1>1. IsFiniteSet(0..LETTERS - 1)
  BY FS_Interval, LetterAssumption
<1>2. IsFiniteSet({d \in 0..LETTERS - 1 :
                     \A e \in d..LETTERS - 1 : SameLetter(Letter(a, e), Letter(b, e))})
  BY <1>1, FS_Subset
<1>3. QED BY <1>2, FS_CardinalityType DEF PrefixMatch

-----------------------------------------------------------------------------
(* The outcomes of a lookup.                                               *)

LEMMA FoundOutcome ==
    ASSUME LookupTypeOK, NEW s, NEW k \in 0..wordcount - 1, Key(k) = s
    PROVE  <<TRUE, k>> \in Outcomes(keys, s)
<1>1. k \in {p \in Positions(keys) : KeyAt(keys, p) = s}
  BY DEF Positions, wordcount, Key
<1>2. QED BY <1>1 DEF Outcomes

LEMMA MissedOutcome ==
    ASSUME LookupTypeOK, NEW s \in Nat, NEW k \in 0..wordcount - 1, s < Key(k),
           k > 0 => Key(k - 1) < s
    PROVE  <<FALSE, k>> \in Outcomes(keys, s)
<1>1. /\ wordcount \in Nat \ {0} /\ Positions(keys) = 0..wordcount - 1
      /\ \A p \in Positions(keys) : KeyAt(keys, p) = Key(p) /\ Key(p) \in Nat
      /\ \A p, q \in Positions(keys) : p <= q => Key(p) <= Key(q)
  BY KeyFacts DEF Positions, wordcount, Key
<1>2. \A p \in 0..k - 1 : Key(p) < s
  <2>1. ASSUME NEW p \in 0..k - 1 PROVE Key(p) < s
    <3>1. k - 1 \in Positions(keys) /\ p \in Positions(keys) /\ p <= k - 1 /\ k > 0
      BY <1>1
    <3>2. QED BY <1>1, <3>1
  <2>2. QED BY <2>1
<1>3. \A p \in k..wordcount - 1 : s < Key(p)
  BY <1>1
<1>4. \A p \in Positions(keys) : KeyAt(keys, p) # s
  BY <1>1, <1>2, <1>3
<1>5. ~ \A p \in Positions(keys) : KeyAt(keys, p) < s
  BY <1>1
<1>6. \A p \in 0..k - 1 : KeyAt(keys, p) < s
  BY <1>1, <1>2
<1>7. QED BY <1>1, <1>4, <1>5, <1>6 DEF Outcomes

LEMMA BeyondOutcome ==
    ASSUME LookupTypeOK, NEW s \in Nat, Key(wordcount - 1) < s
    PROVE  <<FALSE, INVALID_INDEX>> \in Outcomes(keys, s)
<1>1. /\ wordcount \in Nat \ {0} /\ Positions(keys) = 0..wordcount - 1
      /\ \A p \in Positions(keys) : KeyAt(keys, p) = Key(p) /\ Key(p) \in Nat
      /\ \A p \in Positions(keys) : Key(p) <= Key(wordcount - 1)
  BY KeyFacts DEF Positions, wordcount, Key
<1>2. \A p \in Positions(keys) : KeyAt(keys, p) < s
  BY <1>1
<1>3. \A p \in Positions(keys) : KeyAt(keys, p) # s
  BY <1>1, <1>2
<1>4. QED BY <1>2, <1>3 DEF Outcomes

-----------------------------------------------------------------------------
(* The binary searches.                                                    *)

Searching == stage \in {"pages", "entries", "words"}

\* What is searched is sorted, and is part of the list.
LEMMA ProbeFacts ==
    ASSUME LookupTypeOK, Searching
    PROVE  /\ LastProbe \in Nat
           /\ \A k \in 0..LastProbe : Probe(k) \in Nat
           /\ \A k, l \in 0..LastProbe : k <= l => Probe(k) <= Probe(l)
<1>1. /\ wordcount \in Nat \ {0} /\ LastPage \in Nat
      /\ \A k \in 0..wordcount - 1 : Key(k) \in Nat
      /\ \A k, l \in 0..wordcount - 1 : k <= l => Key(k) <= Key(l)
  BY KeyFacts, PageFacts
<1>2. CASE stage = "pages"
  <2>1. LastProbe = LastPage /\ \A k : Probe(k) = Key(k * ENTR_PER_PAGE)
    BY <1>2 DEF LastProbe, Probe, FirstOnPage
  <2>2. \A k \in 0..LastPage : k * ENTR_PER_PAGE \in 0..wordcount - 1
    BY PlaceFacts
  <2>3. ASSUME NEW k \in 0..LastPage, NEW l \in 0..LastPage, k <= l
        PROVE  k * ENTR_PER_PAGE <= l * ENTR_PER_PAGE
    BY <2>3, <1>1, Times, PageAssumption
  <2>4. QED BY <1>1, <2>1, <2>2, <2>3
<1>3. CASE stage = "entries"
  <2>1. LastProbe = Entries(page) - 1 /\ \A k : Probe(k) = Key(page * ENTR_PER_PAGE + k)
    BY <1>3 DEF LastProbe, Probe, Entry
  <2>2. page \in 0..LastPage
    BY <1>3 DEF LookupTypeOK
  <2>3. /\ \A k \in 0..Entries(page) - 1 : page * ENTR_PER_PAGE + k \in 0..wordcount - 1
        /\ Entries(page) \in 1..ENTR_PER_PAGE /\ page * ENTR_PER_PAGE \in Nat
    BY <2>2, PlaceFacts
  <2>4. ASSUME NEW k \in 0..Entries(page) - 1, NEW l \in 0..Entries(page) - 1, k <= l
        PROVE  Key(page * ENTR_PER_PAGE + k) <= Key(page * ENTR_PER_PAGE + l)
    <3> DEFINE a == page * ENTR_PER_PAGE
    <3>1. a + k <= a + l
      BY <2>3, <2>4
    <3>2. QED BY <1>1, <2>3, <3>1
  <2>5. LastProbe \in Nat
    BY <2>1, <2>3, PageAssumption
  <2>6. QED BY <1>1, <2>1, <2>3, <2>4, <2>5
<1>4. CASE stage = "words"
  BY <1>1, <1>4 DEF LastProbe, Probe
<1>5. QED BY <1>2, <1>3, <1>4 DEF Searching

LEMMA SameList ==
    ASSUME keys' = keys
    PROVE  /\ wordcount' = wordcount /\ LastPage' = LastPage
           /\ \A k : Key(k)' = Key(k)
           /\ \A p : Entries(p)' = Entries(p) /\ FirstOnPage(p)' = FirstOnPage(p)
BY DEF wordcount, LastPage, npages, Key, Entries, FirstOnPage

LEMMA Halve ==
    ASSUME NEW a \in Nat, NEW c \in Int, a <= c
    PROVE  (a + c) \div 2 \in a..c
OBVIOUS

LEMMA BisectStep ==
    ASSUME LookupTypeOK, LookupInv, Bisect
    PROVE  LookupTypeOK' /\ LookupInv'
<1> DEFINE m == (iFrom + iTo) \div 2
<1>1. /\ Searching /\ ~bFound /\ iFrom <= iTo
      /\ UNCHANGED <<kind, keys, page, stage, str, idx, idx_suggest, best>>
      /\ iThisIndex' = m
      /\ iFrom' = IF Cmp(str, Probe(m)) > 0 THEN m + 1 ELSE iFrom
      /\ iTo' = IF Cmp(str, Probe(m)) < 0 THEN m - 1 ELSE iTo
      /\ bFound' = (Cmp(str, Probe(m)) = 0)
  BY DEF Bisect, Searching
<1>2. /\ wordcount' = wordcount /\ LastPage' = LastPage
      /\ \A k : Key(k)' = Key(k)
      /\ \A p : Entries(p)' = Entries(p) /\ FirstOnPage(p)' = FirstOnPage(p)
  BY <1>1, SameList
<1>3. LastProbe' = LastProbe /\ \A k : Probe(k)' = Probe(k)
  BY <1>1, <1>2 DEF LastProbe, Probe, Entry
<1>4. /\ LastProbe \in Nat /\ \A k \in 0..LastProbe : Probe(k) \in Nat
      /\ \A k, l \in 0..LastProbe : k <= l => Probe(k) <= Probe(l)
  BY <1>1, ProbeFacts
<1>5. /\ iFrom \in Nat /\ iTo \in Int /\ iTo <= LastProbe
      /\ \A k \in 0..iFrom - 1 : Probe(k) < str
      /\ \A k \in iTo + 1..LastProbe : Probe(k) > str
      /\ str \in Nat
  BY <1>1, KeyFacts DEF LookupInv, BisectInv, Searching, LookupTypeOK
<1>6. m \in iFrom..iTo
  BY <1>1, <1>5, Halve
<1> HIDE DEF m
<1>7. m \in 0..LastProbe /\ Probe(m) \in Nat /\ Cmp(str, Probe(m)) = str - Probe(m)
  BY <1>4, <1>5, <1>6 DEF Cmp
<1>8. /\ Probe(m) = str => bFound' = TRUE
      /\ Probe(m) # str => bFound' = FALSE
  <2> DEFINE c == Cmp(str, Probe(m))
  <2>1. c = str - Probe(m)
    BY <1>7
  <2>2. Probe(m) = str <=> c = 0
    BY <1>5, <1>7, <2>1
  <2>3. bFound' = (c = 0)
    BY <1>1
  <2> HIDE DEF c
  <2>4. QED BY <2>2, <2>3
<1>9. LookupTypeOK'
  BY <1>1, <1>2, <1>8 DEF LookupTypeOK, Searching
<1>10. BisectInv'
  <2>1. Key(0)' <= str' /\ str' <= Key(wordcount - 1)'
    BY <1>1 DEF LookupInv, BisectInv, Searching, Key, wordcount
  <2>2. CASE Probe(m) = str
    <3>1. bFound' /\ Probe(iThisIndex)' = str' /\ iThisIndex' \in 0..LastProbe'
      BY <1>1, <1>3, <1>5, <1>7, <1>8, <2>2
    <3>2. QED BY <2>1, <3>1 DEF BisectInv
  <2>3. CASE Probe(m) < str
    <3>1. ~bFound' /\ iFrom' = m + 1 /\ iTo' = iTo
      BY <1>1, <1>5, <1>7, <1>8, <2>3
    <3>2. \A k \in 0..m : Probe(k) < str
      <4>1. \A k \in 0..m : Probe(k) \in Nat /\ Probe(k) <= Probe(m)
        BY <1>4, <1>7
      <4>2. QED BY <4>1, <1>5, <1>7, <2>3
    <3>3. iFrom' \in Nat /\ iTo' \in Int /\ iTo' <= LastProbe' /\ iFrom' <= iTo' + 1
      BY <1>1, <1>3, <1>5, <1>6, <1>7, <3>1
    <3>4. \A k \in 0..iFrom' - 1 : Probe(k)' < str'
      BY <1>1, <1>3, <3>1, <3>2, <1>7
    <3>5. \A k \in iTo' + 1..LastProbe' : Probe(k)' > str'
      BY <1>1, <1>3, <3>1, <1>5
    <3>6. QED BY <2>1, <3>1, <3>3, <3>4, <3>5 DEF BisectInv
  <2>4. CASE Probe(m) > str
    <3>1. ~bFound' /\ iFrom' = iFrom /\ iTo' = m - 1
      BY <1>1, <1>5, <1>7, <1>8, <2>4
    <3>2. \A k \in m..LastProbe : Probe(k) > str
      <4>1. \A k \in m..LastProbe : Probe(k) \in Nat /\ Probe(m) <= Probe(k)
        BY <1>4, <1>7
      <4>2. QED BY <4>1, <1>5, <1>7, <2>4
    <3>3. iFrom' \in Nat /\ iTo' \in Int /\ iTo' <= LastProbe' /\ iFrom' <= iTo' + 1
      BY <1>1, <1>3, <1>4, <1>5, <1>6, <1>7, <3>1
    <3>4. \A k \in 0..iFrom' - 1 : Probe(k)' < str'
      BY <1>1, <1>3, <3>1, <1>5
    <3>5. \A k \in iTo' + 1..LastProbe' : Probe(k)' > str'
      BY <1>1, <1>3, <3>1, <3>2, <1>7
    <3>6. QED BY <2>1, <3>1, <3>3, <3>4, <3>5 DEF BisectInv
  <2>5. QED BY <1>5, <1>7, <2>2, <2>3, <2>4
<1>11. PageInv'
  <2>1. stage = "entries" => iFrom > 0 /\ idx = page
                          /\ (page < LastPage => FirstOnPage(page + 1) > str)
    BY <1>1 DEF LookupInv, PageInv
  <2>2. stage = "entries" => iFrom' > 0
    BY <1>1, <1>5, <1>6, <2>1
  <2>3. FirstOnPage(page + 1)' = FirstOnPage(page + 1)
    BY <1>1, <1>2 DEF FirstOnPage
  <2>4. QED BY <1>1, <1>2, <2>1, <2>2, <2>3 DEF PageInv
<1>12. SuggestInv' /\ DoneInv'
  BY <1>1 DEF SuggestInv, DoneInv, Searching
<1>13. QED BY <1>9, <1>10, <1>11, <1>12 DEF LookupInv

-----------------------------------------------------------------------------
(* The other steps of a lookup.                                            *)

LEMMA QuotientBound ==
    ASSUME LookupTypeOK, NEW k \in 0..wordcount - 1
    PROVE  k \div ENTR_PER_PAGE \in 0..LastPage
<1>1. wordcount \in Nat \ {0}
  BY KeyFacts
<1> DEFINE q == k \div ENTR_PER_PAGE
           l == (wordcount - 1) \div ENTR_PER_PAGE
<1>2. q \in Nat /\ l \in Nat
  BY <1>1, DivNat, PageAssumption
<1>3. q <= l
  BY <1>1, DivMono, PageAssumption
<1>4. LastPage = l
  BY <1>2 DEF LastPage, npages
<1>5. QED BY <1>2, <1>3, <1>4

LEMMA LookupStep ==
    ASSUME LookupTypeOK, LookupInv, NEW s \in Words, Lookup(s)
    PROVE  LookupTypeOK' /\ LookupInv'
<1>1. stage = "idle" /\ str' = s /\ UNCHANGED <<kind, keys, page, bFound, best>> /\ ~bFound
  BY DEF Lookup, LookupTypeOK
<1>2. /\ wordcount \in Nat \ {0} /\ s \in Nat /\ LastPage \in Nat
      /\ \A k \in 0..wordcount - 1 : Key(k) \in Nat
  BY KeyFacts, PageFacts
<1>3. /\ wordcount' = wordcount /\ LastPage' = LastPage
      /\ \A k : Key(k)' = Key(k)
      /\ \A p : Entries(p)' = Entries(p) /\ FirstOnPage(p)' = FirstOnPage(p)
  BY <1>1, SameList
<1>4. Key(0) \in Nat /\ Key(wordcount - 1) \in Nat
  BY <1>2
<1>5. CASE Cmp(s, Key(0)) < 0
  <2>1. s < Key(0)
    BY <1>2, <1>4, <1>5 DEF Cmp
  <2>2. Key(0) <= Key(wordcount - 1)
    BY <1>2, KeyFacts
  <2>3. idx' = 0 /\ idx_suggest' = 0 /\ stage' = "done"
    BY <1>2, <1>4, <1>5, <2>1, <2>2 DEF Lookup, Cmp
  <2>4. <<FALSE, 0>> \in Outcomes(keys, s)
    <3>1. 0 \in 0..wordcount - 1 /\ (0 > 0 => Key(0 - 1) < s)
      BY <1>2
    <3>2. QED BY <1>2, <2>1, <3>1, MissedOutcome
  <2>5. SuggestionPlausible'
    <3>1. Shared(0)' \in Nat /\ 0 - 1 < 0 /\ ~(0 < 0)
      BY PrefixNat DEF Shared
    <3>2. QED BY <1>1, <1>2, <1>3, <2>3, <3>1 DEF SuggestionPlausible, SuggestionInRange, StaleBest
  <2>6. DoneInv'
    <3>1. bFound' = FALSE
      BY <1>1 DEF LookupTypeOK
    <3>2. QED BY <1>1, <2>3, <2>4, <2>5, <3>1 DEF DoneInv
  <2>7. LookupTypeOK'
    BY <1>1, <1>3, <2>3 DEF LookupTypeOK
  <2>8. QED BY <2>3, <2>6, <2>7 DEF LookupInv, BisectInv, PageInv, SuggestInv
<1>6. CASE Cmp(s, Key(wordcount - 1)) > 0
  <2>1. s > Key(wordcount - 1)
    BY <1>2, <1>4, <1>6 DEF Cmp
  <2>2. Key(0) <= Key(wordcount - 1)
    BY <1>2, KeyFacts
  <2>3. /\ idx' = INVALID_INDEX /\ stage' = "done"
        /\ idx_suggest' = IF kind = "paged" THEN LastPage ELSE wordcount - 1
    BY <1>2, <1>4, <1>6, <2>1, <2>2 DEF Lookup, Cmp
  <2>4. <<FALSE, INVALID_INDEX>> \in Outcomes(keys, s)
    BY <1>2, <2>1, BeyondOutcome
  <2>5. LastPage \in 0..wordcount - 1
    <3> DEFINE l == LastPage
               b == ENTR_PER_PAGE
    <3>1. l * b \in 0..wordcount - 1 /\ l \in Nat /\ b \in Nat \ {0}
      BY <1>2, PlaceFacts, PageAssumption
    <3> HIDE DEF l, b
    <3>2. l <= l * b
      BY <3>1
    <3>3. QED BY <1>2, <3>1, <3>2 DEF l
  <2>6. SuggestionPlausible'
    BY <1>1, <1>2, <1>3, <2>3, <2>5 DEF SuggestionPlausible, SuggestionInRange
  <2>7. DoneInv'
    <3>1. bFound' = FALSE
      BY <1>1 DEF LookupTypeOK
    <3>2. QED BY <1>1, <2>3, <2>4, <2>6, <3>1 DEF DoneInv
  <2>8. LookupTypeOK'
    BY <1>1, <1>3, <2>3 DEF LookupTypeOK
  <2>9. QED BY <2>3, <2>7, <2>8 DEF LookupInv, BisectInv, PageInv, SuggestInv
<1>7. CASE Cmp(s, Key(0)) >= 0 /\ Cmp(s, Key(wordcount - 1)) <= 0
  <2>1. Key(0) <= s /\ s <= Key(wordcount - 1)
    BY <1>2, <1>4, <1>7 DEF Cmp
  <2>2. /\ iFrom' = 0 /\ iThisIndex' = 0
        /\ iTo' = IF kind = "paged" THEN LastPage ELSE wordcount - 1
        /\ stage' = IF kind = "paged" THEN "pages" ELSE "words"
    BY <1>2, <1>4, <1>7, <2>1 DEF Lookup, Cmp
  <2>3. iTo' = LastProbe'
    BY <1>1, <1>3, <2>2 DEF LastProbe
  <2>4. LastProbe' \in Nat
    BY <1>2, <2>2, <2>3
  <2>5. Key(0)' <= str' /\ str' <= Key(wordcount - 1)'
    BY <1>1, <2>1 DEF Key, wordcount
  <2>6. BisectInv'
    BY <1>1, <2>2, <2>3, <2>4, <2>5 DEF BisectInv
  <2>7. LookupTypeOK'
    BY <1>1, <1>3, <2>2 DEF LookupTypeOK
  <2>8. QED BY <2>2, <2>6, <2>7 DEF LookupInv, PageInv, SuggestInv, DoneInv
<1>8. QED
  <2>1. Cmp(s, Key(0)) \in Int /\ Cmp(s, Key(wordcount - 1)) \in Int
    BY <1>2, <1>4 DEF Cmp
  <2>2. QED BY <2>1, <1>5, <1>6, <1>7

\* The word is found: at a page's first entry, inside a page, or in the flat list.
LEMMA FoundStep ==
    ASSUME LookupTypeOK, LookupInv, PageFound \/ EntryFound \/ WordFound
    PROVE  LookupTypeOK' /\ LookupInv'
<1>1. /\ Searching /\ bFound /\ stage' = "done" /\ idx_suggest' = idx'
      /\ UNCHANGED <<kind, keys, page, str, bFound>>
  BY DEF Searching, PageFound, EntryFound, WordFound
<1>2. idx' \in 0..wordcount - 1 /\ Key(idx') = str
  <2>1. iThisIndex \in 0..LastProbe /\ Probe(iThisIndex) = str
    BY <1>1 DEF LookupInv, BisectInv, Searching
  <2>2. CASE PageFound
    <3>1. idx' = iThisIndex * ENTR_PER_PAGE /\ iThisIndex \in 0..LastPage
          /\ Key(iThisIndex * ENTR_PER_PAGE) = str
      BY <2>1, <2>2 DEF PageFound, LastProbe, Probe, FirstOnPage
    <3>2. QED BY <3>1, PlaceFacts
  <2>3. CASE EntryFound
    <3>1. idx' = page * ENTR_PER_PAGE + iThisIndex /\ iThisIndex \in 0..Entries(page) - 1
          /\ Key(page * ENTR_PER_PAGE + iThisIndex) = str
      BY <2>1, <2>3 DEF EntryFound, LastProbe, Probe, Entry, LookupInv, PageInv
    <3>2. page \in 0..LastPage
      BY <2>3 DEF EntryFound, LookupTypeOK
    <3>3. QED BY <3>1, <3>2, PlaceFacts
  <2>4. CASE WordFound
    BY <2>1, <2>4 DEF WordFound, LastProbe, Probe
  <2>5. QED BY <2>2, <2>3, <2>4
<1>3. <<bFound', idx'>> \in Outcomes(keys', str')
  <2>1. bFound' = TRUE
    BY <1>1 DEF LookupTypeOK
  <2>2. <<TRUE, idx'>> \in Outcomes(keys, str)
    BY <1>2, FoundOutcome
  <2>3. QED BY <1>1, <2>1, <2>2
<1>4. wordcount' = wordcount /\ LastPage' = LastPage
  BY <1>1, SameList
<1>5. SuggestionPlausible'
  BY <1>1, <1>2, <1>4 DEF SuggestionPlausible, SuggestionInRange
<1>6. LookupTypeOK'
  BY <1>1, <1>4 DEF LookupTypeOK, Searching
<1>7. QED BY <1>1, <1>3, <1>5, <1>6 DEF LookupInv, BisectInv, PageInv, SuggestInv, DoneInv

\* The search on pages leaves one page in which the word can be.
LEMMA PageMissedStep ==
    ASSUME LookupTypeOK, LookupInv, PageMissed
    PROVE  LookupTypeOK' /\ LookupInv'
<1>1. /\ stage = "pages" /\ ~bFound /\ iFrom > iTo
      /\ idx' = iTo /\ page' = iTo
      /\ iFrom' = 1 /\ iTo' = Entries(iTo) - 1
      /\ stage' = "entries" /\ UNCHANGED <<kind, keys, str, bFound>>
  BY DEF PageMissed
<1>2. /\ LastPage \in Nat /\ wordcount \in Nat \ {0} /\ ENTR_PER_PAGE \in Nat \ {0}
      /\ \A k \in 0..wordcount - 1 : Key(k) \in Nat
      /\ str \in Nat
  BY <1>1, KeyFacts, PageFacts, PageAssumption DEF LookupTypeOK
<1>3. /\ Key(0) <= str /\ str <= Key(wordcount - 1)
      /\ iFrom \in Nat /\ iTo \in Int /\ iTo <= LastPage /\ iFrom = iTo + 1
      /\ \A k \in 0..iFrom - 1 : FirstOnPage(k) < str
      /\ \A k \in iTo + 1..LastPage : FirstOnPage(k) > str
  BY <1>1, <1>2 DEF LookupInv, BisectInv, LastProbe, Probe
<1>4. iTo \in 0..LastPage
  <2>1. SUFFICES ASSUME iTo = -1 PROVE FALSE
    BY <1>2, <1>3
  <2>2. FirstOnPage(0) > str
    BY <1>2, <1>3, <2>1
  <2>3. FirstOnPage(0) = Key(0)
    BY <1>2 DEF FirstOnPage
  <2>4. Key(0) \in Nat
    BY <1>2
  <2>5. QED BY <1>2, <1>3, <2>2, <2>3, <2>4
<1>5. Entries(iTo) \in 1..ENTR_PER_PAGE /\ iTo * ENTR_PER_PAGE \in 0..wordcount - 1
  BY <1>4, PlaceFacts
<1>6. FirstOnPage(iTo) < str /\ (iTo < LastPage => FirstOnPage(iTo + 1) > str)
  BY <1>2, <1>3, <1>4
<1>7. /\ wordcount' = wordcount /\ LastPage' = LastPage
      /\ \A p : Entries(p)' = Entries(p) /\ FirstOnPage(p)' = FirstOnPage(p)
  BY <1>1, SameList
<1>8. LookupTypeOK'
  BY <1>1, <1>4, <1>7 DEF LookupTypeOK
<1>9. BisectInv'
  <2>1. Key(0)' <= str' /\ str' <= Key(wordcount - 1)'
    BY <1>1, <1>3 DEF Key, wordcount
  <2>2. LastProbe' = Entries(iTo) - 1
    BY <1>1, <1>7 DEF LastProbe
  <2>3. Probe(0)' < str'
    <3>1. Probe(0)' = KeyAt(keys, iTo * ENTR_PER_PAGE + 0)
      BY <1>1 DEF Probe, Entry, Key
    <3>2. iTo * ENTR_PER_PAGE + 0 = iTo * ENTR_PER_PAGE
      BY <1>5
    <3>3. QED BY <1>1, <1>6, <3>1, <3>2 DEF FirstOnPage, Key
  <2>4. \A k \in 0..iFrom' - 1 : Probe(k)' < str'
    <3>1. \A k \in 0..iFrom' - 1 : k = 0
      BY <1>1
    <3>2. QED BY <2>3, <3>1
  <2>5. iTo' + 1..LastProbe' = {}
    BY <1>1, <1>2, <1>5, <2>2
  <2>6. iFrom' \in Nat /\ iTo' \in Int /\ iTo' <= LastProbe' /\ iFrom' <= iTo' + 1
    BY <1>1, <1>2, <1>5, <2>2
  <2>7. QED BY <1>1, <2>1, <2>4, <2>5, <2>6 DEF BisectInv
<1>10. PageInv'
  <2>1. page' < LastPage' => FirstOnPage(page + 1)' > str'
    BY <1>1, <1>6, <1>7 DEF FirstOnPage, Key
  <2>2. QED BY <1>1, <2>1 DEF PageInv
<1>11. QED BY <1>1, <1>8, <1>9, <1>10 DEF LookupInv, SuggestInv, DoneInv

\* What is common to the two ways a search ends without the word.
LEMMA MissStarts ==
    ASSUME LookupTypeOK, LookupTypeOK', NEW k, stage # "idle", Missed(k), stage' = "suggest", ~bFound,
           idx' = k, idx_suggest' = k, UNCHANGED <<kind, keys, str, bFound>>,
           best' = PrefixMatch(str, IF kind = "paged" /\ k % ENTR_PER_PAGE = 0
                                    THEN Key(k - ENTR_PER_PAGE) ELSE Key(k)),
           kind = "paged" => \/ k % ENTR_PER_PAGE = 0
                             \/ page' = k \div ENTR_PER_PAGE
    PROVE  LookupInv'
<1>1. k \in 1..wordcount - 1 /\ Key(k - 1) < str /\ str < Key(k) /\ wordcount \in Nat \ {0}
  BY KeyFacts DEF Missed
<1>2. wordcount' = wordcount /\ Key(k)' = KeyAt(keys, k) /\ Key(k - 1)' = KeyAt(keys, k - 1)
  BY DEF wordcount, Key
<1>3. Missed(idx)'
  BY <1>1 DEF Missed, Key, wordcount
<1>4. idx_suggest' \in 0..idx'
  BY <1>1
<1>5. /\ ~(idx_suggest' < idx')
      /\ best' = IF StaleBest' THEN Shared(idx - ENTR_PER_PAGE)' ELSE Shared(idx)'
  BY <1>1 DEF Key, Shared, StaleBest
<1>6. best' \in Nat
  BY PrefixNat
<1>7. SuggestInv'
  BY <1>3, <1>4, <1>5, <1>6 DEF SuggestInv
<1>8. QED BY <1>7 DEF LookupInv, BisectInv, PageInv, DoneInv

LEMMA EntryMissedStep ==
    ASSUME LookupTypeOK, LookupInv, EntryMissed
    PROVE  LookupTypeOK' /\ LookupInv'
<1> DEFINE b == ENTR_PER_PAGE
           k == page * b + iFrom
<1>1. /\ stage = "entries" /\ ~bFound /\ iFrom > iTo
      /\ idx' = idx * b + iFrom /\ idx_suggest' = idx'
      /\ best' = PrefixMatch(str, Entry(idx' % b))
      /\ stage' = "suggest" /\ UNCHANGED <<kind, keys, page, str, bFound>>
  BY DEF EntryMissed
<1>2. /\ LastPage \in Nat /\ wordcount \in Nat \ {0} /\ b \in Nat \ {0}
      /\ \A l \in 0..wordcount - 1 : Key(l) \in Nat
      /\ \A l, m \in 0..wordcount - 1 : l <= m => Key(l) <= Key(m)
      /\ str \in Nat
  BY <1>1, KeyFacts, PageFacts, PageAssumption DEF LookupTypeOK
<1>3. /\ page \in 0..LastPage /\ idx = page /\ idx' = k
      /\ page < LastPage => FirstOnPage(page + 1) > str
  BY <1>1 DEF LookupTypeOK, LookupInv, PageInv
<1>4. /\ str <= Key(wordcount - 1)
      /\ iFrom \in Nat /\ iFrom > 0 /\ iTo \in Int /\ iFrom = iTo + 1 /\ iTo <= Entries(page) - 1
      /\ \A e \in 0..iFrom - 1 : Key(page * b + e) < str
      /\ \A e \in iTo + 1..Entries(page) - 1 : Key(page * b + e) > str
  <2>1. LastProbe = Entries(page) - 1 /\ \A e : Probe(e) = Key(page * b + e)
    BY <1>1 DEF LastProbe, Probe, Entry
  <2>2. QED BY <1>1, <1>2, <2>1 DEF LookupInv, BisectInv, PageInv
<1>5. /\ page * b \in 0..wordcount - 1 /\ Entries(page) \in 1..b
      /\ \A e \in 0..Entries(page) - 1 : page * b + e \in 0..wordcount - 1
      /\ page < LastPage => /\ (page + 1) * b = page * b + b
                            /\ (page + 1) * b \in 0..wordcount - 1
                            /\ Entries(page) = b
      /\ page = LastPage => page * b + Entries(page) = wordcount
  BY <1>3, PlaceFacts, PageFacts
<1>6. iFrom \in 1..Entries(page) /\ Key(k - 1) < str /\ k - 1 \in 0..wordcount - 1
  <2>1. iFrom \in 1..Entries(page) /\ iFrom - 1 \in 0..Entries(page) - 1
    BY <1>4, <1>5
  <2>2. k - 1 = page * b + (iFrom - 1)
    BY <1>2, <1>3, <1>4, <1>5
  <2>3. Key(page * b + (iFrom - 1)) < str
    BY <1>4
  <2>4. QED BY <1>5, <2>1, <2>2, <2>3
<1>7. LookupTypeOK'
  BY <1>1 DEF LookupTypeOK, LastPage, npages, wordcount
<1>8. CASE iFrom < Entries(page)
  <2>1. k \in 0..wordcount - 1 /\ Key(k) > str
    BY <1>2, <1>4, <1>5, <1>6, <1>8
  <2>2. Missed(k)
    BY <1>2, <1>5, <1>6, <2>1 DEF Missed
  <2>3. page \in Nat /\ iFrom \in 0..b - 1 /\ k \in Nat
    BY <1>2, <1>3, <1>5, <1>6, <1>8, <2>1
  <2>4. k \div b = page /\ k % b = iFrom
    BY <1>2, <2>3, DivIs
  <2>5. best' = PrefixMatch(str, Key(k)) /\ k % b # 0
    BY <1>1, <1>3, <1>6, <2>4 DEF Entry
  <2> HIDE DEF k
  <2>6. QED BY <1>1, <1>3, <1>7, <2>2, <2>4, <2>5, MissStarts
<1>9. CASE iFrom = Entries(page)
  <2>1. page < LastPage
    <3>1. SUFFICES ASSUME page = LastPage PROVE FALSE
      BY <1>2, <1>3
    <3>2. k = wordcount
      BY <1>5, <1>9, <3>1
    <3>3. QED BY <1>2, <1>4, <1>6, <3>2
  <2>2. k = (page + 1) * b /\ k = page * b + b /\ k \in 0..wordcount - 1
    BY <1>5, <1>9, <2>1
  <2>3. Key(k) > str
    BY <1>3, <2>1, <2>2 DEF FirstOnPage
  <2>4. Missed(k)
    BY <1>2, <1>5, <1>6, <2>2, <2>3 DEF Missed
  <2>5. k % b = 0
    <3>1. page + 1 \in Nat /\ 0 \in 0..b - 1 /\ k \in Nat /\ k = (page + 1) * b + 0
      BY <1>2, <1>3, <2>2
    <3> HIDE DEF k, b
    <3>2. QED BY <1>2, <3>1, DivIs
  <2>6. best' = PrefixMatch(str, Key(k - b))
    <3>1. k - b = page * b + 0
      BY <1>2, <1>5, <2>2
    <3>2. QED BY <1>1, <1>3, <2>5, <3>1 DEF Entry
  <2>7. kind = "paged"
    BY <1>1 DEF LookupTypeOK
  <2> HIDE DEF k
  <2>8. QED BY <1>1, <1>3, <1>7, <2>4, <2>5, <2>6, <2>7, MissStarts
<1>10. QED BY <1>5, <1>6, <1>8, <1>9

LEMMA WordMissedStep ==
    ASSUME LookupTypeOK, LookupInv, WordMissed
    PROVE  LookupTypeOK' /\ LookupInv'
<1>1. /\ stage = "words" /\ kind = "flat" /\ ~bFound /\ iFrom > iTo
      /\ idx' = iFrom /\ idx_suggest' = iFrom /\ best' = PrefixMatch(str, Key(iFrom))
      /\ stage' = "suggest" /\ UNCHANGED <<kind, keys, page, str, bFound>>
  BY DEF WordMissed, LookupTypeOK
<1>2. /\ wordcount \in Nat \ {0} /\ str \in Nat
      /\ \A l \in 0..wordcount - 1 : Key(l) \in Nat
  BY <1>1, KeyFacts DEF LookupTypeOK
<1>3. /\ Key(0) <= str /\ str <= Key(wordcount - 1)
      /\ iFrom \in Nat /\ iTo \in Int /\ iFrom = iTo + 1 /\ iTo <= wordcount - 1
      /\ \A k \in 0..iFrom - 1 : Key(k) < str
      /\ \A k \in iTo + 1..wordcount - 1 : Key(k) > str
  BY <1>1, <1>2 DEF LookupInv, BisectInv, LastProbe, Probe
<1>4. iFrom # 0
  <2>1. SUFFICES ASSUME iFrom = 0 PROVE FALSE
    OBVIOUS
  <2>2. Key(0) > str /\ Key(0) \in Nat
    BY <1>2, <1>3, <2>1
  <2>3. QED BY <1>2, <1>3, <2>2
<1>5. iFrom # wordcount
  <2>1. SUFFICES ASSUME iFrom = wordcount PROVE FALSE
    OBVIOUS
  <2>2. Key(wordcount - 1) < str /\ Key(wordcount - 1) \in Nat
    BY <1>2, <1>3, <2>1
  <2>3. QED BY <1>2, <1>3, <2>2
<1>6. Missed(iFrom)
  BY <1>2, <1>3, <1>4, <1>5 DEF Missed
<1>7. LookupTypeOK'
  BY <1>1 DEF LookupTypeOK, LastPage, npages, wordcount
<1>8. QED BY <1>1, <1>6, <1>7, MissStarts

LEMMA DivBefore ==
    ASSUME NEW k \in Nat, NEW b \in Nat \ {0}, NEW q \in Nat, NEW r \in 0..b - 1,
           q * b + r = k + 1, r # 0
    PROVE  k \div b = q
<1>1. q * b \in Nat
  BY TimesNext
<1>2. r - 1 \in 0..b - 1 /\ k = q * b + (r - 1)
  BY <1>1
<1>3. QED BY <1>2, DivIs

\* The walk back reads the word before the one suggested so far, whichever page it
\* is on.
LEMMA BackRead ==
    ASSUME LookupTypeOK, NEW k \in 0..wordcount - 2, kind = "paged",
           (k + 1) % ENTR_PER_PAGE = 0 \/ page = (k + 1) \div ENTR_PER_PAGE,
           page' = IF (k + 1) % ENTR_PER_PAGE = 0 THEN k \div ENTR_PER_PAGE ELSE page
    PROVE  page' = k \div ENTR_PER_PAGE /\ page' * ENTR_PER_PAGE + (k % ENTR_PER_PAGE) = k
<1> DEFINE b == ENTR_PER_PAGE
           q == (k + 1) \div b
           r == (k + 1) % b
<1>1. b \in Nat \ {0} /\ k \in Nat /\ k + 1 \in Nat
  BY PageAssumption, KeyFacts
<1>2. q \in Nat /\ r \in 0..b - 1 /\ q * b + r = k + 1 /\ q * b \in Nat
  <2>1. q \in Nat /\ r \in 0..b - 1 /\ q * b + r = k + 1
    BY <1>1, DivNat
  <2> HIDE DEF q, r
  <2>2. q * b \in Nat
    BY <1>1, <2>1, TimesNext
  <2>3. QED BY <2>1, <2>2
<1>3. page' = k \div b
  <2>1. CASE r = 0
    BY <2>1
  <2>2. CASE r # 0
    <3>1. page' = q
      BY <2>2
    <3>2. k \div b = q
      <4> HIDE DEF b, q, r
      <4>1. QED BY <1>1, <1>2, <2>2, DivBefore, Zenon
    <3>3. QED BY <3>1, <3>2
  <2>3. QED BY <2>1, <2>2
<1>4. (k \div b) * b + (k % b) = k
  BY <1>1, DivNat
<1>5. QED BY <1>3, <1>4

LEMMA SuggestStep ==
    ASSUME LookupTypeOK, LookupInv, Suggest
    PROVE  LookupTypeOK' /\ LookupInv'
<1> DEFINE b == ENTR_PER_PAGE
           j == idx_suggest - 1
<1>1. /\ stage = "suggest" /\ iTo' = j
      /\ page' = IF kind = "paged" /\ j >= 0 /\ idx_suggest % b = 0
                 THEN j \div b ELSE page
      /\ UNCHANGED <<kind, keys, str, bFound, idx>>
  BY DEF Suggest
<1>2. /\ wordcount \in Nat \ {0} /\ str \in Nat /\ b \in Nat \ {0}
      /\ \A l \in 0..wordcount - 1 : Key(l) \in Nat
  BY <1>1, KeyFacts, PageAssumption DEF LookupTypeOK
<1>3. /\ ~bFound /\ Missed(idx) /\ idx_suggest \in 0..idx /\ best \in Nat
      /\ idx_suggest < idx => /\ Shared(idx_suggest) > 0 /\ best = Shared(idx_suggest)
                              /\ Shared(idx - 1) <= best
                              /\ ~StaleBest => Shared(idx) <= best
      /\ idx_suggest = idx =>
            best = IF StaleBest THEN Shared(idx - b) ELSE Shared(idx)
      /\ kind = "paged" => idx_suggest % b = 0 \/ page = idx_suggest \div b
  BY <1>1 DEF LookupInv, SuggestInv
<1>4. /\ idx \in 1..wordcount - 1 /\ idx_suggest \in 0..wordcount - 1
      /\ Key(idx - 1) < str /\ str < Key(idx)
  BY <1>2, <1>3 DEF Missed
<1>5. /\ wordcount' = wordcount /\ LastPage' = LastPage
      /\ \A k : Key(k)' = Key(k)
      /\ \A k : PrefixMatch(str', Key(k)') = Shared(k)
      /\ StaleBest' = StaleBest
  BY <1>1, SameList DEF Shared, StaleBest
<1>6. /\ j \in Int /\ (j >= 0 => j \in 0..wordcount - 2 /\ j + 1 = idx_suggest)
      /\ (j >= 0 => j \in 0..wordcount - 1) /\ (j < 0 => idx_suggest = 0)
  BY <1>2, <1>4
<1>7. j >= 0 => page' = IF kind = "paged" THEN j \div b ELSE page
  <2>1. SUFFICES ASSUME j >= 0, kind = "paged" PROVE page' = j \div b
    BY <1>1
  <2>2. (j + 1) % b = 0 \/ page = (j + 1) \div b
    BY <1>3, <1>6, <2>1
  <2>3. page' = IF (j + 1) % b = 0 THEN j \div b ELSE page
    BY <1>1, <1>6, <2>1
  <2> HIDE DEF j
  <2>4. QED BY <1>6, <2>1, <2>2, <2>3, BackRead
<1>8. j >= 0 /\ kind = "paged" => page' * b + (j % b) = j
  <2>1. SUFFICES ASSUME j >= 0, kind = "paged" PROVE page' * b + (j % b) = j
    OBVIOUS
  <2>2. j \in Nat
    BY <1>6, <2>1
  <2> HIDE DEF j
  <2>3. (j \div b) * b + (j % b) = j
    BY <1>2, <2>2, DivNat
  <2>4. QED BY <1>7, <2>1, <2>3
<1>9. kind = "paged" => page' \in 0..LastPage'
  <2>1. j >= 0 => j \div b \in 0..LastPage
    BY <1>6, QuotientBound
  <2>2. kind = "paged" => page \in 0..LastPage
    BY DEF LookupTypeOK
  <2>3. j < 0 => page' = page
    BY <1>1, <1>6
  <2>4. QED BY <1>5, <1>6, <1>7, <2>1, <2>2, <2>3
<1> DEFINE back == PrefixMatch(str, Key(j))
<1>10. back \in Nat
  BY PrefixNat
<1>11. \/ j < 0 /\ stage' = "done" /\ UNCHANGED <<best, idx_suggest>>
       \/ /\ j >= 0 /\ (back = 0 \/ back < best)
          /\ stage' = "done" /\ UNCHANGED <<best, idx_suggest>>
       \/ /\ j >= 0 /\ back # 0 /\ ~(back < best)
          /\ best' = back /\ idx_suggest' = j /\ stage' = stage
  <2> DEFINE read == IF kind = "paged"
                     THEN PrefixMatch(str, Key(page' * b + (iTo' % b)))
                     ELSE PrefixMatch(str, Key(iTo'))
  <2>1. j >= 0 => read = back
    <3>1. j >= 0 /\ kind = "paged" => page' * b + (iTo' % b) = j
      BY <1>1, <1>8
    <3> HIDE DEF j
    <3>2. QED BY <1>1, <3>1
  <2>2. IF iTo' < 0 \/ read = 0 \/ read < best
        THEN stage' = "done" /\ UNCHANGED <<best, idx_suggest>>
        ELSE best' = read /\ idx_suggest' = iTo' /\ UNCHANGED stage
    BY DEF Suggest
  <2> HIDE DEF read, back
  <2>3. iTo' = j /\ (j < 0 \/ j >= 0)
    BY <1>1, <1>6
  <2> HIDE DEF j
  <2>4. QED BY <1>6, <2>1, <2>2, <2>3
<1>12. CASE stage' = "done" /\ UNCHANGED <<best, idx_suggest>>
            /\ (j < 0 \/ back = 0 \/ back < best)
  <2>1. <<bFound', idx'>> \in Outcomes(keys', str')
    <3>1. bFound' = FALSE
      BY <1>1, <1>3 DEF LookupTypeOK
    <3>2. idx \in 0..wordcount - 1 /\ (idx > 0 => Key(idx - 1) < str)
      BY <1>2, <1>4
    <3>3. <<FALSE, idx>> \in Outcomes(keys, str)
      BY <1>2, <1>4, <3>2, MissedOutcome
    <3>4. QED BY <1>1, <3>1, <3>3
  <2>2. /\ idx_suggest < idx => Shared(idx_suggest) > 0
        /\ ~StaleBest => Shared(idx - 1) <= Shared(idx_suggest) /\ Shared(idx) <= Shared(idx_suggest)
        /\ StaleBest /\ Shared(idx - b) <= Shared(idx - 1) => Shared(idx - 1) <= Shared(idx_suggest)
    <3>1. CASE idx_suggest < idx
      BY <1>3, <3>1
    <3>2. CASE idx_suggest = idx
      <4>1. j >= 0 /\ back = Shared(idx - 1)
        BY <1>2, <1>4, <3>2 DEF Shared
      <4>2. Shared(idx) \in Nat /\ Shared(idx - b) \in Nat
        BY PrefixNat DEF Shared
      <4>3. best = IF StaleBest THEN Shared(idx - b) ELSE Shared(idx)
        BY <1>3, <3>2
      <4> HIDE DEF back, j
      <4>4. QED BY <1>6, <1>10, <1>12, <3>2, <4>1, <4>2, <4>3
    <3>3. QED BY <1>2, <1>3, <1>4, <3>1, <3>2
  <2>3. SuggestionPlausible'
    <3>1. idx_suggest' \in 0..wordcount' - 1
      BY <1>4, <1>5, <1>12
    <3>2. idx_suggest' <= idx' /\ idx' = idx /\ idx_suggest' = idx_suggest
      BY <1>1, <1>3, <1>4, <1>12
    <3>3. /\ Shared(idx)' = Shared(idx) /\ Shared(idx - 1)' = Shared(idx - 1)
          /\ Shared(idx_suggest)' = Shared(idx_suggest) /\ Shared(idx - b)' = Shared(idx - b)
      BY <1>1, <1>12 DEF Shared, Key
    <3>4. /\ idx_suggest' < idx' => Shared(idx_suggest)' > 0
          /\ ~StaleBest' => \A k \in {idx' - 1, idx'} : k >= 0 => Shared(k)' <= Shared(idx_suggest)'
          /\ StaleBest' /\ Shared(idx - b)' <= Shared(idx - 1)' =>
                Shared(idx - 1)' <= Shared(idx_suggest)'
      <4>1. ASSUME ~StaleBest', NEW k \in {idx' - 1, idx'} PROVE Shared(k)' <= Shared(idx_suggest)'
        <5>1. Shared(k)' = Shared(k) /\ k \in {idx - 1, idx}
          BY <1>1, <3>2 DEF Shared, Key
        <5>2. QED BY <1>5, <2>2, <3>3, <4>1, <5>1
      <4>2. QED BY <1>5, <2>2, <3>2, <3>3, <4>1
    <3>5. QED BY <3>1, <3>2, <3>4 DEF SuggestionPlausible, SuggestionInRange
  <2>4. LookupTypeOK'
    BY <1>1, <1>9, <1>12 DEF LookupTypeOK
  <2>5. QED BY <1>12, <2>1, <2>3, <2>4 DEF LookupInv, BisectInv, PageInv, SuggestInv, DoneInv
<1>13. CASE /\ j >= 0 /\ back # 0
            /\ best' = back /\ idx_suggest' = j /\ stage' = stage
  <2>1. idx_suggest' \in 0..idx' /\ idx_suggest' < idx'
    BY <1>1, <1>2, <1>3, <1>4, <1>13
  <2>2. /\ Shared(idx_suggest)' > 0 /\ best' = Shared(idx_suggest)'
        /\ Shared(idx - 1)' <= best'
        /\ ~StaleBest' => Shared(idx)' <= best'
    <3>1. Shared(idx_suggest)' = back /\ best' = back /\ back > 0
      BY <1>1, <1>10, <1>13 DEF Shared, Key
    <3>2. Shared(idx)' = Shared(idx) /\ Shared(idx - 1)' = Shared(idx - 1)
      BY <1>1 DEF Shared, Key
    <3>3. ~(back < best) /\ best \in Nat
      BY <1>3, <1>11, <1>13, <2>1
    <3>4. idx_suggest = idx => back = Shared(idx - 1)
      BY DEF Shared
    <3>5. Shared(idx) \in Nat /\ Shared(idx - 1) \in Nat
      BY PrefixNat DEF Shared
    <3>6. idx_suggest < idx \/ idx_suggest = idx
      BY <1>3, <1>4
    <3> HIDE DEF back, j
    <3>7. Shared(idx - 1) <= back /\ (~StaleBest => Shared(idx) <= back)
      BY <1>3, <1>10, <3>3, <3>4, <3>5, <3>6
    <3>8. QED BY <1>5, <3>1, <3>2, <3>7
  <2>3. kind' = "paged" => page' = idx_suggest' \div b
    BY <1>1, <1>7, <1>13
  <2>4. Missed(idx)'
    BY <1>1, <1>4 DEF Missed, Key, wordcount
  <2>5. SuggestInv'
    BY <1>1, <1>3, <1>10, <1>13, <2>1, <2>2, <2>3, <2>4 DEF SuggestInv
  <2>6. LookupTypeOK'
    BY <1>1, <1>9, <1>13 DEF LookupTypeOK
  <2>7. QED BY <1>1, <1>13, <2>5, <2>6 DEF LookupInv, BisectInv, PageInv, DoneInv
<1>14. QED BY <1>11, <1>12, <1>13

LEMMA RestStep ==
    ASSUME LookupTypeOK, LookupInv,
           Return \/ (\E k \in 0..wordcount - 1 : GetKey(k)) \/ UNCHANGED lookupVars
    PROVE  LookupTypeOK' /\ LookupInv'
<1>1. CASE Return
  <2>1. LookupTypeOK'
    BY <1>1 DEF Return, LookupTypeOK, LastPage, npages, wordcount
  <2>2. QED BY <1>1, <2>1 DEF Return, LookupInv, BisectInv, PageInv, SuggestInv, DoneInv
<1>2. ASSUME NEW k \in 0..wordcount - 1, GetKey(k) PROVE LookupTypeOK' /\ LookupInv'
  <2>1. page' \in 0..LastPage'
    BY <1>2, QuotientBound DEF GetKey, LastPage, npages, wordcount
  <2>2. LookupTypeOK'
    BY <1>2, <2>1 DEF GetKey, result, LookupTypeOK
  <2>3. QED BY <1>2, <2>2 DEF GetKey, LookupInv, BisectInv, PageInv, SuggestInv, DoneInv
<1>3. CASE UNCHANGED lookupVars
  <2>1. /\ UNCHANGED <<kind, keys, page, stage, str, iFrom, iTo, iThisIndex, bFound, idx,
                       idx_suggest, best>>
    BY <1>3 DEF lookupVars
  <2>2. LookupTypeOK'
    BY <2>1 DEF LookupTypeOK, LastPage, npages, wordcount
  <2>3. BisectInv' /\ PageInv'
    BY <2>1 DEF LookupInv, BisectInv, PageInv, LastProbe, Probe, FirstOnPage, Entry, Key,
                Entries, LastPage, npages, wordcount
  <2>4. SuggestInv'
    BY <2>1 DEF LookupInv, SuggestInv, Missed, Key, wordcount, Shared, StaleBest
  <2>5. DoneInv'
    BY <2>1 DEF LookupInv, DoneInv, SuggestionPlausible, SuggestionInRange, Key, wordcount,
                Shared, StaleBest
  <2>6. QED BY <2>2, <2>3, <2>4, <2>5 DEF LookupInv
<1>4. QED BY <1>1, <1>2, <1>3

LEMMA InvInit == LookupInit => LookupTypeOK /\ LookupInv
<1> SUFFICES ASSUME LookupInit PROVE LookupTypeOK /\ LookupInv
  OBVIOUS
<1>1. keys \in Seq(Words) /\ keys # <<>> /\ Sorted(keys)
  <2>1. PICK m \in 1..MaxCount : keys \in [1..m -> Words]
    BY DEF LookupInit, SortedLists
  <2>2. keys \in Seq(Words) /\ Len(keys) = m
    BY <2>1, MaxCountAssumption
  <2>3. QED BY <2>1, <2>2, MaxCountAssumption DEF LookupInit, SortedLists
<1>2. LastPage \in Nat
  <2>1. wordcount \in Nat \ {0}
    BY <1>1 DEF wordcount
  <2>2. (wordcount - 1) \div ENTR_PER_PAGE \in Nat
    BY <2>1, DivNat, PageAssumption
  <2>3. QED BY <2>2 DEF LastPage, npages
<1>3. LookupTypeOK
  <2>1. kind \in {"paged", "flat"} /\ stage = "idle" /\ str = NoWord /\ bFound = FALSE
    BY DEF LookupInit, Clear
  <2>2. kind = "paged" => page \in 0..LastPage
    BY <1>2 DEF LookupInit
  <2>3. QED BY <1>1, <2>1, <2>2 DEF LookupTypeOK
<1>4. QED BY <1>3 DEF LookupInit, LookupInv, BisectInv, PageInv, SuggestInv, DoneInv

LEMMA InvStep == LookupTypeOK /\ LookupInv /\ [LookupNext]_lookupVars => LookupTypeOK' /\ LookupInv'
<1> SUFFICES ASSUME LookupTypeOK, LookupInv, [LookupNext]_lookupVars PROVE LookupTypeOK' /\ LookupInv'
  OBVIOUS
<1>1. CASE Step
  BY <1>1, BisectStep, FoundStep, PageMissedStep, EntryMissedStep, WordMissedStep, SuggestStep
  DEF Step
<1>2. CASE \E s \in Words : Lookup(s)
  BY <1>2, LookupStep
<1>3. CASE Return \/ (\E k \in 0..wordcount - 1 : GetKey(k)) \/ UNCHANGED lookupVars
  BY <1>3, RestStep
<1>4. QED BY <1>1, <1>2, <1>3 DEF LookupNext

\* The types, and what the searches have excluded at each of their steps.
THEOREM SearchesCorrect == LookupSpec => [](LookupTypeOK /\ LookupInv)
<1>1. QED BY InvInit, InvStep, PTL DEF LookupSpec

\* Whatever the list, the page size and the letters that differ in case only, the word
\* offered for one that is not there is in the list, is not beyond its place, and
\* shares as many letters with it as its neighbours, up to what a stale page hides.
THEOREM SuggestionsCorrect == LookupSpec => []SuggestionPlausible
<1>1. LookupTypeOK /\ LookupInv => SuggestionPlausible
  BY DEF LookupInv, DoneInv, SuggestionPlausible, SuggestionInRange
<1>2. QED BY <1>1, SearchesCorrect, PTL

-----------------------------------------------------------------------------
(* The searches implement IndexSpec: the safety part of Implements.        *)

\* IndexSpec's operators are those of the same names.
LEMMA SameOutcomes ==
    ASSUME NEW ks, NEW s
    PROVE  Abstract!Outcomes(ks, s) = Outcomes(ks, s) /\ (Abstract!Sorted(ks) <=> Sorted(ks))
BY DEF Abstract!Outcomes, Outcomes, Abstract!Positions, Positions, Abstract!KeyAt, KeyAt,
       Abstract!INVALID_INDEX, INVALID_INDEX, Abstract!Sorted, Sorted

LEMMA AbstractStep ==
    LookupTypeOK /\ LookupInv /\ LookupTypeOK' /\ LookupInv' /\ [LookupNext]_lookupVars => [Abstract!Next]_Abstract!vars
<1> SUFFICES ASSUME LookupTypeOK, LookupInv, LookupTypeOK', LookupInv', [LookupNext]_lookupVars
             PROVE  [Abstract!Next]_Abstract!vars
  OBVIOUS
<1> DEFINE answer == IF stage = "done" THEN <<bFound, idx>> ELSE <<>>
<1>1. CASE \E s \in Words : Lookup(s)
  <2>1. PICK s \in Words : Lookup(s)
    BY <1>1
  <2>2. str = NoWord /\ str' = s /\ keys' = keys /\ stage' # "idle"
    BY <2>1 DEF Lookup, LookupTypeOK
  <2>3. answer' \in {<<>>} \cup Outcomes(keys, str')
    BY <2>2 DEF LookupInv, DoneInv
  <2>4. QED BY <2>2, <2>3, SameOutcomes DEF Abstract!Next, Abstract!Ask
<1>2. CASE Step
  <2>1. UNCHANGED <<keys, str>> /\ stage \notin {"idle", "done"} /\ stage' # "idle"
    BY <1>2 DEF Step, Bisect, PageFound, PageMissed, EntryFound, EntryMissed,
                WordFound, WordMissed, Suggest
  <2>2. str # NoWord /\ answer = <<>>
    BY <2>1, LetterAssumption DEF LookupTypeOK, Words, NoWord
  <2>3. CASE stage' = "done"
    <3>1. answer' \in Outcomes(keys, str)
      BY <2>1, <2>3 DEF LookupInv, DoneInv
    <3>2. QED BY <2>1, <2>2, <3>1, SameOutcomes DEF Abstract!Next, Abstract!Reply
  <2>4. CASE stage' # "done"
    BY <2>1, <2>2, <2>4 DEF Abstract!vars
  <2>5. QED BY <2>3, <2>4
<1>3. CASE Return
  <2>1. /\ stage = "done" /\ stage' = "idle" /\ str' = NoWord /\ keys' = keys
    BY <1>3 DEF Return
  <2>2. answer = <<bFound, idx>> /\ answer # <<>> /\ answer' = <<>>
    BY <2>1
  <2>3. QED BY <2>1, <2>2 DEF Abstract!Next, Abstract!Return
<1>4. CASE (\E k \in 0..wordcount - 1 : GetKey(k)) \/ UNCHANGED lookupVars
  BY <1>4 DEF GetKey, lookupVars, result, Abstract!vars
<1>5. QED BY <1>1, <1>2, <1>3, <1>4 DEF LookupNext

\* Searching page by page or all at once, in any list and with pages of any size,
\* gives no answer that the simple specification of a lookup does not allow.
THEOREM RefinesSafely == LookupSpec => Abstract!Init /\ [][Abstract!Next]_Abstract!vars
<1>1. LookupInit => Abstract!Init
  <2>1. LookupInit => keys \in Seq(Words) /\ keys # <<>> /\ Sorted(keys)
    BY InvInit DEF LookupTypeOK
  <2>2. QED BY <2>1, SameOutcomes DEF LookupInit, Abstract!Init
<1>2. QED BY <1>1, AbstractStep, SearchesCorrect, PTL DEF LookupSpec
=============================================================================
