--------------------------------- MODULE WValue ---------------------------------
(***************************************************************************)
(* webview_value.cc: the values that carry the arguments, the answers and  *)
(* the events of the embedded browser between the common code and the      *)
(* method channel.  They live on the heap and count their references by    *)
(* hand: a list or a map holds one of each of its entries, and whoever     *)
(* made a value or took a reference to it holds one until it gives it up.  *)
(*                                                                         *)
(* What a scalar holds (a number, a string, a packed array) is a model     *)
(* value.  The callers (webview_plugin.cc, webview_cef_plugin.cc) make and *)
(* mix values in any order, give up no more than they hold and put no      *)
(* value into itself.  They need not give up all of it: the fresh numbers  *)
(* that create and toWValue append to a list stay held for good.           *)
(***************************************************************************)
EXTENDS Naturals, Sequences, FiniteSets, SequencesExt

CONSTANTS
  Scalars,     \* what a scalar may hold
  MaxValues,   \* bound: values that live at a time
  MaxItems,    \* bound: values in a list
  MaxEntries,  \* bound: entries of a map
  MaxHeld      \* bound: references a caller holds of one value

ASSUME ValueConstants ==
  /\ {MaxValues, MaxItems, MaxEntries} \subseteq Nat
  /\ MaxHeld \in Nat \ {0}

VARIABLES
  heap,    \* the values
  held     \* how many references the callers hold of each

valueVars == <<heap, held>>

Value == 1 .. MaxValues

Kind == {"none", "scalar", "list", "map"}

Heap == [Value -> [kind : Kind, content : Scalars \cup {<<>>}, ref_count : Nat,
                   keys : Seq(Value), values : Seq(Value)]]

Nothing ==
  [kind |-> "none", content |-> <<>>, ref_count |-> 0, keys |-> <<>>,
   values |-> <<>>]

InitValue ==
  /\ heap = [v \in Value |-> Nothing]
  /\ held = [v \in Value |-> 0]

Exists(hp, v) == hp[v].kind # "none"

FreeIn(hp) == {v \in Value : ~Exists(hp, v)}

Fresh(hp) == CHOOSE v \in FreeIn(hp) : \A w \in FreeIn(hp) : v <= w

\* What a list or a map holds, in the order it gives it up.
Entries(hp, v) == hp[v].keys \o hp[v].values

\* A loop over seq: what op makes of base and the items, one after the other.
Through(op, base, seq) ==
  LET done[i \in 0 .. Len(seq)] ==
        IF i = 0 THEN base ELSE op[done[i - 1]][seq[i]]
  IN done[Len(seq)]
-----------------------------------------------------------------------------
(***************************************************************************)
(* The operations on a heap.                                               *)
(***************************************************************************)
webview_value_new(hp, kind, content) ==
  [hp EXCEPT ![Fresh(hp)] = [Nothing EXCEPT !.kind = kind, !.content = content,
                                            !.ref_count = 1]]

webview_value_ref(hp, v) == [hp EXCEPT ![v].ref_count = @ + 1]

\* The value that loses its last reference gives up those it holds; depth is
\* how many values may go inside one another, at most all there are.
Unref[depth \in Nat] ==
  [hp \in Heap |-> [v \in Value |->
     CASE depth = 0 -> hp
       [] depth > 0 /\ hp[v].ref_count > 1 -> [hp EXCEPT ![v].ref_count = @ - 1]
       [] OTHER -> Through(Unref[depth - 1], [hp EXCEPT ![v] = Nothing],
                           Entries(hp, v))]]

webview_value_unref(hp, v) == Unref[MaxValues][hp][v]

webview_value_get_len(hp, v) ==
  Len(IF hp[v].kind = "map" THEN hp[v].keys ELSE hp[v].values)

\* The first of the keys of m that is the same as key, 0 without one.
LookUp(same, hp, m, key) ==
  LET equal == {i \in DOMAIN hp[m].keys : same[hp][hp[m].keys[i]][key]}
  IN IF equal = {} THEN 0 ELSE CHOOSE i \in equal : \A j \in equal : i <= j

Alike(hp, a, b) ==
  /\ hp[a].kind = hp[b].kind /\ hp[a].content = hp[b].content
  /\ webview_value_get_len(hp, a) = webview_value_get_len(hp, b)

\* Of two maps, a key of the one is compared with the other's value for it.
AlikeInside(same, hp, a, b) ==
  /\ hp[a].kind = "list" =>
       \A i \in DOMAIN hp[a].values :
         same[hp][hp[a].values[i]][hp[b].values[i]]
  /\ hp[a].kind = "map" =>
       \A i \in DOMAIN hp[a].keys :
         LET j == LookUp(same, hp, b, hp[a].keys[i])
         IN j # 0 /\ same[hp][hp[a].keys[i]][hp[b].values[j]]

\* webview_value_equals; depth is how far the two are nested, less than all
\* values there are.
Equals[depth \in Nat] ==
  [hp \in Heap |-> [a \in Value |-> [b \in Value |->
     IF depth = 0 THEN Alike(hp, a, b)
     ELSE Alike(hp, a, b) /\ AlikeInside(Equals[depth - 1], hp, a, b)]]]

webview_value_lookup_index(hp, m, key) ==
  LookUp(Equals[MaxValues], hp, m, key)

webview_value_append_take(hp, list, v) ==
  [hp EXCEPT ![list].values = Append(@, v)]

webview_value_append(hp, list, v) ==
  webview_value_append_take(webview_value_ref(hp, v), list, v)

\* The entries the new ones replace are forgotten.
webview_value_set_takeForgetful(hp, m, key, v) ==
  LET i == webview_value_lookup_index(hp, m, key)
  IN IF i = 0
     THEN [hp EXCEPT ![m].keys = Append(@, key), ![m].values = Append(@, v)]
     ELSE [hp EXCEPT ![m].keys[i] = key, ![m].values[i] = v]

\* The map takes the references over; those to the key and to the value they
\* replace are given up.
webview_value_set_take(hp, m, key, v) ==
  LET i == webview_value_lookup_index(hp, m, key)
      unkeyed == [webview_value_unref(hp, hp[m].keys[i])
                    EXCEPT ![m].keys[i] = key]
  IN IF i = 0
     THEN [hp EXCEPT ![m].keys = Append(@, key), ![m].values = Append(@, v)]
     ELSE [webview_value_unref(unkeyed, hp[m].values[i])
             EXCEPT ![m].values[i] = v]

webview_value_set(hp, m, key, v) ==
  webview_value_set_take(webview_value_ref(webview_value_ref(hp, key), v),
                         m, key, v)

webview_value_set_string(hp, m, content, v) ==
  webview_value_set_take(
    webview_value_ref(webview_value_new(hp, "scalar", content), v),
    m, Fresh(hp), v)

\* decode_to_wvalue: what is put into the list or the map is given up at once.
Decoded(hp, list, content) ==
  LET made == webview_value_new(hp, "scalar", content)
  IN webview_value_unref(webview_value_append(made, list, Fresh(hp)), Fresh(hp))

DecodedEntry(hp, m, key, content) ==
  LET keyed == webview_value_new(hp, "scalar", key)
      made == webview_value_new(keyed, "scalar", content)
  IN webview_value_unref(
       webview_value_unref(
         webview_value_set(made, m, Fresh(hp), Fresh(keyed)), Fresh(hp)),
       Fresh(keyed))

decode_to_wvalue(hp, kind, items) ==
  Through([rest \in Heap |-> [s \in Scalars |->
             IF kind = "list" THEN Decoded(rest, Fresh(hp), s)
                              ELSE DecodedEntry(rest, Fresh(hp), s, s)]],
          webview_value_new(hp, kind, <<>>), items)

\* initCallback: a datum of an event is made and put under its name.
Datum(hp, m, s) ==
  webview_value_set_string(webview_value_new(hp, "scalar", s), m, s, Fresh(hp))

\* The map that an event is told with.
EventMap(hp, data) ==
  Through([rest \in Heap |-> [s \in Scalars |-> Datum(rest, Fresh(hp), s)]],
          webview_value_new(hp, "map", <<>>), data)

\* The application has been told; what was made for it is given up.
Event(hp, data) ==
  LET told == EventMap(hp, data)
  IN webview_value_unref(
       Through(Unref[MaxValues], told, told[Fresh(hp)].values), Fresh(hp))
-----------------------------------------------------------------------------
(***************************************************************************)
(* The callers: what they may do with what they hold or can reach from it. *)
(* Keys are scalars.                                                       *)
(***************************************************************************)
\* The sets around roots that whatever their members hold belongs to.
Closed(hp, roots) ==
  {S \in SUBSET Value :
     roots \subseteq S /\ \A v \in S : ToSet(Entries(hp, v)) \subseteq S}

\* What the getters lend, without a reference, out of lists and maps: the
\* least of them.
Below(hp, roots) ==
  LET closed == Closed(hp, roots) IN {v \in Value : \A S \in closed : v \in S}

Reached == Below(heap, {v \in Value : held[v] > 0})

OfKind(lent, kind) == {v \in lent : heap[v].kind = kind}

MaxLen(kind) == IF kind = "list" THEN MaxItems ELSE MaxEntries

\* No value is put into itself, and none grows past the bound.
Takes(whole, v) ==
  /\ webview_value_get_len(heap, whole) < MaxLen(heap[whole].kind)
  /\ whole \notin Below(heap, {v})

Distinct(n) == {s \in BoundedSeq(Scalars, n) : IsInjective(s)}

MakeValue(kind, content) ==
  /\ FreeIn(heap) # {}
  /\ heap' = webview_value_new(heap, kind, content)
  /\ held' = [held EXCEPT ![Fresh(heap)] = 1]

\* The arguments of a method call, which its answer gives up.
DecodeValue(kind, items) ==
  /\ Cardinality(FreeIn(heap)) > 2 * Len(items)
  /\ heap' = decode_to_wvalue(heap, kind, items)
  /\ held' = [held EXCEPT ![Fresh(heap)] = 1]

RefValue(v) ==
  /\ held[v] < MaxHeld
  /\ heap' = webview_value_ref(heap, v)
  /\ held' = [held EXCEPT ![v] = @ + 1]

UnrefValue(v) ==
  /\ held[v] > 0
  /\ heap' = webview_value_unref(heap, v)
  /\ held' = [held EXCEPT ![v] = @ - 1]

AppendValue(list, v) ==
  /\ Takes(list, v)
  /\ heap' = webview_value_append(heap, list, v)
  /\ UNCHANGED held

SetValue(m, key, v) ==
  /\ Takes(m, v)
  /\ heap' = webview_value_set(heap, m, key, v)
  /\ UNCHANGED held

SetString(m, content, v) ==
  /\ Takes(m, v) /\ FreeIn(heap) # {}
  /\ heap' = webview_value_set_string(heap, m, content, v)
  /\ UNCHANGED held

\* An event of the browser.
Tell(data) ==
  /\ Cardinality(FreeIn(heap)) > 2 * Len(data)
  /\ heap' = Event(heap, data)
  /\ UNCHANGED held

NextValue ==
  \/ \E content \in Scalars : MakeValue("scalar", content)
  \/ \E kind \in {"list", "map"} :
       \/ MakeValue(kind, <<>>)
       \/ \E items \in Distinct(MaxLen(kind)) : DecodeValue(kind, items)
  \/ \E data \in Distinct(MaxEntries) : Tell(data)
  \/ \E lent \in {Reached} : \E v \in lent :
       \/ RefValue(v) \/ UnrefValue(v)
       \/ \E list \in OfKind(lent, "list") : AppendValue(list, v)
       \/ \E m \in OfKind(lent, "map") :
            \/ \E key \in OfKind(lent, "scalar") : SetValue(m, key, v)
            \/ \E content \in Scalars : SetString(m, content, v)

ValueSpec == InitValue /\ [][NextValue]_valueVars
-----------------------------------------------------------------------------
ValueTypeOK ==
  /\ heap \in Heap
  /\ \A v \in Value : webview_value_get_len(heap, v) <= MaxLen(heap[v].kind)
  /\ held \in [Value -> 0 .. MaxHeld]

\* The places in lists and maps, the row each is in, and those that hold v.
Place == Value \X {"keys", "values"} \X (1 .. MaxItems + MaxEntries)

Row(hp, place) ==
  IF place[2] = "keys" THEN hp[place[1]].keys ELSE hp[place[1]].values

Places(hp, v) ==
  {place \in Place : place[3] \in DOMAIN Row(hp, place)
                      /\ Row(hp, place)[place[3]] = v}

(***************************************************************************)
(* No sequence of calls frees a value that a list, a map or a caller still *)
(* refers to, or leaves one behind that nobody can give up any more: the   *)
(* count of each value is the number of references to it, those of the     *)
(* freed ones included, which have none (webview_value_unref,              *)
(* webview_value_set_take, decode_to_wvalue).                              *)
(***************************************************************************)
EveryReferenceCounted ==
  \A v \in Value :
    /\ heap[v].ref_count = held[v] + Cardinality(Places(heap, v))
    /\ Exists(heap, v) <=> heap[v].ref_count > 0
=============================================================================
