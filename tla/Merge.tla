------------------------------- MODULE Merge -------------------------------
(***************************************************************************)
(* mergeSpecs of internal/extramanifest/merge.go: how a manifest of type   *)
(* "merge" is laid over the object that exists, and what repeating that    *)
(* does (an interrupted upgrade applies its manifests again).              *)
(*                                                                         *)
(* A JSON value is a pair of its type and its content.  Values that print  *)
(* alike ("1" and 1, or two quantities of the same size) are not told      *)
(* apart by the code; the atoms here all print differently.                *)
(***************************************************************************)
EXTENDS Naturals, Sequences, FiniteSets, SequencesExt

Nil == <<"nil">>
Str(s) == <<"str", s>>
Bool(b) == <<"bool", b>>
Map(f) == <<"map", f>>
List(s) == <<"list", s>>

Is(v, type) == v[1] = type
Fields(v) == DOMAIN v[2]
At(v, k) == IF k \in Fields(v) THEN v[2][k] ELSE Nil
Copies(s, v) == Cardinality({i \in DOMAIN s : s[i] = v})

\* A Go map that is nil: in memory an empty map, as JSON a null.
NilMap == <<"map", <<>>, "nil">>

(***************************************************************************)
(* The print by which lists are sorted: the words and signs that occur, in *)
(* the order of their first characters.                                    *)
(***************************************************************************)
Order == << " ", ":", "<nil>", "[", "]", "a", "b", "false", "l", "map", "name", "p", "q", "s", "true", "u", "x", "y" >>
Code == [c \in Range(Order) |-> CHOOSE i \in DOMAIN Order : Order[i] = c]

Less(p, q) ==
    \E i \in 1 .. Len(q) :
       /\ i <= Len(p) + 1 /\ \A j \in 1 .. i - 1 : p[j] = q[j]
       /\ i = Len(p) + 1 \/ p[i] < q[i]

Joined(prints) == FoldLeft(LAMBDA acc, p : IF acc = <<>> THEN p ELSE acc \o <<Code[" "]>> \o p, <<>>, prints)
Bracketed(prints) == <<Code["["]>> \o Joined(prints) \o <<Code["]"]>>

\* Of a list the prints of its items are sorted, of a map its keys.
Combined(type, prints) ==
    IF type = "list" THEN Bracketed(SortSeq(prints, Less))
    ELSE <<Code["map"]>> \o Bracketed(SortSeq(SetToSeq({<<Code[k], Code[":"]>> \o prints[k] : k \in DOMAIN prints}), Less))

RECURSIVE sortAndSprint(_)
sortAndSprint(v) ==
    CASE Is(v, "str")  -> <<Code[v[2]]>>
      [] Is(v, "bool") -> <<Code[IF v[2] THEN "true" ELSE "false"]>>
      [] Is(v, "nil")  -> <<Code["<nil>"]>>
      [] OTHER         -> Combined(v[1], [k \in Fields(v) |-> sortAndSprint(v[2][k])])

PrintBefore(p, q) == Less(p[1], q[1])
Printed(s) == SortSeq([i \in DOMAIN s |-> <<sortAndSprint(s[i]), s[i]>>], PrintBefore)

(***************************************************************************)
(* Equality.  Lists are compared in pairs when both are sorted.  A FALSE   *)
(* equals a Boolean that is left out, and inside lists (zero is TRUE) an   *)
(* empty map equals one that is left out.                                  *)
(***************************************************************************)
RECURSIVE checkFieldsWithSort(_, _, _)

PairMatches(o, m) == IF Is(o, "map") THEN Is(m, "map") /\ checkFieldsWithSort(m, o, TRUE) ELSE m = o

PairsMatch(os, ms) == \A i \in DOMAIN os : PairMatches(os[i][2], ms[i][2])

checkListsMatch(oldVal, mergedVal) ==
    Len(mergedVal) = Len(oldVal) /\ PairsMatch(Printed(oldVal), Printed(mergedVal))

checkFieldsWithSort(m, o, zero) ==
    /\ Cardinality(Fields(m)) >= Cardinality(Fields(o))
    /\ \A k \in Fields(m) :
          LET mv == m[2][k]
              ov == At(o, k)
          IN  CASE Is(mv, "map")  -> IF Is(ov, "map") THEN checkFieldsWithSort(mv, ov, zero)
                                     ELSE zero /\ Fields(mv) = {}
                [] Is(mv, "list") -> IF Is(ov, "list") THEN checkListsMatch(ov[2], mv[2])
                                     ELSE mv[2] = <<>>
                [] Is(mv, "bool") -> ov = mv \/ (ov = Nil /\ mv = Bool(FALSE))
                [] OTHER          -> ov = mv

\* Of two lists, which are then the items of lists, the merged one comes
\* first, in the place of the old one.
equalObjWithSort(m, o) ==
    CASE Is(m, "map")  -> Is(o, "map") /\ checkFieldsWithSort(m, o, FALSE)
      [] Is(m, "list") -> IF Is(o, "list") THEN checkListsMatch(m[2], o[2]) ELSE m[2] = <<>> /\ o = Nil
      [] OTHER         -> m = o

(***************************************************************************)
(* mergeSpecsHelper and mergeArrays, for the type musthave.                *)
(***************************************************************************)
SameName(v, w) ==
    /\ Is(v, "map") /\ Is(w, "map")
    /\ Is(At(v, "name"), "str") /\ At(v, "name") = At(w, "name")

MergeField(inTemplate, inObject, merged, old) == IF inTemplate THEN merged ELSE old

Matches(v, merged, old) == SameName(v, old) \/ equalObjWithSort(merged, old)

\* Mutant: the count is compared before the match is counted.
Taken_fewer(free, copies) == {i \in free : Cardinality({j \in free : j <= i}) < copies}

Taken(free, copies) == {i \in free : Cardinality({j \in free : j < i}) < copies}

Added(old, copies, taken) == [i \in 1 .. copies - taken |-> old]

RECURSIVE mergeSpecsHelper(_, _), mergeArrays(_, _)
mergeSpecsHelper(t, e) ==
    CASE Is(t, "map") /\ Is(e, "map") ->
            Map([k \in Fields(t) \cup Fields(e) |->
                    MergeField(k \in Fields(t), k \in Fields(e),
                               IF k \in Fields(t) /\ k \in Fields(e)
                               THEN mergeSpecsHelper(t[2][k], e[2][k]) ELSE At(t, k), At(e, k))])
      [] Is(t, "list") /\ Is(e, "list") /\ e[2] # <<>> -> List(mergeArrays(t[2], e[2]))
      [] t = Nil /\ Is(e, "map") -> e
      [] OTHER -> t

\* Each item of the object, once, takes the first items of the template that
\* are free and match it, up to the number of its copies; the copies that
\* find none are added at the end.  Against a map an item of another type is
\* lost: the variable that held it is shadowed by a nil map.
mergeArrays(desired, existing) ==
    LET Merged(v, old) == IF ~Is(old, "map") THEN v
                          ELSE IF Is(v, "map") THEN mergeSpecsHelper(v, old) ELSE NilMap
        Items == SelectSeq([i \in DOMAIN existing |-> <<i, existing[i]>>],
                           LAMBDA p : \A j \in 1 .. p[1] - 1 : existing[j] # p[2])
        Take(acc, item) ==
            LET old == item[2]
                copies == Copies(existing, old)
                free == {i \in DOMAIN desired : i \notin acc.written
                                              /\ Matches(desired[i], Merged(desired[i], old), old)}
                taken == Taken(free, copies)
            IN  [result  |-> [i \in DOMAIN acc.result |->
                                IF i \in taken THEN Merged(desired[i], old) ELSE acc.result[i]]
                             \o Added(old, copies, Cardinality(taken)),
                 written |-> acc.written \cup taken]
    IN  FoldLeft(Take, [result |-> desired, written |-> {}], Items).result

\* As the API server gets it.
RECURSIVE Marshalled(_)
Marshalled(v) ==
    CASE v = NilMap -> Nil
      [] Is(v, "map") /\ v # NilMap -> Map([k \in Fields(v) |-> Marshalled(v[2][k])])
      [] Is(v, "list") -> List([i \in DOMAIN v[2] |-> Marshalled(v[2][i])])
      [] OTHER -> v

mergeSpecs(t, e) == Marshalled(mergeSpecsHelper(t, e))

----------------------------------------------------------------------------
(***************************************************************************)
(* What merging should do, said without the algorithm.                     *)
(***************************************************************************)
RECURSIVE Holds(_, _)
\* The value has all that the template asks for.
Holds(t, v) ==
    CASE Is(t, "map")  -> Is(v, "map") /\ \A k \in Fields(t) : Holds(t[2][k], At(v, k))
      [] Is(t, "list") -> /\ Is(v, "list")
                          /\ \E f \in [DOMAIN t[2] -> DOMAIN v[2]] :
                                /\ \A i, j \in DOMAIN t[2] : i # j => f[i] # f[j]
                                /\ \A i \in DOMAIN t[2] : Holds(t[2][i], v[2][f[i]])
      [] t = Nil       -> TRUE
      [] OTHER         -> v = t \/ (v = Nil /\ t = Bool(FALSE))

\* No two items of one name.
UniqueNames(s) == \A i, j \in DOMAIN s : i # j => ~SameName(s[i], s[j])
WellFormed(v) == \A k \in Fields(v) : Is(v[2][k], "list") => UniqueNames(v[2][k][2])

(* Merging makes the object have what the manifest asks for: every field,
   and a separate list item for each of its items (mergeSpecsHelper,
   mergeArrays). *)
TemplateHolds(template, object) == Holds(template, mergeSpecs(template, object))

(* Fields and list items that the manifest does not speak of survive: each
   of the object's items is still there, as it was or, when the manifest has
   one of its name, with the manifest's fields on top (mergeArrays). *)
ExistingKept(template, before) ==
    LET object == mergeSpecs(template, before) IN
    WellFormed(before) /\ WellFormed(template) =>
        \A k \in Fields(before) :
           /\ k \in Fields(object)
           /\ k \notin Fields(template) => object[2][k] = before[2][k]
           /\ Is(before[2][k], "list") /\ Is(object[2][k], "list") =>
                 \A i \in DOMAIN before[2][k][2] :
                    \E j \in DOMAIN object[2][k][2] :
                       LET old == before[2][k][2][i]
                           new == object[2][k][2][j]
                       IN  \/ equalObjWithSort(new, old)
                           \/ SameName(new, old) /\ Fields(old) \subseteq Fields(new)

(* Applying a manifest again changes nothing (ApplyExtraManifests starts
   over after an error). *)
Idempotent(template, object) ==
    LET merged == mergeSpecs(template, object) IN mergeSpecs(template, merged) = merged

RECURSIVE ItemsOf(_)
\* The items of the lists of a value, at any depth.
ItemsOf(v) ==
    CASE Is(v, "map")  -> UNION {ItemsOf(v[2][k]) : k \in Fields(v)}
      [] Is(v, "list") -> Range(v[2]) \cup UNION {ItemsOf(v[2][i]) : i \in DOMAIN v[2]}
      [] OTHER         -> {}

\* An item that is no map may face an empty map, to which the code gives it up.
Shadowed(template, object) ==
    /\ \E v \in ItemsOf(template) : ~Is(v, "map")
    /\ Map(<<>>) \in ItemsOf(template) \cup ItemsOf(object)

(* The three laws, of a manifest and an object.  They hold of lists of maps,
   of atoms, of both and of lists, but for the item of another type that
   meets an empty map and becomes null: the shadowed variable of mergeArrays
   (mergeSpecs). *)
MergeLaw(template, object) ==
    ~Shadowed(template, object) =>
        TemplateHolds(template, object) /\ ExistingKept(template, object) /\ Idempotent(template, object)
=============================================================================
