---------------------------- MODULE AddonRequests ----------------------------
(***************************************************************************)
(* What the models ask add-ons for: which add-on a request goes to and     *)
(* with which extra values (src/types/addon/request.rs), by what their     *)
(* manifests say they have (src/types/addon/manifest.rs).  Pure.           *)
(*                                                                         *)
(* An add-on is [url, types, resources, prefixes, catalogs]; its           *)
(* transport url stands for it.  A catalog is [id, type, extra], an extra  *)
(* property [name, required, options, limit], and the extra values of a    *)
(* request are a sequence of [name, value].  An id is [prefix, name].      *)
(***************************************************************************)
EXTENDS Integers, FiniteSets, SequencesExt

Least(a, b) == IF a < b THEN a ELSE b

\* The elements of a set in an order, which is a set of pairs (of which TLC makes a tuple,
\* once, where it is joined to one); and the elements of a sequence at some of its places.
Ranked(set, order) ==
  <<>> \o [n \in 1 .. Cardinality(set) |-> CHOOSE e \in set : Cardinality({d \in set : <<d, e>> \in order}) = n - 1]
Kept(s, places) ==
  LET at == Ranked(places, {pair \in places \X places : pair[1] < pair[2]})
  IN [n \in DOMAIN at |-> s[at[n]]]

Names(extra) == {extra[i].name : i \in DOMAIN extra}

\* The first element of a sequence that passes a test, as a sequence.
First(s, Test(_)) == LET passing == SelectSeq(s, Test) IN SubSeq(passing, 1, Least(1, Len(passing)))

\* ResourcePath and ResourceRequest
Request(base, resource, type, id, extra) ==
  [base |-> base, resource |-> resource, type |-> type, id |-> id, extra |-> extra]

-----------------------------------------------------------------------------
\* ExtraExt::remove_all
RemoveAll(extra, name) == SelectSeq(extra, LAMBDA value : value.name # name)

\* ExtraExt::extend_one with Some(value): the only value where one is allowed, and
\* where more are, the value is switched on (in front, up to the limit) or off.
ExtendOne(extra, prop, value) ==
  LET own == SelectSeq(extra, LAMBDA v : v.name = prop.name)
      one == [name |-> prop.name, value |-> value]
      chosen ==
        IF prop.limit = 0 THEN <<>>
        ELSE IF prop.limit = 1 THEN <<one>>
        ELSE IF one \in ToSet(own) THEN SelectSeq(own, LAMBDA v : v # one)
        ELSE SubSeq(<<one>> \o own, 1, Least(prop.limit, 1 + Len(own)))
  IN chosen \o RemoveAll(extra, prop.name)

\* ... with None: a property that is required keeps its values.
ExtendNone(extra, prop) ==
  IF prop.required /\ prop.limit > 0
    THEN SelectSeq(extra, LAMBDA v : v.name = prop.name) \o RemoveAll(extra, prop.name)
    ELSE RemoveAll(extra, prop.name)
-----------------------------------------------------------------------------
\* ManifestCatalog::are_extra_names_supported, and is_extra_supported of values
\* with these names.
AreExtraNamesSupported(catalog, names) ==
  /\ names \subseteq Names(catalog.extra)
  /\ \A i \in DOMAIN catalog.extra : catalog.extra[i].required => catalog.extra[i].name \in names

IsExtraSupported(catalog, extra) == AreExtraNamesSupported(catalog, Names(extra))

\* ManifestCatalog::default_required_extra: nothing when a required property has no
\* options to choose the first of.
DefaultRequiredExtra(catalog) ==
  LET required == SelectSeq(catalog.extra, LAMBDA prop : prop.required) IN
  IF \E i \in DOMAIN required : required[i].options = <<>> THEN {}
  ELSE {[i \in DOMAIN required |-> [name |-> required[i].name, value |-> required[i].options[1]]]}

\* A resource of a manifest that is full may state types and prefixes of its own.
PrefixSupported(prefixes, id) == prefixes = {} \/ id.prefix \in prefixes

\* Of the resources of one name, it is the first that counts.
ResourceOf(addon, name) ==
  LET named == {i \in DOMAIN addon.resources : addon.resources[i].name = name}
  IN {addon.resources[i] : i \in {k \in named : \A j \in named : k <= j}}

\* Manifest::is_resource_supported.  A full resource that states no types has none.
\* Requests for lists of add-ons, "addon_catalog", are not among those modelled.
IsResourceSupported(addon, request) ==
  IF request.resource = "catalog"
    THEN \E i \in DOMAIN addon.catalogs :
           /\ addon.catalogs[i].id = request.id /\ addon.catalogs[i].type = request.type
           /\ IsExtraSupported(addon.catalogs[i], request.extra)
    ELSE \E resource \in ResourceOf(addon, request.resource) :
           /\ IF resource.full THEN resource.typed /\ request.type \in resource.types
                               ELSE request.type \in addon.types
           /\ PrefixSupported(IF resource.full THEN resource.prefixes ELSE addon.prefixes, request.id)
-----------------------------------------------------------------------------
\* All that Each gives of the elements of a sequence, in order.
FlatMap(s, Each(_)) == FlattenSeq([i \in DOMAIN s |-> Each(s[i])])

\* AggrRequest::AllCatalogs: every catalog that has the extra values (and the type).
PlanAllCatalogs(addons, extra, types) ==
  FlatMap(addons, LAMBDA addon :
    FlatMap(addon.catalogs, LAMBDA catalog :
      IF IsExtraSupported(catalog, extra) /\ catalog.type \in types
        THEN <<Request(addon.url, "catalog", catalog.type, catalog.id, extra)>> ELSE <<>>))

\* AggrRequest::AllOfResource
PlanAllOfResource(addons, resource, type, id) ==
  FlatMap(addons, LAMBDA addon :
    LET request == Request(addon.url, resource, type, id, <<>>) IN
    IF IsResourceSupported(addon, request) THEN <<request>> ELSE <<>>)

\* Whether a catalog of an add-on takes an item into the ids of a request.  Here a
\* full resource that states no types has them all.
TakesId(addon, catalog, item) ==
  /\ catalog.type = item.type /\ item.type \in addon.types
  /\ PrefixSupported(addon.prefixes, item.id)
  /\ \E i \in DOMAIN addon.resources :
       /\ addon.resources[i].name = "catalog"
       /\ addon.resources[i].full =>
            /\ addon.resources[i].typed => item.type \in addon.resources[i].types
            /\ PrefixSupported(addon.resources[i].prefixes, item.id)

\* The ids of the items, the most recent first, that one request asks for: as many
\* as the catalog and the caller allow.  They are joined in alphabetic order: a set.
IdsOf(addon, catalog, name, items, limit) ==
  LET taken == SelectSeq(items, LAMBDA item : TakesId(addon, catalog, item))
      prop == First(catalog.extra, LAMBDA p : p.name = name)[1]
  IN {taken[i].id : i \in 1 .. Least(Least(prop.limit, limit), Len(taken))}

\* AggrRequest::CatalogsFiltered, for one kind of ids as the callers have it.
PlanCatalogsFiltered(addons, name, items, limit) ==
  FlatMap(addons, LAMBDA addon :
    FlatMap(addon.catalogs, LAMBDA catalog :
      LET ids == IF AreExtraNamesSupported(catalog, {name})
                   THEN IdsOf(addon, catalog, name, items, limit) ELSE {}
      IN IF ids = {} THEN <<>>
         ELSE <<Request(addon.url, "catalog", catalog.type, catalog.id,
                        <<[name |-> name, value |-> ids]>>)>>))
=============================================================================
