-------------------------- MODULE MCCatalogResolve --------------------------
(***************************************************************************)
(* Instances of CatalogResolve for TLC: three catalogs that answer,        *)
(* rewrite, delegate or chain to each other in any combination.            *)
(***************************************************************************)
EXTENDS CatalogResolve

MCCatalogs == {"r", "s", "t"}
MCToken == MCCatalogs \cup {"a", "b", "p", "q", "w", "x", "y", "z", " ", "\t", "+",
                            "urn:publicid:", "urn%3Apublicid%3A"}

AB == <<"a", "b">>
Entry(type, name, url) == [type |-> type, name |-> name, url |-> url, prefer |-> "public"]

Pairs == {p \in MCCatalogs \X MCCatalogs : p[1] # p[2]}
Hits == {<< >>, <<Entry("rewriteSystem", <<"a">>, "x"), Entry("rewriteSystem", AB, "y")>>}
ToDelegates == {<<Entry("delegateSystem", <<"a">>, p[1]), Entry("delegateSystem", AB, p[2])>> : p \in Pairs}
Twice == {<<Entry("delegateSystem", <<"a">>, "s"), Entry("delegateSystem", <<"a">>, "t"),
            Entry("delegateSystem", AB, "s")>>}
ToNext == {<<Entry("next", << >>, p[1]), Entry("next", << >>, p[2])>> : p \in Pairs}
ToPublic == {<<[Entry("delegatePublic", <<"p">>, p[1]) EXCEPT !.prefer = "system"],
               Entry("delegatePublic", <<"p">>, p[2])>> : p \in Pairs}

Lists == Hits \cup Twice \cup ToDelegates \cup ToNext
         \cup {<<Entry("system", AB, "z")>>} \cup {<<Entry("public", <<"p">>, "w")>>}

(* The same lists for ResolveURI.                                           *)
AsURI(list) ==
  [i \in DOMAIN list |->
     [list[i] EXCEPT !.type = CASE @ = "system" -> "uri" [] @ = "rewriteSystem" -> "rewriteURI"
                                [] @ = "delegateSystem" -> "delegateURI" [] OTHER -> @]]

Ask(pub, sys, uri) == [pub |-> pub, sys |-> sys, uri |-> uri]

Graph(lr, ls, lt) == [c \in MCCatalogs |-> CASE c = "r" -> lr [] c = "s" -> ls [] OTHER -> lt]

Families(left, right, requests, missing) ==
  {[graph |-> Graph(lr, ls, lt), missing |-> m, request |-> q] :
     lr \in left, ls \in left, lt \in right, q \in requests, m \in missing}

MCInputs ==
  Families(Lists, Lists, {Ask(<<"p">>, AB, << >>)}, {{}, {"t"}})
  \cup Families(ToPublic \cup ToNext, Hits \cup {<<Entry("public", <<"p">>, "w")>>},
                {Ask(<<" ", "p", "\t">>, << >>, << >>), Ask(<<"p">>, <<"urn:publicid:", "p">>, << >>),
                 Ask(<<"q">>, <<"urn:publicid:", "urn%3Apublicid%3A", "p">>, << >>),
                 Ask(<< >>, <<"urn:publicid:", "urn%3Apublicid%3A", "p">>, << >>),
                 Ask(<< >>, << >>, <<"urn:publicid:", "+", "p">>)}, {{}})
  \cup Families({AsURI(l) : l \in ToDelegates \cup ToNext}, {AsURI(l) : l \in Hits},
                {Ask(<< >>, << >>, AB)}, {{}})
=============================================================================
