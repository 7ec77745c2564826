--------------------------- MODULE CatalogResolve ---------------------------
(***************************************************************************)
(* internal/catalog/resolve.go: one resolution of an external identifier   *)
(* or a URI through a catalog and the catalogs it delegates to or names as *)
(* nextCatalog.  The recursion resolve -> resolveDelegate... / resolveNext *)
(* -> resolve is a stack of frames; every iteration of a delegate or       *)
(* nextCatalog loop is one step.                                           *)
(*                                                                         *)
(* An identifier is a sequence of tokens, << >> the empty string; a token  *)
(* is a character or a run of them that the code handles as one.  How an   *)
(* entry's catalog is loaded and shared between concurrent resolutions is  *)
(* CatalogLoad; here a load succeeds or fails.                             *)
(***************************************************************************)
EXTENDS Naturals, Sequences, FiniteSets

CONSTANTS
  Token,            \* what identifiers and URLs are made of
  Catalogs,         \* the URLs of the catalog files
  Root,             \* the catalog Resolve is called on
  Inputs,           \* [graph, missing, request]: entries, dead files, a call of
                    \* Resolve (a public and a system identifier) or ResolveURI
  MaxDepth,         \* catalog.MaxDepth
  MaxDelegates,     \* catalog.MaxDelegates
  MaxNextCatalogs   \* catalog.MaxNextCatalogs

EntryTypes == {"public", "system", "rewriteSystem", "delegatePublic",
               "delegateSystem", "uri", "rewriteURI", "delegateURI", "next"}

(* A catalog entry and a call of Resolve or ResolveURI.                     *)
CatalogEntry == [type : EntryTypes, name : Seq(Token), url : Token,
                 prefer : {"public", "system"}]
Query == [pub : Seq(Token), sys : Seq(Token), uri : Seq(Token)]

DelegateTypes == {"delegatePublic", "delegateSystem", "delegateURI"}

ASSUME ResolveAssumption ==
  /\ Root \in Catalogs /\ Catalogs \subseteq Token /\ IsFiniteSet(Catalogs)
  /\ \A in \in Inputs :
       /\ in.graph \in [Catalogs -> Seq(CatalogEntry)]
       /\ in.missing \subseteq Catalogs
       /\ in.request \in Query
       /\ in.request.uri # << >> => in.request.pub = << >> /\ in.request.sys = << >>
       /\ \A c \in Catalogs : \A i \in DOMAIN in.graph[c] :
            in.graph[c][i].type \in {"next"} \cup DelegateTypes
              => in.graph[c][i].url \in Catalogs
  /\ MaxDepth \in Nat /\ MaxDelegates \in Nat /\ MaxNextCatalogs \in Nat

VARIABLES
  input,         \* the element of Inputs this resolution runs on
  query,         \* [pub, sys, uri]: the identifiers, as far as they are unwrapped
  phase,         \* "top": resolveTop; "search": resolve; "done"
  stack,         \* the calls of resolve that are in a loop, outermost first
  visited,       \* resolveState.visited
  delegates,     \* resolveState.delegates
  nextCatalogs,  \* resolveState.nextCatalogs
  result,        \* [uri, broke]: what ResolveResult returns
  loads,         \* history: calls of lazyLoad
  truncated      \* history: a limit cut the search short

state == <<visited, delegates, nextCatalogs>>
history == <<loads, truncated>>
vars == <<input, query, phase, stack, state, result, history>>

-----------------------------------------------------------------------------
(* Identifiers.                                                             *)

First(I) == CHOOSE i \in I : \A j \in I : i <= j

(* The elements of s at the positions I, in order.                          *)
Select(s, I) ==
  [k \in 1 .. Cardinality(I) |->
     s[CHOOSE i \in I : Cardinality({j \in I : j < i}) = k - 1]]

HasPrefix(id, p) == Len(p) <= Len(id) /\ SubSeq(id, 1, Len(p)) = p

Space == {" ", "\t", "\n", "\r"}

(* White space at the ends goes, a run within becomes one space.            *)
NormalizePublicID(id) ==
  LET solid == {i \in DOMAIN id : id[i] \notin Space}
      spaced == [i \in DOMAIN id |-> IF i \in solid THEN id[i] ELSE " "]
      gaps == {i \in DOMAIN id \ solid : i + 1 \in solid /\ \E j \in solid : j < i}
  IN  Select(spaced, solid \cup gaps)

Decoded(token) ==
  CASE token = "+" -> " "     [] token = ":" -> "//"    [] token = ";" -> "::"
    [] token = "%2B" -> "+"   [] token = "%3A" -> ":"   [] token = "%2F" -> "/"
    [] token = "%3B" -> ";"   [] token = "%27" -> "'"   [] token = "%3F" -> "?"
    [] token = "%23" -> "#"   [] token = "%25" -> "%"
    [] token = "urn%3Apublicid%3A" -> "urn:publicid:"
    [] OTHER -> token

ASSUME TokenAssumption == " " \in Token /\ \A t \in Token : Decoded(t) \in Token

UnwrapURN(id) ==
  IF id # << >> /\ id[1] = "urn:publicid:"
    THEN [i \in 1 .. Len(id) - 1 |-> Decoded(id[i + 1])] ELSE << >>

-----------------------------------------------------------------------------
(* One catalog: resolve and resolveURI up to their loops.                   *)

(* Mutant: delegates are tried in document order.                           *)
DocumentOrder(es, i, j) == i < j

(* Most specific first, ties in document order.                             *)
Before(es, i, j) ==
  \/ Len(es[i].name) > Len(es[j].name)
  \/ Len(es[i].name) = Len(es[j].name) /\ i < j

(* The catalogs to delegate id to, each URL once; a delegatePublic counts   *)
(* only under prefer="public".                                              *)
Delegates(es, type, id) ==
  LET matches == {i \in DOMAIN es : /\ es[i].type = type
                                    /\ HasPrefix(id, es[i].name)
                                    /\ type = "delegatePublic" => es[i].prefer = "public"}
      fresh == {i \in matches :
                  ~ \E j \in matches : es[j].url = es[i].url /\ Before(es, j, i)}
  IN  [k \in 1 .. Cardinality(fresh) |->
         es[CHOOSE i \in fresh : Cardinality({j \in fresh : Before(es, j, i)}) = k - 1].url]

(* An exact entry wins, then the rewrite entry with the longest prefix.     *)
Hit(es, exact, rewrite, id) ==
  LET same == {i \in DOMAIN es : es[i].type = exact /\ es[i].name = id}
      starts == {i \in DOMAIN es : /\ es[i].type = rewrite
                                   /\ HasPrefix(id, es[i].name) /\ es[i].name # << >>}
      r == es[CHOOSE i \in starts : \A j \in starts \ {i} : Before(es, i, j)]
  IN  CASE same # {} -> <<es[First(same)].url>>
        [] same = {} /\ starts # {} -> <<r.url>> \o SubSeq(id, Len(r.name) + 1, Len(id))
        [] OTHER -> << >>

NoMatch == [kind |-> "none", uri |-> << >>, todo |-> << >>, query |-> << >>]

Pass(es, exact, rewrite, delegate, id, sub) ==
  LET hit == Hit(es, exact, rewrite, id)
      targets == Delegates(es, delegate, id)
  IN  CASE id = << >> -> NoMatch
        [] id # << >> /\ hit # << >> -> [NoMatch EXCEPT !.kind = "hit", !.uri = hit]
        [] id # << >> /\ hit = << >> /\ targets # << >> ->
             [kind |-> "delegate", uri |-> << >>, todo |-> targets, query |-> sub]
        [] OTHER -> NoMatch

NextCatalogs(es, q) ==
  LET chain == Select(es, {i \in DOMAIN es : es[i].type = "next"})
  IN  IF chain = << >> \/ q.pub \o q.sys \o q.uri = << >> THEN NoMatch
      ELSE [kind |-> "next", uri |-> << >>, query |-> q,
            todo |-> [i \in DOMAIN chain |-> chain[i].url]]

(* What a catalog with entries es says to q: an answer, the delegates to    *)
(* ask instead of going on, or the nextCatalogs.                            *)
Lookup(es, q) ==
  LET byURI == Pass(es, "uri", "rewriteURI", "delegateURI", q.uri, q)
      bySystem == Pass(es, "system", "rewriteSystem", "delegateSystem", q.sys,
                       [q EXCEPT !.pub = << >>])
      byPublic == Pass(es, "public", "none", "delegatePublic", q.pub,
                       [q EXCEPT !.sys = << >>])
  IN  CASE byURI # NoMatch -> byURI
        [] byURI = NoMatch /\ bySystem # NoMatch -> bySystem
        [] byURI = NoMatch /\ bySystem = NoMatch /\ byPublic # NoMatch -> byPublic
        [] OTHER -> NextCatalogs(es, q)

-----------------------------------------------------------------------------
(* resolveTop.                                                              *)

Init ==
  /\ input \in Inputs
  /\ query = input.request
  /\ phase = "top"
  /\ stack = << >>
  /\ visited = {} /\ delegates = 0 /\ nextCatalogs = 0
  /\ result = [uri |-> << >>, broke |-> FALSE]
  /\ loads = 0 /\ truncated = FALSE

Retry(q) ==
  /\ query' = q
  /\ UNCHANGED <<input, phase, stack, state, result, history>>

UnwrapURI ==
  /\ phase = "top" /\ UnwrapURN(query.uri) # << >>
  /\ Retry([pub |-> UnwrapURN(query.uri), sys |-> << >>, uri |-> << >>])

UnwrapPublic ==
  LET p == NormalizePublicID(query.pub)
  IN  /\ phase = "top" /\ query.uri = << >> /\ UnwrapURN(p) # << >>
      /\ Retry([query EXCEPT !.pub = UnwrapURN(p)])

(* Mutant: the second identifier is passed on as it came.                   *)
UnwrapSystemKeeps ==
  LET p == NormalizePublicID(query.pub)
      s == UnwrapURN(query.sys)
  IN  /\ phase = "top" /\ query.uri = << >> /\ UnwrapURN(p) = << >> /\ s # << >>
      /\ Retry(CASE p = << >> -> [query EXCEPT !.pub = s, !.sys = << >>]
                 [] p = s -> [query EXCEPT !.pub = p, !.sys = << >>]
                 [] OTHER -> [query EXCEPT !.pub = p])

(* A system identifier that is a URN is a public identifier in disguise.    *)
UnwrapSystem ==
  LET p == NormalizePublicID(query.pub)
      s == UnwrapURN(query.sys)
  IN  /\ phase = "top" /\ query.uri = << >> /\ UnwrapURN(p) = << >> /\ s # << >>
      /\ Retry(CASE p = << >> -> [query EXCEPT !.pub = s, !.sys = << >>]
                 [] p = s -> [query EXCEPT !.pub = p, !.sys = << >>]
                 [] OTHER -> [query EXCEPT !.pub = p, !.sys = s])

(* The outermost call of resolve or resolveURI.                             *)
Start ==
  LET q == [query EXCEPT !.pub = NormalizePublicID(query.pub)]
      o == Lookup(input.graph[Root], q)
  IN  /\ phase = "top"
      /\ UnwrapURN(q.uri) = << >> /\ UnwrapURN(q.pub) = << >> /\ UnwrapURN(q.sys) = << >>
      /\ query' = q
      /\ phase' = IF o.kind \in {"hit", "none"} THEN "done" ELSE "search"
      /\ result' = [result EXCEPT !.uri = o.uri]
      /\ stack' = IF o.kind \in {"hit", "none"} THEN << >> ELSE <<o>>
      /\ UNCHANGED <<input, state, history>>

-----------------------------------------------------------------------------
(* The loops over delegates and nextCatalogs.                               *)

Top == stack[Len(stack)]
Below == SubSeq(stack, 1, Len(stack) - 1)
Target == Head(Top.todo)
Advanced == [Top EXCEPT !.todo = Tail(@)]

(* Mutant: the cache forgets what a catalog was asked.                      *)
KeyIsURL == <<Target, << >>, << >> >>

Key == IF Top.query.uri # << >> THEN <<Target, Top.query.uri, << >> >>
       ELSE <<Target, Top.query.pub, Top.query.sys>>

MayLoad == IF Top.kind = "delegate" THEN delegates < MaxDelegates
           ELSE nextCatalogs < MaxNextCatalogs

(* The head of an iteration: the budget is charged, then the entry loaded.  *)
Consult ==
  /\ phase = "search" /\ stack # << >> /\ Top.todo # << >> /\ MayLoad
  /\ delegates' = IF Top.kind = "delegate" THEN delegates + 1 ELSE delegates
  /\ nextCatalogs' = IF Top.kind = "next" THEN nextCatalogs + 1 ELSE nextCatalogs
  /\ loads' = loads + 1
  /\ UNCHANGED <<input, query>>

Fresh == Target \notin input.missing /\ Key \notin visited
Searches == Fresh /\ Len(stack) <= MaxDepth
Answer == Lookup(input.graph[Target], Top.query)

SkipMissing ==
  /\ Consult /\ Target \in input.missing
  /\ stack' = Append(Below, Advanced)
  /\ UNCHANGED <<phase, visited, result, truncated>>

SkipVisited ==
  /\ Consult /\ Target \notin input.missing /\ Key \in visited
  /\ stack' = Append(Below, Advanced)
  /\ UNCHANGED <<phase, visited, result, truncated>>

(* resolve refuses to go deeper; a nextCatalog loop at that depth gives up. *)
TooDeep ==
  /\ Consult /\ Fresh /\ ~ Searches
  /\ visited' = visited \cup {Key}
  /\ truncated' = TRUE
  /\ stack' = Append(Below, IF Top.kind = "next" THEN [Top EXCEPT !.todo = << >>]
                            ELSE Advanced)
  /\ UNCHANGED <<phase, result>>

Search ==
  /\ Consult /\ Searches
  /\ visited' = visited \cup {Key}
  /\ UNCHANGED truncated

(* Every caller hands an answer on to its own caller.                       *)
Found ==
  /\ Search /\ Answer.kind = "hit"
  /\ result' = [result EXCEPT !.uri = Answer.uri]
  /\ phase' = "done" /\ stack' = << >>

NotFound ==
  /\ Search /\ Answer.kind = "none"
  /\ stack' = Append(Below, Advanced)
  /\ UNCHANGED <<phase, result>>

(* Mutant: every loop gets a budget of its own.                             *)
DescendAfresh ==
  /\ phase = "search" /\ stack # << >> /\ Top.todo # << >> /\ MayLoad
  /\ Searches /\ Answer.kind \in {"delegate", "next"}
  /\ delegates' = 0 /\ nextCatalogs' = 0 /\ loads' = loads + 1
  /\ visited' = visited \cup {Key}
  /\ stack' = Below \o <<Advanced, Answer>>
  /\ UNCHANGED <<input, query, phase, result, truncated>>

Descend ==
  /\ Search /\ Answer.kind \in {"delegate", "next"}
  /\ stack' = Below \o <<Advanced, Answer>>
  /\ UNCHANGED <<phase, result>>

(* The budget is spent: the loop breaks off.                                *)
Exhaust ==
  /\ phase = "search" /\ stack # << >> /\ Top.todo # << >> /\ ~ MayLoad
  /\ stack' = Append(Below, [Top EXCEPT !.todo = << >>])
  /\ truncated' = TRUE
  /\ UNCHANGED <<input, query, phase, state, result, loads>>

(* A loop ends without an answer.  Callers treat the break of a delegate    *)
(* loop and the miss of a nextCatalog loop alike; ResolveResult does not.   *)
Return ==
  /\ phase = "search" /\ stack # << >> /\ Top.todo = << >>
  /\ stack' = Below
  /\ phase' = IF Below = << >> THEN "done" ELSE "search"
  /\ result' = IF Below = << >> THEN [result EXCEPT !.broke = (Top.kind = "delegate")]
               ELSE result
  /\ UNCHANGED <<input, query, state, history>>

Next ==
  \/ UnwrapURI \/ UnwrapPublic \/ UnwrapSystem \/ Start
  \/ SkipMissing \/ SkipVisited \/ TooDeep \/ Found \/ NotFound \/ Descend
  \/ Exhaust \/ Return

Spec == Init /\ [][Next]_vars

(* A sequential computation keeps running; loads return.                    *)
LiveSpec == Spec /\ WF_vars(Next)

-----------------------------------------------------------------------------
(* Properties.                                                              *)

(* The loop of a call of resolve: what is left to do, and for which query.  *)
Frame == [kind : {"delegate", "next"}, uri : {<< >>}, todo : Seq(Catalogs), query : Query]

TypeOK ==
  /\ input \in Inputs
  /\ query \in Query
  /\ phase \in {"top", "search", "done"}
  /\ phase = "search" <=> stack # << >>
  /\ stack \in Seq(Frame)
  /\ visited \subseteq Catalogs \X Seq(Token) \X Seq(Token)
  /\ delegates \in 0 .. MaxDelegates /\ nextCatalogs \in 0 .. MaxNextCatalogs
  /\ result \in [uri : Seq(Token), broke : BOOLEAN]
  /\ loads \in Nat /\ truncated \in BOOLEAN

(* What a loop comes to: the first answer that is one.                      *)
FirstAnswer(answers) ==
  LET hits == {i \in DOMAIN answers : answers[i] # << >>}
  IN  IF hits = {} THEN << >> ELSE answers[First(hits)]

(* The answer without any cache: the first one met by a depth-first search  *)
(* along the paths that come to no catalog twice with the same identifiers. *)
Uncached ==
  LET Node == Catalogs \X {query, [query EXCEPT !.pub = << >>], [query EXCEPT !.sys = << >>]}
      Says(node) == Lookup(input.graph[node[1]], node[2])
      best[k \in 0 .. Cardinality(Node)] ==
        [path \in SUBSET Node |-> [o \in {Says(node) : node \in Node} |->
           IF o.kind = "hit" THEN o.uri
           ELSE FirstAnswer([i \in DOMAIN o.todo |->
                  LET to == <<o.todo[i], o.query>>
                  IN  IF k = 0 \/ o.todo[i] \in input.missing \/ to \in path THEN << >>
                      ELSE best[k - 1][path \cup {to}][Says(to)]])]]
  IN  best[Cardinality(Node)][{}][Says(<<Root, query>>)]

(* The visited cache, which also holds catalogs whose search is not over,   *)
(* changes no answer: unless a limit cut the search, the result is that of  *)
(* the uncached search, and a break is reported exactly when the catalog    *)
(* itself delegated and nobody answered.                                    *)
SearchIsFaithful ==
  phase = "done" /\ ~ truncated =>
    LET uri == Uncached
    IN  result = [uri |-> uri,
                  broke |-> /\ uri = << >>
                            /\ Lookup(input.graph[Root], query).kind = "delegate"]

(* "most-specific-first: longest matching start-string first, as required   *)
(* by the OASIS XML Catalogs spec" (resolve.go), with duplicates of a file  *)
(* dropped: the delegates of an identifier are all the files some matching  *)
(* entry names, each once, and none comes before one with a longer match.   *)
MostSpecificFirst ==
  phase = "search" =>
    \A c \in Catalogs, pair \in {<<"delegateSystem", query.sys>>, <<"delegateURI", query.uri>>} :
      LET es == input.graph[c]
          ds == Delegates(es, pair[1], pair[2])
          lengths(url) == {Len(es[i].name) : i \in {j \in DOMAIN es :
                             /\ es[j].type = pair[1] /\ es[j].url = url
                             /\ HasPrefix(pair[2], es[j].name)}}
      IN  /\ {ds[i] : i \in DOMAIN ds} = {url \in Catalogs : lengths(url) # {}}
          /\ \A i, j \in DOMAIN ds : i < j =>
               /\ ds[i] # ds[j]
               /\ \A n \in lengths(ds[j]) : \E k \in lengths(ds[i]) : k >= n

(* The limits bound the whole resolution and not each catalog (CAT-001,     *)
(* CAT-005): however the catalogs refer to each other, at most              *)
(* MaxDelegates + MaxNextCatalogs loads and MaxDepth + 1 nested calls.      *)
LoadsAreBounded ==
  /\ loads <= MaxDelegates + MaxNextCatalogs
  /\ Len(stack) <= MaxDepth + 1

(* Every resolution ends, also among catalogs that refer to each other in a *)
(* circle and for URNs that wrap URNs.                                      *)
Terminates == <>(phase = "done")
=============================================================================
