# helium: a TLA+ verification project

helium is an XML toolkit in Go: a parser that builds a document tree or emits SAX
events, a push interface to it, XPath, XSLT, XSD, RELAX NG, Schematron, XInclude,
canonicalization, signatures, an `encoding/xml` shim and XML catalogs. Most of its
code is the grammar of some language, executed by one goroutine over data that
nobody else touches. This project models the parts whose correctness is a matter of
*state*: goroutines, channels and condition variables, a cache shared by concurrent
resolutions, a bounded recursive search, a web of raw pointers that every edit must
leave consistent, entities whose expansion is cached and replayed, and a writer whose
output must mean what its calls asked for.

Paths below are relative to `src/`. Every definition that models code is listed in
`PROJECT.json` under `map` with the lines it stands for; `hazards` lists what is hard
to test in this code, with the properties that watch it.

## 1. Inventory

| Component (source) | State | Operations | What is hard | What makes it correct | Module |
|---|---|---|---|---|---|
| push parser (`push/push.go`) | byte buffer, close flags, write error, context error, channel `done`, `sync.Once` | `Push`/`Write`, `Close`, the parse goroutine, the context watcher | a context the mutex does not protect, a condition variable, an epilogue that must publish its result in the right order | FIFO, no lost wake-up, one truthful result for everybody | `PushStream`, `PushPromise` |
| asynchronous sink (`sink/sink.go`) | channel, `closing`, `closed`, sender count, `Once`, `done` | `Handle`, `Close`, the worker | a Handler that calls its own sink, cancellation against `Close`, sends racing with the close of the channel | no panic, exactly-once in order, `Close` means drained, everybody returns | `Sink` |
| error collector (`errorhandler.go`) | the accumulated errors | `Handle`, `Errors`, `Close` | reads while the worker writes | the list follows the sink | `ErrorCollector` |
| catalog lazy loading (`internal/catalog/resolve.go`, `lazyLoad`) | per entry: catalog, `loaded`, the channel of the load in flight | a resolution reaches an entry | single flight with failures, retries and per-caller cancellation | one success, no cached failure, no orphaned waiter | `CatalogLoad` |
| catalog resolution (same file) | visited cache, counters, the recursion | `Resolve`, `ResolveURI` | circular catalogs, a cache filled during the search, limits over the whole recursion | the cache changes no answer, the limits hold, it ends | `CatalogResolve` |
| document tree (`node.go`, `node_leaf.go`, `element.go`, `attribute.go`, `document.go`) | five pointers per node and an attribute chain, owners, slabs | `AddChild`, `AddSibling`, `Replace`, `UnlinkNode`, `AppendText`, `SetAttribute`, `RemoveAttribute`, `SetDocumentElement`, `SetTreeDoc`, `Free` | long legal call sequences, nodes that already sit elsewhere, shared DTD entities, slabs recycled under live nodes | reciprocal pointers, no cycles, refused calls change nothing | `DomTree`, `DomRows` |
| `encoding/xml` shim, decoder (`shim/decoder.go`) | the event channel of a parse goroutine, one event of lookahead, the prolog, a saved error, the open elements with their namespaces, the nesting counter | `Token`, `Skip`, `Decode`, `DecodeElement`, `Close`; the same over a caller's `TokenReader` | a lazy start that may be refused, `Close` against a producer blocked in a send, text split over events, readers that answer nothing or nonsense | every token once and whole, an honest end, loops that stop at their own end tag, nobody blocked for ever | `Decoder` |
| streaming writer (`stream/stream.go`) | a state, a stack of open elements with their prefixes, pending declarations, the characters at the end of a construct | the `Start…`, `Write…` and `End…` calls, `Flush` | long sequences of calls; delimiters that arrive in pieces; namespaces declared as a side effect | a parser of the output is where the writer thinks it is and reads what was written | `StreamWriter` |
| regular-expression cache (`xpath3/regex_cache.go`) | an LRU list and a map under a mutex | get, put | list and map out of step | planned | – |
| general entities in content (`parser_entity_ref.go`, `parser_entity_decl.go`, with `parseContent` and `parseElement`) | a stack of nested parser contexts; per entity: whether it was parsed, what it built, what it cost; the expansion counter | a reference, an item of content, the end of a text | a parse in a nested context the first time, a replay of cached nodes later, limits that must hold across both | the content does not depend on how often or where an entity was seen before; the limits hold; loops and unbalanced texts are refused | `EntityExpansion` |
| parser core, otherwise (`parser*.go`, `parserctx.go`, `entity.go`) | input stack | the grammar, parameter entities, attribute values | – | not modelled | – |
| XPath, XSLT, XSD, RELAX NG, Schematron, XInclude, XPointer, C14N, HTML, signatures, encryption, serializer, CLI | – | – | sequential evaluators of standards over an unchanging tree | not modelled; `PROJECT.json` gives the reason for each | – |

How they interact. The push parser runs any `Source`, usually `Parser.ParseReader` or
the HTML parser, in its goroutine; the Source pulls bytes by `stream.Read`. Parsers and
validators report errors to an `ErrorHandler`; `ErrorCollector` is one, made of a
`Sink` whose Handler accumulates. Parsers ask a `CatalogResolver`, usually a
`Catalog` that several of them share, for the location of an external identifier; a
resolution reaches entries whose sub-catalog `lazyLoad` fetches. The decoder of the
`encoding/xml` shim runs the parser in a goroutine of its own and pulls its SAX events
from a channel. Inside the parser every reference to a general entity runs a nested parser
with the same handler and the same limits. The streaming writer stands alone: it writes to an `io.Writer` and reads
nothing back. The tree builder,
XInclude, XSLT and client code all edit the tree by the methods of `DomTree`. The only
state shared by goroutines is that of the push stream, the sink, the catalog entries,
the decoder's channel and a few caches; a document belongs to one goroutine at a time.

## 2. Modules

**PushStream** models `push.New`, the stream and the parser. One step is one critical
section of `stream.mu`, with one exception: `Read` consults `ctx.Err()`, which the
mutex does not protect, more than once while it holds the mutex, so its loop test
(`ReadTest`), its `cond.Wait` (`ReadWait`) and its exit (`ReadCanceled`, `ReadEOF`,
`ReadData`) are steps of their own. The watcher goroutine is `WatchDone`,
`WatchBroadcast`, `WatchStop`; the goroutine's epilogue is `EpilogueOverride`,
`EpilogueClose`, `EpilogueStop`, `EpilogueSend`; callers take `WriteAccept`,
`WriteReject`, `CallClose` and the steps of `closeOnce.Do`. The Source is any
implementation of its interface: it may return early, swallow an error, consult the
context itself or panic. A byte is a model value; history variables record what was
accepted, delivered and returned. **PushPromise** is the same component as its callers
see it, five variables and no goroutine; `ImplementsPromise` is the refinement.

**Sink** models `Handle`, `Close`, `shutdown` and `start`. The worker is a process that
can itself be inside `Handle` or `Close`, called by the Handler (`cur # NoItem`). The
WaitGroup is the set of registered senders. A send on a closed channel, or a second
close, sets `panicked`. `cap = 0` is a rendezvous with the worker. **ErrorCollector**
puts the accumulator on such a sink as its Handler; the run composes the two. `Lists`
says, without recursion, that one sequence is made of the wanted elements of another.

**CatalogLoad** models `lazyLoad` for one entry; a channel is named after the resolution
that made it. Loads succeed, fail, or return neither a catalog nor an error.

**CatalogResolve** models one resolution as a stack of frames, one per call of `resolve`
that is in its delegate or nextCatalog loop; a step is one iteration. An identifier is a
sequence of tokens, so that normalisation, URN unwrapping and prefix tests are computed
as the code does; what a token decodes to is again a token. The entries of all catalogs, the files that cannot be loaded and the
request are one element of `Inputs`, chosen in `Init`.

**DomTree** keeps the heap as a record of pointer functions (`dom`); each exported edit is
an operator from a heap and operands to the resulting heap and error, and an action that
applies it whole: preflight, slab-escape marks, unlink from the old place, splice into
the new. The nodes of an instance and their first tree are a world, chosen in `Init`
from `Worlds`. The one thing that breaks a tree is a call on a reference whose only child is
the Entity of the DTD: `addChild` takes that Entity for the end of the reference's own
list. The actions make these calls as the code does; the history variable `astray` turns
true when one of them has linked a node behind the Entity with the reference as its
parent, and everything that is checked and proved is about the tree until then (section 4).
**DomRows** is what the edits promise without pointers: rows of siblings, with
each edit moving whole nodes between rows and never putting a node below itself;
`ImplementsRows` is the refinement, in which `astray` is the variable `lost`.

**Decoder** models a decoder over a byte stream (the actions of `ParseGoroutine`,
the channel of capacity `Cap`, the consumer) and one over a `TokenReader`. The parser is
external: it emits some document's events and ends well, badly or not at all. A call is a
sequence of steps, one for each receive or reader call, with the merging of character
data, the pushed-back event, the translation of names and the bookkeeping of open
elements that belong to it; what was returned is kept in a history variable and compared
with the input.

**StreamWriter** models each call as an operator from a writer record to the next one,
error included, and the compositions (`WriteElement`, `WriteAttribute`, …) as sequences
of them that stop at the first refusal, as the code does. The output is not kept: `Read`,
a small parser external to the code, takes every piece that is written, and its state (open elements
with the names they really have, the construct it is in, the text it has seen) is set
against the writer's. It is laxer than an XML parser: it takes a DOCTYPE after other
content and more than one root element, does not compare the attributes of a tag, and
knows the references to control characters of XML 1.1 in any text; so agreement with it
says nothing of these. The flag `xml11` is the writer's: which contents it accepts depends
on it.

**EntityExpansion** models the references to general entities in content. The state is
the stack of parser contexts (`parserCtx`), one per entity that is being parsed, with what
each has built below its pseudo root, the entities with their cached children and sizes,
and `sizeentcopy`, which every context takes over and gives back. A step is one item of
content: text, a start or end tag, a reference, the end of a text. A reference is
`parseReference` whole: the charge, then a nested context, a replay, or the reference
itself; what it does after the nested parse is part of the step that ends that parse. The
handler is either a tree builder, which sees contexts, or one of events, which does not.
A document, its entities and the options are one element of `Inputs`. The properties use
`Reached` (the entities that are entered at all, the least set closed under references)
and `Cyclic` (some of them are only entered from one another).

The `MC…` modules give constants their values, the `…Proofs` modules hold theorems. An
operator whose comment begins with *Mutant* is a plausible bug in the definition that
follows it (a dropped guard, a missing broadcast, a wrong order); each property is known
to fail when one of them takes the place of the original.

## 3. Runs

| Run | Instance | Distinct states | Shows |
|---|---|---|---|
| `push` | 2 callers, chunks of 0 and 2 bytes, 2 bytes in all, context cancellable or not | 89 000 | FIFO, true EOF, no lost wake-up, truthful and unique results, `PushPromise`, and that `Close` returns, a cancellation ends the parse and the watcher exits |
| `sink` | 2 callers and the worker, capacity 0 or 1, 3 items of 3 levels, and a collector of warnings on a buffered one | 45 000 | no panic, exactly-once in order, drained on close; `Close`, `Handle` and cancellation all come to an end, re-entrant calls included; the collector lists the matching errors among those sent, all of them after `Close` |
| `catalog_load` | 3 resolutions, with and without a loader, inlined or not | 13 000 | single flight, one success, no cached failure, no orphaned waiter, release of cancelled and of served waiters |
| `catalog_resolve` | 3 catalogs, every combination of entry lists of 0 to 3 entries from 17 lists, dead files; depth 3, 5 loads of each kind | 99 000 | the answer of the uncached search, delegates in order, limits, termination |
| `dom` | five worlds: a document, 2 elements and a text, with `SetTreeDoc`; the same with an attribute for the text; an element and 2 attributes of one QName; 2 documents, an element, 2 texts of up to 2 pieces, without `SetTreeDoc`; a document with a DTD, an entity, a reference to it and an element | 17 000 | until the tree is astray: reciprocal pointers, no cycle, refused calls change nothing (but may have unlinked the operand of a reference), text merges append, no recycled slab in use, `DomRows` |
| `dom_reowned_slab` | 2 documents, 2 elements, `SetTreeDoc` | violation | finding 1 |
| `decoder` | 62 inputs: documents of text, CDATA, comments and elements, whole, broken off or refused at the start, and `TokenReader`s that answer nothing or nonsense; a channel of 2 | 186 000 | tokens in order and whole, honest ends, loops stop at their match, prefixes resolve, every call and goroutine ends |
| `decoder_hang` | the same inputs | violation | finding 2 |
| `stream` | the empty prefix and another, 2 namespaces, both versions, depth 2, 11 contents, 3 characters in a construct | 535 000 | a parser of the output agrees with the writer's state, text and namespaces; a refused call changes nothing but, at most, the version |
| `stream_namespaces` | the same | violation | finding 3 |
| `entities` | 5 378 inputs: 6 documents, an outer entity with one of 8 texts and an inner one with one of 7, internal, external or blocked, kept or substituted, a tree or events | 111 000 | the text of an entity once per reference and in its place, the limits, no loop and no unbalanced entity accepted |
| `entities_told_twice` | those inputs with events and substitution | violation | finding 4 |

### Bounds, and why they are enough

* `push`: two callers suffice for a `Close` that waits in `once.Do` and a `Push` that
  races with the epilogue. Two bytes in one chunk allow a short read; the empty chunk is
  the spurious wake-up. `MaxBytes` bounds the accepted bytes, not the number of calls.
* `sink`: capacity 1 with three items gives a full buffer, a blocked sender and a
  re-entrant send; capacity 0 the rendezvous. `MaxItems` bounds the calls of `Handle`
  that pass the closed test.
* `catalog_load`: three resolutions allow one to load, one to wait on the old channel and
  one to start the next load in between.
* `catalog_resolve`: three catalogs make every circle of length up to three, two paths to
  one catalog, and both orders of delegates; depth 3 is reached and exceeded, and so are
  the limits of 5 loads. The code's limits (`MaxDepth`, `MaxDelegates`,
  `MaxNextCatalogs`) are the constants.
* the tree runs explore *every* sequence of calls, of any length: only the nodes and the
  pieces of text (`MaxContent`) are bounded, and the operands of one `Replace`
  (`MaxReplace`). A document and three more nodes give
  a node with a previous and a next sibling, or a nested parent and a place elsewhere, which is what one splice can touch.
  The `CONSTRAINT InOrder` of `dom` leaves the states after the tree went astray
  unexplored, where a walk along siblings may have no end; the steps that lead there are
  taken and checked.
* `decoder`: a channel of 2 (64 in the code) is full and empty many times over documents of up to
  9 events; text in three adjacent pieces, with and without CDATA, needs two merges and
  a push-back; the limits on nesting (`MaxNesting`) and on empty answers
  (`MaxNoProgress`) are 2 and are
  both reached and exceeded.
* `stream`: an end delimiter has at most three characters, so three per construct build
  every one from every split; depth 2 gives an element that inherits, overrides and
  undeclares, and two prefixes with two namespaces every conflict between them.

* `entities`: the outer entity may be empty, hold the inner one once, twice or inside an
  element, refer to itself, or be broken; the inner one refers back or to a third. So
  entities are first met in the document, in another entity, below an element and
  elsewhere, in either order. Depth 3 (`MaxElemDepth`), 7 for the nesting of contexts
  (`MaxNest`, 40 in the code) and the limits on expansion (`AllowedExpansion` 10,
  `HardCeiling` 25, `MaxAmpl` 4, `FixedCost` 1) are each reached and exceeded.

Deadlock is checked in `push`, `sink`, `catalog_load` and `stream`. A resolution, a
parse and a decoder's input end, and a client may free its documents and stop, so the other
configurations do not check it.

### Fairness

* `push`: goroutines that can run do run (weak fairness of the parse goroutine and the
  watcher); a `sync.Mutex` hands itself to a starving waiter, which is the strong
  fairness of `WatchBroadcast` and of the steps inside `Close`. A Source that was given
  EOF or an error eventually returns. Nobody is obliged to push, close or cancel.
* `sink`: the runtime queues blocked senders first-in first-out and picks among ready
  cases of a `select` at random, hence strong fairness of a caller inside `Handle` or
  `Close` and of the worker's cancellation case. A Handler returns, however often it
  calls the sink first. Nobody is obliged to call, or to cancel.
* `catalog_load`: the code around the load runs on; the load itself need not return for
  `WaitersLeave` when the waiter's own context is cancelled.
* `catalog_resolve`: one sequential computation keeps running; a load returns.
* `decoder`: the caller keeps running inside a call, and so does the parse
  goroutine; the parser comes to the end of its input. Nobody is
  obliged to call again, or to close.

## 4. Findings

1. **A re-owned node lives in a recycled slab** (`dom_reowned_slab`, `node.go:1341`).
   `SetTreeDoc` changes a node's owner but not where it is stored. A following
   `AddChild` in the new document sees equal owners and marks nothing, and `Free` on the
   old document recycles the chunk that holds the live node.
2. **A decoder that hangs** (`decoder_hang`, `shim/decoder.go:423`). `saxStarted` is set
   before the lazy start can fail; when the charset policy refuses the input, the first
   call reports it and the next one receives from a nil channel for ever, also after
   `Close`.
3. **An attribute changes its element's namespace** (`stream_namespaces`,
   `stream/stream.go:1096`). The conflict test looks at the declarations of the current
   element only; an element that uses a prefix it inherited has declared nothing, so an
   attribute with that prefix and another URI declares it anew, and the element,
   whose name is already written, is read in the attribute's namespace.

4. **An entity's text is told twice** (`entities_told_twice`, `parser_entity_ref.go:134`).
   An entity of a parse that builds no tree never gets children. When entities are
   substituted, every reference after the first parses its text because there are no
   children to replay, and then once more for the events.

Observed while reading, and not stated as runs:

* `addChild` takes a reference's `lastChild`, the Entity of the DTD, for the end of the
  reference's own list (`node.go:651`, reached from `EntityRef.AddChild` and `AppendText`,
  `node_leaf.go:239`). When more follows the Entity in the DTD's list, the operand goes to
  the end of that list, as a child of the DTD. When the Entity is last, the operand is
  linked behind it with the reference as its parent, and the pointers are not reciprocal
  any more; if the operand is the DTD, it becomes its own child and every traversal runs
  for ever; if it is the Entity, it gets itself as next sibling. And if the operand is the
  DTD while the Entity is not last, `AddSibling` refuses it as a cycle after it was
  unlinked from its document. The model makes these calls: the first kind is an ordinary
  edit, the second ends what the properties say (`astray`), the last is the exception in
  `RejectedUntouched`;
* attributes collide by QName or by expanded name, and `SetAttributeNS` replaces only the
  first one found: with p:x in urn:1 and q:x in urn:2 present, setting p:x in urn:2 leaves
  two attributes of one expanded name (`element.go:146`);
* `parseBalancedChunkInternal` refuses text left over after a stray end tag
  (`parser_entity_decl.go:1143`), `parseExternalEntityPrivate` drops it silently; the
  instances hold no such external entity, so `AcceptedIsWellFormed` is not about them. Both raise the nesting in their own context and
  again in the new one, so 20 levels of entities, not 40, are an "entity loop". A
  reference that stays unresolved inside a substituted entity is passed over by the
  replay (`parser_entity_ref.go:281`);

* the nextCatalog limit counts attempts, not catalogs "loaded and followed": the increment
  precedes the load and the visited test (`internal/catalog/resolve.go:435`); a catalog
  refused for its depth is in the visited cache all the same, so a shorter path tried
  later skips it (`internal/catalog/resolve.go:183`);
* `setListDoc` skips a child that already reports the document together with its subtree
  (`node.go:1328`); `AddSibling` and `Replace` can put an attribute in a child list or
  make two attributes of one name, which `DomTree` models as it is;
* an error path of the decoder leaves its nesting counter raised (`shim/decoder.go:1027`);
  the event that carries the parser's error is dropped when the decoder was closed first,
  and the caller sees a plain `io.EOF` (`shim/decoder.go:334`);
* the writer accepts `EndElement` inside an open comment, PI or CDATA section,
  `StartElement` inside a DOCTYPE and `StartDocument` after output. The model accepts them
  too and marks the behaviour `astray`, after which it claims nothing about the output;
* `StartDocument` takes over the version 1.1 before it validates the encoding
  (`stream/stream.go:750`) and nothing clears the flag: the refused call has changed which
  contents the writer accepts, and a document that is then declared as 1.0 may
  contain references to control characters. `RefusalIsClean` names this as the one thing
  that a refused call leaves behind.

## 5. Proofs

The `…Proofs` modules prove the safety properties below for every value of the
constants (every set of callers, resolutions, entities or prefixes, every capacity,
limit and bound, every input of the stated form) from the named assumptions of the
modules only. Those assumptions are types (bounds are naturals, chunks are sequences of
bytes, sentinels are not members of the sets they stand beside) and the form of the
inputs; TLC evaluates each of them in the run of its component. A proof module shows
`Init => IInv`, that every action keeps `IInv`, and `Spec => []IInv` (`Invariance`); the
listed theorems are corollaries.

* **PushStream**: `TypeCorrect`, `StreamIsFIFO`, `WakeupsAreNotLost`, `EOFIsTrue`,
  `OutcomeIsFaithful`, `CloseIsIdempotent`, `PushTellsTheSameStory`, and the refinement
  `PromiseIsKept`: the goroutines implement `PushPromise`. `NoLostWakeup` speaks of a Read
  that is asleep and is not inductive: `ReadInv` extends it to the Read that has decided
  to wait and still holds the mutex, the window in which the context may be cancelled, and
  `WatchInv` says why a watcher that has gone is not needed any more (`stop` is closed
  only after the stream is). `ResultInv` follows the result from the Source through the
  override, the channel and `Parser.res` to every caller; that Push and Close tell one
  story, and that no step of the refinement changes a published outcome, rest on it.
* **Sink**: `TypeCorrect`, `NeverPanics`, `DeliveryInOrder`, `ClosedIsDrained`. The heart
  is `ChannelInv`: the WaitGroup registers exactly the goroutines between `Add` and
  `Done`, the goroutine that `once` names is the one in the body of `shutdown`, and it
  reaches the close of the channel only when, the sink being closed, no sender is left
  and none can come. For the composition with the collector, `CollectorIsASink` carries
  the three properties over to a sink with either Handler, and `ErrorsAreCollected` says
  that the collector's list is what the wanted ones among the handled errors make, in
  order, and after `Close` among all that were accepted.
* **CatalogLoad**: `TypeCorrect`, `FlightIsSingle`, `LoadsOnce`, `WaitersAreServed`.
  `FlightInv` ties `Entry.loading` to the one resolution between its claim and its store;
  `WaitInv` says that an open channel has a maker that will still close it, also in the
  window between `loading = nil` and `close(loading)`.
* **CatalogResolve**: `TypeCorrect`, `ResolutionIsBounded`, `CacheIsFaithful`,
  `DelegatesMostSpecificFirst`, for every graph of finitely many catalogs, circular ones
  included. `BudgetInv` accounts every load to
  one of the two counters and bounds the stack of loops by the depth; the order of
  delegates is proved for every list of entries, from what sorting and de-duplication
  leave of it. For the cache, every call on the stack stands at a node, a catalog with the
  identifiers it is asked for; a key of the cache tells nodes apart because a request by
  URI carries no other identifier. `FaithInv` says two things while no limit has cut the
  search. `Finished`: a node in the cache and not on the stack has no answer of its own and
  leads only to dead files and to nodes in the cache, so the uncached search from it along
  any path that avoids the nodes on the stack finds nothing (`FinishedSaysNothing`, by
  induction on the length of that search). `Running`: what the loops on the stack still
  come to is what the uncached search answers. Skipping a node that is on the stack is no
  loss, as the uncached search would not enter it either.
* **Decoder**: `TypeCorrect`, `TokensComeInOrder`, `EndOfFileIsHonest`, `LoopsMatchTags`,
  `PrefixesMeanWhatIsOpen`, for every document that closes no element it did not open
  (what a parser emits) and every `TokenReader`, whatever it answers. The invariant puts
  the channel, the lookahead and the returned tokens in one row: what was returned, what
  is pushed back, what is buffered and what the goroutine still holds are consecutive
  pieces of the document (`OutInv`, `RunInv`, `QueueInv`), and a run of text that was
  returned is not continued by what follows (`CutInv`). `EndInv` says where the parser's
  error is until a call has reported it; `ScopeInv` that there is a stack of open elements
  of which the one shared map and the saved bindings are the innermost declarations.
* **StreamWriter**: `ReaderFollowsWriter` and `ScopesAreWritten`, for every sequence of
  calls in which the writer accepts no markup where it does not belong, and
  `RefusedCallsAreClean`, for every sequence of calls: a refused one has changed nothing but,
  when it is a `StartDocument` of 1.1, the version. `Sound` relates the writer's fields to the state of a parser of
  the output, part by part: the construct (`Placed`), the open elements (`Nested`), the
  characters that could still complete a delimiter (`Trails`), the tag under construction
  (`Tagged`), and prefixes (`Scoped`). Every operation, composite ones by the operations
  they are made of, leaves a sound writer or one that is `astray` (section 4).
* **EntityExpansion**: `AcceptedMeansWellFormed`: a document that is parsed to its end
  enters no entity from itself, through however many others, and only entities whose text
  is balanced. Nothing in the parser looks for a loop by name; the argument is that the
  entities parsed to their end are `Settled` (they lead only into one another, and in no
  part of them do all lead into one another), that the contexts on the stack stand each
  behind the reference that opened the next (`Chain`), and that an entity joins the
  settled ones only when its own text is read to the end. So an entity that reaches itself
  never joins, and the parse ends at a limit. The theorem is about inputs whose external
  entities have no stray end tag (`Tidy`): `parseExternalEntityPrivate` drops what follows
  one, and the text it accepted is not balanced (section 4).
  `LimitsAreKept` (`LimitsHold`) says that what entities added to what the handler was
  told has been charged. It rests on books (`BooksAreKept`): every context with a tree has
  an account, of the text it has told beyond its own literal text against what was charged
  since it was opened, and a context that reads without telling builds up a reserve, which
  is what its entity's replay tells later. The theorem needs no `Tidy` input; it is about
  inputs in which a handler that has entities substituted also keeps a tree, because the
  other one is told an entity's text twice (the run `entities_told_twice`, section 4).
  That no element is deeper than `MaxDepth`, `DepthIsLimited`, holds for all inputs.
  `ContentIsKept` (`ContentIsRight`) says that what the handler is told is a beginning of
  `Right`, and all of it at the end. First, `Right` does not depend on how many levels
  `Told` expands once there are as many as entities (`SteadyAfter`: of
  entities that lead only into one another, and in no circle, one is entered from none of
  the others, and these lead only into one another without it), so it solves the plain equations of `Table`: the answer for an entity is
  its text with each reference replaced by an answer. The invariant (`ContentIsTold`) is
  about any such table: every open context stands behind the reference that opened the
  next (`Posted`), what is kept with an entity is its answer (`Learnt`), and what was told
  is what the contexts have read, one inside the other (`ToldTree` when each builds a tree
  of its own, `ToldFlat` when the events of all go to one handler). Its hypothesis,
  `Resolved`, applies when entities are substituted: a tree is built (otherwise
  finding 4 of section 4), and the texts that are reached refer to nothing undeclared (a
  replay passes over such a reference, section 4). All inputs of the run `entities` are
  `Resolved`; `WellFormed` is part of the property: in other inputs nothing is right. The assumption that `Entities` is finite is needed
  here only.
* **DomTree**: `TypeCorrect`, `LinksAreConsistent` (`WellLinked`), `TreesStayAcyclic`
  (`Acyclic`), `ErrorsLeaveTheTree` (`RejectedUntouched`), for every set of nodes and
  every sequence of edits until one leads the tree astray (section 2), and
  `RecycledSlabsAreUnused`: so far, `SlabSafe` holds of every client
  that never calls `SetTreeDoc` on a node of another document, the exception being the
  finding of section 4. Calls on a reference that shows the Entity belong to the theorems:
  the proof shows that each of them makes the operand a child of the DTD, is refused, or
  leads astray. The inductive invariant says that the heap is a forest: `next` and
  `prev` are inverse and neither runs in a circle; the attributes of an element are a list
  apart from its children; a parent points to the ends of its lists; documents are roots;
  and every non-empty set of nodes has a member with no child in the set (`Treelike`),
  which forbids circles without mentioning paths, so that the provers can use it. For the
  slabs it adds that a node of a slab is owned by the slab's document (`AtHome`), and that
  a node is below a node of its own document unless that document gave nodes away
  (`OneDocument`). The loops of the code (`Walk` along siblings, `Reached` down a subtree)
  are characterised once by what they enumerate; that they end is again the least
  counterexample of a set of naturals.

The libraries' induction theorems take an operator as a parameter and cannot be
instantiated by the installed provers. Where a proof needs induction over positions (the
nesting depth of a prefix, what `Plain` or `Lists` have computed), it goes by the least
counterexample of a set of naturals, with lemmas such as `StepByStep`; the definitions
were written as recursive functions or first-order characterisations for it.

Model-checked only:

* liveness, and everything that rests on fairness or `ENABLED`;
* `TextIsAppended` of `DomTree` and the refinement `ImplementsRows`, and `SlabSafe` for a
  client that calls `SetTreeDoc` (which breaks it, section 4);
* `NamesResolve` of `StreamWriter`, `NeverHangs` of `Decoder` and the two other properties
  that some instance violates (section 4).

## 6. Not modelled, and why

* *Tree*: a Document as an operand; `RemoveInternalSubset`; namespace declarations; deep copies (a fresh tree,
  built with the same edits); the `Unsafe…` primitives, whose contract leaves
  consistency to the caller; the tree builder's fast path; what happens to a tree that has
  gone astray. CDATA sections, comments and
  processing instructions are modelled but occur in no instance.
* *Sink*: a nil receiver or a nil Handler, which do nothing.
* *Catalogs*: parsing of catalog files, URI resolution, reading under a byte limit; the
  cancellation of a context in the middle of a resolution; the root catalog is not in
  the visited cache, so a circle enters it once more, which the model does too.
* *Decoder*: the scanners of the prolog and of the XML declaration, input offsets,
  `DefaultSpace`, and unmarshalling into Go values, of which only the order in which it
  asks for tokens matters to the model.
* *Writer*: indentation, the grammar of names, `xmlns` written as a
  literal attribute, and `WriteRaw` of markup, for which the writer promises nothing.
* *Entities*: references in attribute values, which take another path (`decodeEntities`);
  parameter entities; character references and the predefined entities, which are text;
  the recover mode; the names of elements, so that an end tag closes any element.
* *Everything else*: see the components of `PROJECT.json`. Some 200 000 of the
  repository's lines are XPath, XSLT, XML Schema, RELAX NG, HTML and the grammar of XML:
  functions from an input to a result, without shared state, failure handling or
  interleavings. What could be stated about them is the text of their standards, and a
  model would be that text again; their conformance suites are the better check. The
  share of the repository's lines that the modules stand for is therefore small, about one
  in a hundred, and means nothing for the parts that are modelled.

## 7. Plan

Done, in this order: the push parser and its promise, the sink and the error collector,
catalog loading and resolution, the document tree and its rows; proofs of the three
concurrent components; the decoder; the streaming writer; general entities in content;
proofs of the refinement of `PushPromise`, of the collector, of catalog resolution, of the
decoder, the writer, the well-formedness of entities, their limits and their content, and
the tree.

Next, most valuable first:

1. Proofs: the refinement `ImplementsRows`; `TextIsAppended` of `DomTree`.
2. `CatalogRead` (`catalog/load_unix.go`): the cancellable read and its goroutine.
3. `RegexCache` (`xpath3/regex_cache.go`): list and map of the LRU in step, bounded.
4. Entities in attribute values (`decodeEntities`), with the same counter. XInclude's cycle and depth limits. Content-model matching (`valid.go`) against a
   reference definition.

Where a later module asks a deeper question than an existing run, it takes that run's
place: the project keeps few runs, one for each question worth asking.
