----------------------------- MODULE ValueCache -----------------------------
(***************************************************************************)
(* The cache of aggregates of a cube (Engine/Cache.cpp) between requests   *)
(* that read and requests that write.                                      *)
(*                                                                         *)
(* A version of the server holds one object per cube; an unchanged cube is *)
(* the same object in the next version, a written one is a copy with an    *)
(* empty cache.  An object is thus named by the cube and the number of the *)
(* write that made it, and its cache outlives the version a reader has.    *)
(*                                                                         *)
(* A cube may have a rule that reads another cube (Source).  The value of  *)
(* an area is abstracted to what it was computed from: the number of the   *)
(* write of every cube it read.  A reader evaluates an area of a cube: a   *)
(* hit in the cube's cache ends the evaluation; a miss opens a cache       *)
(* writer and goes on with the cube of the rule.  At the end of the        *)
(* request its query caches are merged into the cubes' caches.  A writer   *)
(* publishes a version and then goes through the cubes and clears its own  *)
(* cache and those that depend on it.                                      *)
(*                                                                         *)
(* Left out: the barrier on the size of a cache, areas that overlap in     *)
(* part, statistics, and what a writing request itself reads (splashing).  *)
(***************************************************************************)
EXTENDS Naturals, FiniteSets, Sequences, SequencesExt

CONSTANTS
    Cube,       \* the cubes of the server
    Listed,     \* their order in the lists of the server (a sequence)
    Source,     \* [Cube -> Cube \cup {None}]: the cube the rule of a cube reads
    Area,       \* areas that are asked for
    Reader,     \* requests that read; each reads once
    Writer,     \* requests cell/replace; each writes once
    None

\* Every cube of the server is in a list, and the writers go through the lists.
ASSUME ValueCacheAssumption ==
    /\ None \notin Cube
    /\ Source \in [Cube -> Cube \cup {None}]
    /\ Listed \in Seq(Cube)
    /\ ToSet(Listed) = Cube
    /\ IsFiniteSet(Writer)

VARIABLES
    server,     \* the published version: [Cube -> number of its last write]
    caches,     \* the cache of every object (cube, number)
    readers,    \* the reading requests
    writers     \* the writing requests

vars == <<server, caches, readers, writers>>

Numbers == 0..Cardinality(Writer)
Objects == Cube \X Numbers

(***************************************************************************)
(* An area in a cache: what its value was computed from and, as a record   *)
(* of its history that the code does not keep, whether a request that a    *)
(* write overtook stored it (late) and whether part of it came from the    *)
(* cache of another cube (chained).                                        *)
(***************************************************************************)
Values == UNION {[D -> Numbers] : D \in SUBSET Cube}
Entry == [val : Values, late : BOOLEAN, chained : BOOLEAN]
Entries == Entry \cup {None}
Caches == [areas : [Area -> Entries], sources : SUBSET Cube]

ASSUME NoneAssumption == None \notin Entry

NoCache == [areas |-> [a \in Area |-> None], sources |-> {}]

Phases == {"start", "look", "save", "end"}

\* open: the open cache writers, the outermost first; deps: their source cubes;
\* query: the query caches not merged yet; fetched: what the request took from
\* the cache of the cube it is merging.
ReaderStates ==
    [phase : Phases, tree : [Cube -> Numbers], area : Area \cup {None},
     top : Cube \cup {None}, open : Seq(Cube), deps : [Cube -> SUBSET Cube],
     query : [Cube -> Entries], merging : Cube \cup {None}, fetched : Caches,
     answer : Entries, late : BOOLEAN]

TypeOK ==
    /\ server \in [Cube -> Numbers]
    /\ caches \in [Objects -> Caches]
    /\ readers \in [Reader -> ReaderStates]
    /\ writers \in [Writer -> [cube : Cube \cup {None}, tree : [Cube -> Numbers],
                               next : 0..(Len(Listed) + 1)]]

NoQuery == [c \in Cube |-> None]

NoTree == [c \in Cube |-> 0]

\* A request with nothing under way.
At(phase) ==
    [phase |-> phase, tree |-> NoTree, area |-> None, top |-> None,
     open |-> <<>>, deps |-> [c \in Cube |-> {}], query |-> NoQuery,
     merging |-> None, fetched |-> NoCache, answer |-> None, late |-> FALSE]

Init ==
    /\ server = NoTree
    /\ caches = [o \in Objects |-> NoCache]
    /\ readers = [r \in Reader |-> At("start")]
    /\ writers = [w \in Writer |-> [cube |-> None, tree |-> NoTree, next |-> 0]]

InFlight(r) == readers[r].phase \in {"look", "save"}
Invalidating(w) == writers[w].next \in 1..Len(Listed)

-----------------------------------------------------------------------------
(* Reading.                                                                *)

\* The request takes the published version and plans the area.
Begin(r) ==
    /\ readers[r].phase = "start"
    /\ \E c \in Cube, a \in Area :
          readers' = [readers EXCEPT ![r] = [@ EXCEPT
              !.phase = "look", !.tree = server, !.area = a, !.top = c,
              !.late = \E w \in Writer : Invalidating(w)]]
    /\ UNCHANGED <<server, caches, writers>>

\* The cube whose area is looked up next: the one the rule of the innermost
\* writer's cube reads.
Current(s) == IF s.open = <<>> THEN s.top ELSE Source[Last(s.open)]

\* Plausible error: the source is added to the innermost writer only.
DependInner(deps, open, c) == [deps EXCEPT ![Last(open)] = @ \cup {c}]

\* setCacheDependence: the source cube is added to all open cache writers.
Depend(deps, open, c) ==
    [d \in Cube |-> IF d \in ToSet(open) THEN deps[d] \cup {c} ELSE deps[d]]

\* The value of the i-th open writer's cube when the innermost one's rule was
\* answered with entry e.
Computed(s, open, e, i) ==
    LET own == {open[j] : j \in i..Len(open)}
    IN  [e EXCEPT !.val = [c \in own \cup DOMAIN e.val |->
                              IF c \in own THEN s.tree[c] ELSE e.val[c]]]

\* The evaluation ends: every writer puts its area into the query cache.
Evaluated(r, open, e) ==
    LET s == readers[r]
    IN  [s EXCEPT
          !.phase = IF open = <<>> THEN "end" ELSE "save",
          !.open = <<>>,
          !.answer = IF open = <<>> THEN e ELSE Computed(s, open, e, 1),
          !.query = [c \in Cube |->
              IF c \in ToSet(open)
                THEN Computed(s, open, e, CHOOSE i \in 1..Len(open) : open[i] = c)
                ELSE None]]

\* The area is in the cache of the cube: a CACHE node serves it.
Hit(r) ==
    LET s == readers[r]
        c == Current(s)
        e == caches[<<c, s.tree[c]>>].areas[s.area]
    IN  /\ s.phase = "look"
        /\ e # None
        /\ readers' = [readers EXCEPT ![r] =
              Evaluated(r, s.open, IF s.open = <<>> THEN e ELSE [e EXCEPT !.chained = TRUE])]
        /\ UNCHANGED <<server, caches, writers>>

\* It is not: a cache writer is opened, and a rule asks for its source cube.
Miss(r) ==
    LET s == readers[r]
        c == Current(s)
        open == Append(s.open, c)
    IN  /\ s.phase = "look"
        /\ caches[<<c, s.tree[c]>>].areas[s.area] = None
        /\ readers' = [readers EXCEPT ![r] =
              IF Source[c] = None
                THEN Evaluated(r, open, [val |-> <<>>, late |-> FALSE, chained |-> FALSE])
                ELSE [@ EXCEPT !.open = open, !.deps = Depend(s.deps, open, Source[c])]]
        /\ UNCHANGED <<server, caches, writers>>

\* The request fails after it opened a writer: handleException switches saving
\* to the caches off.
Fail(r) ==
    /\ readers[r].phase = "look"
    /\ readers' = [readers EXCEPT ![r] = At("end")]
    /\ UNCHANGED <<server, caches, writers>>

-----------------------------------------------------------------------------
(* The end of a reading request (~QueryCache, once per cube it computed).  *)

\* Under the mutex of the cube's cache, its content is taken.
Fetch(r) ==
    LET s == readers[r]
    IN  /\ s.phase = "save"
        /\ s.merging = None
        /\ \E c \in Cube :
              /\ s.query[c] # None
              /\ readers' = [readers EXCEPT ![r] = [@ EXCEPT
                    !.merging = c, !.fetched = caches[<<c, s.tree[c]>>]]]
        /\ UNCHANGED <<server, caches, writers>>

\* What a request adds to what it took; all of it was stored late if it is.
Merged(s) ==
    LET c == s.merging
        areas == [s.fetched.areas EXCEPT ![s.area] = s.query[c]]
    IN  [areas |-> [a \in Area |->
              IF areas[a] # None /\ s.late THEN [areas[a] EXCEPT !.late = TRUE] ELSE areas[a]],
         sources |-> s.fetched.sources \cup s.deps[c]]

\* Under the mutex again, the merged content replaces the cache.
Store(r) ==
    LET s == readers[r]
        query == [s.query EXCEPT ![s.merging] = None]
    IN  /\ s.phase = "save"
        /\ s.merging # None
        /\ caches' = [caches EXCEPT ![<<s.merging, s.tree[s.merging]>>] = Merged(s)]
        /\ readers' = [readers EXCEPT ![r] =
              IF query = NoQuery
                THEN At("end")
                ELSE [@ EXCEPT !.merging = None, !.fetched = NoCache, !.query = query]]
        /\ UNCHANGED <<server, writers>>

-----------------------------------------------------------------------------
(* Writing.                                                                *)

\* Plausible error: a copied cube starts with the cache of the cube it copies.
CopiedWithContent(old) == old

\* The cache of the copy of a cube.
CopiedCache(old) == NoCache

\* The commit publishes a version with a copy of the cube.
Write(w) ==
    /\ writers[w].next = 0
    /\ \E c \in Cube :
          LET n == 1 + Cardinality({v \in Writer : writers[v].next > 0})
              tree == [server EXCEPT ![c] = n]
          IN  /\ server' = tree
              /\ caches' = [caches EXCEPT ![<<c, n>>] = CopiedCache(caches[<<c, server[c]>>])]
              /\ writers' = [writers EXCEPT ![w] = [cube |-> c, tree |-> tree, next |-> 1]]
    /\ readers' = [r \in Reader |->
          IF InFlight(r) THEN [readers[r] EXCEPT !.late = TRUE] ELSE readers[r]]

\* The next cube of the writer's version: cleared if it was written or depends
\* on the cube that was.
Invalidate(w) ==
    LET s == writers[w]
        c == Listed[s.next]
        o == <<c, s.tree[c]>>
    IN  /\ Invalidating(w)
        /\ caches' = [caches EXCEPT ![o] =
              IF c = s.cube \/ s.cube \in @.sources THEN NoCache ELSE @]
        /\ writers' = [writers EXCEPT ![w] =
              IF s.next = Len(Listed)
                THEN [cube |-> None, tree |-> NoTree, next |-> s.next + 1]
                ELSE [@ EXCEPT !.next = s.next + 1]]
        /\ UNCHANGED <<server, readers>>

-----------------------------------------------------------------------------
Next ==
    \/ \E r \in Reader : \/ Begin(r) \/ Hit(r) \/ Miss(r) \/ Fail(r)
                         \/ Fetch(r) \/ Store(r)
    \/ \E w \in Writer : Write(w) \/ Invalidate(w)

Spec == Init /\ [][Next]_vars

-----------------------------------------------------------------------------
(* Properties.                                                             *)

Settled == \A w \in Writer : ~ Invalidating(w)

Stale(c, a) ==
    LET e == caches[<<c, server[c]>>].areas[a]
    IN  e # None /\ \E d \in DOMAIN e.val : e.val[d] # server[d]

EntryOf(c, a) == caches[<<c, server[c]>>].areas[a]

\* Once the writes have cleared the caches, a cached area of the published
\* version is stale only if a request that a write overtook put it there, or if
\* the request that computed it took the value of a rule's cube from a cache.
\* ~QueryCache merges outside the mutex and setCacheDependence is the only
\* source of the dependences, so this relates every reader to every writer.
StaleOnlyByOverlap ==
    Settled => \A c \in Cube, a \in Area :
        Stale(c, a) => EntryOf(c, a).late \/ EntryOf(c, a).chained

\* However requests overlap, the part of an answer that the cube itself
\* contributes is of the version the request began with: a write of a cube is
\* never answered from the cache of the cube it replaced.
OwnPartOfVersion ==
    \A r \in Reader : readers[r].answer # None =>
        readers[r].answer.val[readers[r].top] = readers[r].tree[readers[r].top]

=============================================================================
