---------------------------- MODULE ValueCacheProofs ----------------------------
(***************************************************************************)
(* Theorems about the caches of the aggregates, for any cubes with any     *)
(* rules, and for any requests that read and write.                        *)
(***************************************************************************)
EXTENDS ValueCache, FiniteSetTheorems, TLAPS

-----------------------------------------------------------------------------
(* The parts of the invariants.                                            *)

\* An entry of the cache of object <<c, n>> has the cube's own part of write n.
\* When no part of it came from another cache, the other cubes it was computed
\* from are among the sources of the cache.
EntryOk(e, c, n, sources) ==
  e # None =>
    /\ c \in DOMAIN e.val
    /\ e.val[c] = n
    /\ ~ e.chained => DOMAIN e.val \ {c} \subseteq sources

\* Neither late nor chained, an entry is of the version tree.
Fresh(e, tree) ==
  e # None /\ ~ e.late /\ ~ e.chained => \A d \in DOMAIN e.val : e.val[d] = tree[d]

CachesOk ==
  \A c \in Cube, n \in Numbers, a \in Area :
    EntryOk(caches[<<c, n>>].areas[a], c, n, caches[<<c, n>>].sources)

\* Every open writer depends on the cubes that were opened after it and on the
\* one that is looked up next.
Opened(open, deps, c) ==
  /\ \A i \in 1 .. Len(open) : c \in deps[open[i]]
  /\ \A i, j \in 1 .. Len(open) : i < j => open[j] \in deps[open[i]]

Starting(s) ==
  s.phase = "start" => s.open = <<>> /\ s.answer = None /\ s.merging = None

Looking(s) ==
  s.phase = "look" =>
    /\ s.top \in Cube /\ s.area \in Area /\ Current(s) \in Cube
    /\ s.answer = None
    /\ s.merging = None
    /\ s.open # <<>> => s.open[1] = s.top
    /\ Opened(s.open, s.deps, Current(s))

Saving(s) ==
  s.phase = "save" =>
    /\ s.area \in Area
    /\ \A c \in Cube : /\ EntryOk(s.query[c], c, s.tree[c], s.deps[c])
                       /\ Fresh(s.query[c], s.tree)
    /\ s.merging # None =>
         /\ s.query[s.merging] # None
         /\ \A a \in Area : EntryOk(s.fetched.areas[a], s.merging, s.tree[s.merging],
                                    s.fetched.sources)

OwnAnswer(s) ==
  s.answer # None => s.top \in DOMAIN s.answer.val /\ s.answer.val[s.top] = s.tree[s.top]

ReaderOk(s) == Starting(s) /\ Looking(s) /\ Saving(s) /\ OwnAnswer(s)

ReadersOk == \A r \in Reader : ReaderOk(readers[r])

CacheInv == TypeOK /\ CachesOk /\ ReadersOk

-----------------------------------------------------------------------------
(* Types.                                                                  *)

LEMMA NumbersNat == Numbers \subseteq Nat /\ 0 \in Numbers
BY FS_CardinalityType, ValueCacheAssumption DEF Numbers

LEMMA ValuesDef ==
  /\ \A f \in Values : DOMAIN f \subseteq Cube /\ \A d \in DOMAIN f : f[d] \in Numbers
  /\ \A D \in SUBSET Cube : [D -> Numbers] \subseteq Values
BY DEF Values

LEMMA EntryType ==
  ASSUME NEW e \in Entries, e # None
  PROVE  e \in Entry
BY DEF Entries, Entry

LEMMA NoCacheType == NoCache \in Caches
BY DEF NoCache, Caches, Entries

LEMMA AtType ==
  ASSUME NEW phase \in Phases
  PROVE  At(phase) \in ReaderStates
BY NoCacheType, NumbersNat DEF At, ReaderStates, NoTree, NoQuery, Entries

LEMMA ComputedType ==
  ASSUME NEW s \in ReaderStates, NEW open \in Seq(Cube), NEW e \in Entries, e # None,
         NEW i \in 1 .. Len(open)
  PROVE  /\ Computed(s, open, e, i) \in Entry
         /\ Computed(s, open, e, i).late = e.late
         /\ Computed(s, open, e, i).chained = e.chained
         /\ DOMAIN Computed(s, open, e, i).val = {open[j] : j \in i .. Len(open)} \cup DOMAIN e.val
         /\ \A j \in i .. Len(open) : Computed(s, open, e, i).val[open[j]] = s.tree[open[j]]
<1> DEFINE own == {open[j] : j \in i .. Len(open)}
           val == [c \in own \cup DOMAIN e.val |->
                     IF c \in own THEN s.tree[c] ELSE e.val[c]]
<1>1. e \in Entry
  BY EntryType
<1>2. own \subseteq Cube
  OBVIOUS
<1>3. DOMAIN e.val \subseteq Cube /\ \A d \in DOMAIN e.val : e.val[d] \in Numbers
  BY <1>1, ValuesDef DEF Entry
<1>4. s.tree \in [Cube -> Numbers]
  BY DEF ReaderStates
<1>5. val \in [own \cup DOMAIN e.val -> Numbers]
  BY <1>2, <1>3, <1>4
<1>6. val \in Values
  BY <1>2, <1>3, <1>5, ValuesDef
<1>7. Computed(s, open, e, i) = [e EXCEPT !.val = val]
  BY DEF Computed
<1>8. \A j \in i .. Len(open) : val[open[j]] = s.tree[open[j]]
  OBVIOUS
<1>9. DOMAIN val = own \cup DOMAIN e.val
  OBVIOUS
<1> HIDE DEF own, val
<1>10. Computed(s, open, e, i).val = val
  BY <1>1, <1>7 DEF Entry
<1> QED
  BY <1>1, <1>6, <1>7, <1>8, <1>9, <1>10 DEF own, Entry

LEMMA EvaluatedType ==
  ASSUME TypeOK, NEW r \in Reader, NEW open \in Seq(Cube), NEW e \in Entries, e # None
  PROVE  Evaluated(r, open, e) \in ReaderStates
<1> DEFINE s == readers[r]
           first(c) == CHOOSE i \in 1 .. Len(open) : open[i] = c
           answer == IF open = <<>> THEN e ELSE Computed(s, open, e, 1)
           query == [c \in Cube |-> IF c \in ToSet(open)
                                      THEN Computed(s, open, e, first(c)) ELSE None]
           phase == IF open = <<>> THEN "end" ELSE "save"
<1>1. s \in ReaderStates
  BY DEF TypeOK
<1>2. answer \in Entries
  <2>1. CASE open = <<>>
    BY <2>1
  <2>2. CASE open # <<>>
    <3>1. 1 \in 1 .. Len(open)
      BY <2>2
    <3> QED
      BY <1>1, <2>2, <3>1, ComputedType DEF Entries, Entry
  <2> QED
    BY <2>1, <2>2
<1>3. query \in [Cube -> Entries]
  <2>1. ASSUME NEW c \in Cube, c \in ToSet(open)
        PROVE  Computed(s, open, e, first(c)) \in Entries
    <3>1. first(c) \in 1 .. Len(open)
      BY <2>1 DEF ToSet
    <3> HIDE DEF first, s
    <3> QED
      BY <1>1, <3>1, ComputedType DEF Entries, Entry
  <2>2. None \in Entries
    BY DEF Entries, Entry
  <2> HIDE DEF first, s
  <2> QED
    BY <2>1, <2>2
<1>4. Evaluated(r, open, e) = [s EXCEPT !.phase = phase, !.open = <<>>,
                                        !.answer = answer, !.query = query]
  BY DEF Evaluated
<1>5. phase \in Phases
  BY DEF Phases
<1>6. <<>> \in Seq(Cube)
  OBVIOUS
<1> HIDE DEF s, answer, query, phase
<1> QED
  BY <1>1, <1>2, <1>3, <1>4, <1>5, <1>6 DEF ReaderStates

LEMMA EvaluatedOk ==
  ASSUME TypeOK, ReadersOk, NEW r \in Reader, readers[r].phase = "look",
         NEW open \in Seq(Cube), NEW e \in Entries, e # None,
         open = <<>> => /\ readers[r].top \in DOMAIN e.val
                        /\ e.val[readers[r].top] = readers[r].tree[readers[r].top],
         open # <<>> => open[1] = readers[r].top,
         ~ e.chained => DOMAIN e.val = {},
         \A i, j \in 1 .. Len(open) : i < j => open[j] \in readers[r].deps[open[i]]
  PROVE  ReaderOk(Evaluated(r, open, e))
<1> DEFINE s == readers[r]
           t == Evaluated(r, open, e)
           first(c) == CHOOSE i \in 1 .. Len(open) : open[i] = c
<1>1. s \in ReaderStates /\ ReaderOk(s) /\ t \in ReaderStates
  BY EvaluatedType DEF TypeOK, ReadersOk
<1>2. /\ t.phase = (IF open = <<>> THEN "end" ELSE "save")
      /\ t.answer = (IF open = <<>> THEN e ELSE Computed(s, open, e, 1))
      /\ \A c \in Cube : t.query[c] = IF c \in ToSet(open)
                                        THEN Computed(s, open, e, first(c)) ELSE None
      /\ t.top = s.top /\ t.tree = s.tree /\ t.deps = s.deps /\ t.area = s.area
      /\ t.merging = s.merging
  BY <1>1 DEF Evaluated, ReaderStates
<1> HIDE DEF t
<1>3. Starting(t) /\ Looking(t)
  BY <1>2 DEF Starting, Looking
<1>4. OwnAnswer(t)
  <2>1. CASE open = <<>>
    BY <1>2, <2>1 DEF OwnAnswer
  <2>2. CASE open # <<>>
    <3>1. 1 \in 1 .. Len(open) /\ t.answer = Computed(s, open, e, 1)
      BY <1>2, <2>2
    <3>2. /\ open[1] \in DOMAIN Computed(s, open, e, 1).val
          /\ Computed(s, open, e, 1).val[open[1]] = s.tree[open[1]]
      <4> HIDE DEF s
      <4> QED
        BY <1>1, <3>1, ComputedType
    <3> QED
      BY <1>2, <2>2, <3>1, <3>2 DEF OwnAnswer
  <2> QED
    BY <2>1, <2>2
<1>5. ASSUME NEW c \in Cube
      PROVE  EntryOk(t.query[c], c, s.tree[c], s.deps[c]) /\ Fresh(t.query[c], s.tree)
  <2>1. CASE c \notin ToSet(open)
    BY <1>2, <2>1 DEF EntryOk, Fresh
  <2>2. CASE c \in ToSet(open)
    <3> DEFINE i == first(c)
               q == Computed(s, open, e, i)
    <3>1. i \in 1 .. Len(open) /\ open[i] = c
      BY <2>2 DEF ToSet
    <3>2. t.query[c] = q
      BY <1>2, <2>2
    <3>3. \A j \in i .. Len(open) : j = i \/ open[j] \in s.deps[c]
      <4> HIDE DEF i
      <4> QED
        BY <3>1
    <3> HIDE DEF i, first, s
    <3>4. /\ q.chained = e.chained
          /\ DOMAIN q.val = {open[j] : j \in i .. Len(open)} \cup DOMAIN e.val
          /\ \A j \in i .. Len(open) : q.val[open[j]] = s.tree[open[j]]
      BY <1>1, <3>1, ComputedType
    <3> HIDE DEF q
    <3>5. i \in i .. Len(open)
      BY <3>1
    <3>6. EntryOk(q, c, s.tree[c], s.deps[c])
      <4>1. c \in DOMAIN q.val /\ q.val[c] = s.tree[c]
        BY <3>1, <3>4, <3>5
      <4>2. ~ q.chained => DOMAIN q.val \ {c} \subseteq s.deps[c]
        BY <3>1, <3>3, <3>4
      <4> QED
        BY <4>1, <4>2 DEF EntryOk
    <3>7. Fresh(q, s.tree)
      BY <3>4 DEF Fresh
    <3> QED
      BY <3>2, <3>6, <3>7
  <2> QED
    BY <2>1, <2>2
<1>6. Saving(t)
  <2>1. s.area \in Area /\ s.merging = None
    BY <1>1 DEF ReaderOk, Looking
  <2> QED
    BY <1>2, <1>5, <2>1 DEF Saving
<1> QED
  BY <1>3, <1>4, <1>6 DEF ReaderOk, t

-----------------------------------------------------------------------------
(* The steps of a reader.                                                  *)

LEMMA BeginOk ==
  ASSUME CacheInv, NEW r \in Reader, Begin(r)
  PROVE  \E t \in ReaderStates : ReaderOk(t) /\ readers' = [readers EXCEPT ![r] = t]
<1> DEFINE s == readers[r]
<1>1. s \in ReaderStates /\ ReaderOk(s) /\ s.phase = "start"
  BY DEF CacheInv, TypeOK, ReadersOk, Begin
<1>2. PICK late \in BOOLEAN, c \in Cube, a \in Area :
        readers' = [readers EXCEPT ![r] = [s EXCEPT !.phase = "look", !.tree = server,
                       !.area = a, !.top = c, !.late = late]]
  BY DEF Begin
<1> DEFINE t == [s EXCEPT !.phase = "look", !.tree = server, !.area = a, !.top = c,
                          !.late = late]
<1>3. t \in ReaderStates
  BY <1>1 DEF ReaderStates, Phases, CacheInv, TypeOK
<1>4. /\ t.phase = "look" /\ t.top = c /\ t.area = a /\ t.open = <<>>
      /\ t.answer = None /\ t.merging = None
  BY <1>1 DEF ReaderStates, ReaderOk, Starting
<1> HIDE DEF t
<1>5. Looking(t)
  BY <1>4 DEF Looking, Current, Opened
<1>6. ReaderOk(t)
  BY <1>4, <1>5 DEF ReaderOk, Starting, Saving, OwnAnswer
<1> QED
  BY <1>2, <1>3, <1>6 DEF t

LEMMA LookedUp ==
  ASSUME CacheInv, NEW r \in Reader, readers[r].phase = "look"
  PROVE  LET s == readers[r]
             c == Current(s)
         IN  /\ s \in ReaderStates /\ c \in Cube /\ s.tree[c] \in Numbers /\ s.area \in Area
             /\ caches[<<c, s.tree[c]>>] \in Caches
             /\ caches[<<c, s.tree[c]>>].areas[s.area] \in Entries
             /\ EntryOk(caches[<<c, s.tree[c]>>].areas[s.area], c, s.tree[c],
                        caches[<<c, s.tree[c]>>].sources)
             /\ s.top \in Cube
             /\ s.open \in Seq(Cube)
             /\ s.open = <<>> => c = s.top
             /\ s.open # <<>> => s.open[1] = s.top
             /\ Opened(s.open, s.deps, c)
             /\ s.answer = None /\ s.merging = None
<1> DEFINE s == readers[r]
           c == Current(s)
<1>1. s \in ReaderStates /\ Looking(s)
  BY DEF CacheInv, TypeOK, ReadersOk, ReaderOk
<1>2. s.tree \in [Cube -> Numbers] /\ s.open \in Seq(Cube)
  BY <1>1 DEF ReaderStates
<1>3. c \in Cube /\ s.area \in Area
  BY <1>1 DEF Looking
<1>4. caches[<<c, s.tree[c]>>] \in Caches
  <2>1. <<c, s.tree[c]>> \in Objects
    BY <1>2, <1>3 DEF Objects
  <2> QED
    BY <2>1 DEF CacheInv, TypeOK
<1>5. s.open = <<>> => c = s.top
  BY DEF Current
<1>6. EntryOk(caches[<<c, s.tree[c]>>].areas[s.area], c, s.tree[c],
              caches[<<c, s.tree[c]>>].sources)
  BY <1>2, <1>3 DEF CacheInv, CachesOk
<1>7. caches[<<c, s.tree[c]>>].areas[s.area] \in Entries
  BY <1>3, <1>4 DEF Caches
<1>8. /\ s.top \in Cube
      /\ s.answer = None /\ s.merging = None
      /\ s.open # <<>> => s.open[1] = s.top
      /\ Opened(s.open, s.deps, c)
  BY <1>1 DEF Looking
<1> HIDE DEF s, c
<1> QED
  BY <1>1, <1>2, <1>3, <1>4, <1>5, <1>6, <1>7, <1>8 DEF s, c

LEMMA HitOk ==
  ASSUME CacheInv, NEW r \in Reader, Hit(r)
  PROVE  \E t \in ReaderStates : ReaderOk(t) /\ readers' = [readers EXCEPT ![r] = t]
<1> DEFINE s == readers[r]
           c == Current(s)
           e == caches[<<c, s.tree[c]>>].areas[s.area]
           f == IF s.open = <<>> THEN e ELSE [e EXCEPT !.chained = TRUE]
<1>1. s.phase = "look" /\ e # None /\ readers' = [readers EXCEPT ![r] = Evaluated(r, s.open, f)]
  BY SMTT(30) DEF Hit
<1>2. /\ e \in Entries /\ EntryOk(e, c, s.tree[c], caches[<<c, s.tree[c]>>].sources)
      /\ s.open \in Seq(Cube)
      /\ s.open = <<>> => c = s.top
      /\ s.open # <<>> => s.open[1] = s.top
      /\ Opened(s.open, s.deps, c)
  BY <1>1, LookedUp, SMTT(30)
<1>3. f \in Entries /\ f # None /\ (s.open # <<>> => f.chained) /\ (s.open = <<>> => f = e)
  BY <1>1, <1>2, EntryType, NoneAssumption, ZenonT(40) DEF Entries, Entry
<1>4. s.open = <<>> => s.top \in DOMAIN f.val /\ f.val[s.top] = s.tree[s.top]
  BY <1>1, <1>2, <1>3, Zenon DEF EntryOk
<1> HIDE DEF c, e, f
<1>5. Evaluated(r, s.open, f) \in ReaderStates
  BY <1>2, <1>3, EvaluatedType DEF CacheInv
<1>6. CASE s.open # <<>>
  BY <1>1, <1>2, <1>3, <1>5, <1>6, EvaluatedOk DEF CacheInv, Opened
<1>7. CASE s.open = <<>>
  <2> DEFINE t == Evaluated(r, s.open, f)
  <2>1. s \in ReaderStates
    BY DEF CacheInv, TypeOK
  <2>2. /\ t.phase = "end" /\ t.answer = f /\ t.top = s.top /\ t.tree = s.tree
    BY <1>7, <2>1 DEF Evaluated, ReaderStates
  <2> HIDE DEF t
  <2>3. ReaderOk(t)
    BY <1>4, <1>7, <2>2 DEF ReaderOk, Starting, Looking, Saving, OwnAnswer
  <2> QED
    BY <1>1, <1>5, <2>3 DEF t
<1> QED
  BY <1>6, <1>7

LEMMA MissOk ==
  ASSUME CacheInv, NEW r \in Reader, Miss(r)
  PROVE  \E t \in ReaderStates : ReaderOk(t) /\ readers' = [readers EXCEPT ![r] = t]
<1> DEFINE s == readers[r]
           c == Current(s)
           open == Append(s.open, c)
           e == [val |-> <<>>, late |-> FALSE, chained |-> FALSE]
           deps == Depend(s.deps, open, Source[c])
<1>1. s.phase = "look"
  BY DEF Miss
<1>2. /\ s \in ReaderStates
      /\ c \in Cube
      /\ s.open \in Seq(Cube)
      /\ s.top \in Cube /\ s.area \in Area
      /\ s.open = <<>> => c = s.top
      /\ s.open # <<>> => s.open[1] = s.top
      /\ Opened(s.open, s.deps, c)
      /\ s.answer = None /\ s.merging = None
  BY <1>1, LookedUp
<1>3. s.deps \in [Cube -> SUBSET Cube]
  BY <1>2 DEF ReaderStates
<1> HIDE DEF s, c
<1>4. /\ open \in Seq(Cube) /\ open # <<>> /\ open[1] = s.top
      /\ Len(open) = Len(s.open) + 1 /\ open[Len(open)] = c
      /\ \A i \in 1 .. Len(s.open) : open[i] = s.open[i]
  <2>1. open \in Seq(Cube) /\ Len(open) = Len(s.open) + 1 /\ open[Len(open)] = c
    BY <1>2
  <2>2. \A i \in 1 .. Len(s.open) : open[i] = s.open[i]
    BY <1>2
  <2>3. CASE s.open = <<>>
    BY <1>2, <2>1, <2>2, <2>3
  <2>4. CASE s.open # <<>>
    BY <1>2, <2>1, <2>2, <2>4
  <2> QED
    BY <2>1, <2>2, <2>3, <2>4
<1> HIDE DEF open
<1>5. \A i, j \in 1 .. Len(open) : i < j => open[j] \in s.deps[open[i]]
  <2> SUFFICES ASSUME NEW i \in 1 .. Len(open), NEW j \in 1 .. Len(open), i < j
               PROVE  open[j] \in s.deps[open[i]]
    OBVIOUS
  <2>1. i \in 1 .. Len(s.open)
    BY <1>2, <1>4
  <2>2. CASE j = Len(open)
    BY <1>2, <1>4, <2>1, <2>2 DEF Opened
  <2>3. CASE j # Len(open)
    <3>1. j \in 1 .. Len(s.open)
      BY <1>2, <1>4, <2>3
    <3> QED
      BY <1>2, <1>4, <2>1, <3>1 DEF Opened
  <2> QED
    BY <2>2, <2>3
<1>6. CASE Source[c] = None
  <2>1. readers' = [readers EXCEPT ![r] = Evaluated(r, open, e)]
    BY <1>6 DEF Miss, s, c, open
  <2>2. e \in Entry /\ e # None /\ DOMAIN e.val = {}
    <3>1. <<>> \in [{} -> Numbers]
      OBVIOUS
    <3>2. <<>> \in Values
      BY <3>1, ValuesDef
    <3>3. e \in Entry
      BY <3>2 DEF Entry
    <3>4. DOMAIN <<>> = {}
      BY <3>1
    <3>5. DOMAIN e.val = {}
      BY <3>4
    <3> QED
      BY <3>3, <3>5, NoneAssumption
  <2> HIDE DEF e
  <2>3. Evaluated(r, open, e) \in ReaderStates
    BY <1>4, <2>2, EvaluatedType DEF CacheInv, Entries
  <2>4. ReaderOk(Evaluated(r, open, e))
    BY <1>1, <1>4, <1>5, <2>2, EvaluatedOk DEF CacheInv, Entries, s
  <2> QED
    BY <2>1, <2>3, <2>4
<1>7. CASE Source[c] # None
  <2> DEFINE t == [s EXCEPT !.open = open, !.deps = deps]
  <2>1. readers' = [readers EXCEPT ![r] = t]
    BY <1>7 DEF Miss, s, c, open
  <2>2. Source[c] \in Cube
    BY <1>2, <1>7, ValueCacheAssumption
  <2>3. deps \in [Cube -> SUBSET Cube]
    BY <1>3, <2>2 DEF Depend
  <2>4. \A d \in ToSet(open) : Source[c] \in deps[d] /\ s.deps[d] \subseteq deps[d]
    BY <1>4, <2>2 DEF Depend, ToSet
  <2>5. \A i \in 1 .. Len(open) : open[i] \in ToSet(open)
    BY <1>4 DEF ToSet
  <2> HIDE DEF deps
  <2>6. Opened(open, deps, Source[c])
    BY <1>5, <2>4, <2>5 DEF Opened
  <2>7. t \in ReaderStates
    BY <1>2, <1>4, <2>3 DEF ReaderStates
  <2>8. /\ t.phase = "look" /\ t.top = s.top /\ t.area = s.area /\ t.open = open
        /\ t.answer = None /\ t.merging = None /\ t.deps = deps
    BY <1>1, <1>2 DEF ReaderStates, s
  <2>9. Current(t) = Source[c]
    BY <1>4, <2>8 DEF Current, Last
  <2> HIDE DEF t
  <2>10. Looking(t)
    BY <1>2, <1>4, <2>2, <2>6, <2>8, <2>9 DEF Looking
  <2>11. ReaderOk(t)
    BY <2>8, <2>10 DEF ReaderOk, Starting, Saving, OwnAnswer
  <2> QED
    BY <2>1, <2>7, <2>11
<1> QED
  BY <1>6, <1>7

LEMMA EndOk ==
  At("end") \in ReaderStates /\ ReaderOk(At("end"))
<1>1. At("end").phase = "end" /\ At("end").answer = None
  BY DEF At
<1>2. At("end") \in ReaderStates
  BY AtType DEF Phases
<1> QED
  BY <1>1, <1>2 DEF ReaderOk, Starting, Looking, Saving, OwnAnswer

LEMMA FetchOk ==
  ASSUME CacheInv, NEW r \in Reader, Fetch(r)
  PROVE  \E t \in ReaderStates : ReaderOk(t) /\ readers' = [readers EXCEPT ![r] = t]
<1> DEFINE s == readers[r]
<1>1. s \in ReaderStates /\ ReaderOk(s) /\ s.phase = "save"
  BY DEF CacheInv, TypeOK, ReadersOk, Fetch
<1>2. PICK c \in Cube :
        /\ s.query[c] # None
        /\ readers' = [readers EXCEPT ![r] = [s EXCEPT !.merging = c,
                                                 !.fetched = caches[<<c, s.tree[c]>>]]]
  BY DEF Fetch
<1> DEFINE o == <<c, s.tree[c]>>
           t == [s EXCEPT !.merging = c, !.fetched = caches[o]]
<1>3. s.tree[c] \in Numbers
  BY <1>1 DEF ReaderStates
<1>4. caches[o] \in Caches
  BY <1>3 DEF CacheInv, TypeOK, Objects
<1>5. \A a \in Area : EntryOk(caches[o].areas[a], c, s.tree[c], caches[o].sources)
  BY <1>3 DEF CacheInv, CachesOk
<1> HIDE DEF s, o
<1>6. t \in ReaderStates
  BY <1>1, <1>4 DEF ReaderStates
<1>7. /\ t.phase = "save" /\ t.area = s.area /\ t.query = s.query /\ t.tree = s.tree
      /\ t.deps = s.deps /\ t.merging = c /\ t.fetched = caches[o] /\ t.answer = s.answer
      /\ t.top = s.top
  BY <1>1 DEF ReaderStates
<1> HIDE DEF t
<1>8. Saving(t)
  BY <1>1, <1>2, <1>5, <1>7 DEF ReaderOk, Saving
<1>9. OwnAnswer(t)
  BY <1>1, <1>7 DEF ReaderOk, OwnAnswer
<1> QED
  BY <1>2, <1>6, <1>7, <1>8, <1>9 DEF ReaderOk, Starting, Looking, t, o

LEMMA MergedOk ==
  ASSUME NEW s \in ReaderStates, ReaderOk(s), s.phase = "save", s.merging # None
  PROVE  /\ Merged(s) \in Caches
         /\ s.merging \in Cube /\ s.tree[s.merging] \in Numbers
         /\ s.fetched.sources \subseteq Merged(s).sources
         /\ \A a \in Area : EntryOk(Merged(s).areas[a], s.merging, s.tree[s.merging],
                                     Merged(s).sources)
         /\ \A a \in Area : LET e == Merged(s).areas[a]
                                 f == IF a = s.area THEN s.query[s.merging]
                                                    ELSE s.fetched.areas[a]
                             IN  e # None => /\ f # None
                                             /\ e.val = f.val /\ e.chained = f.chained
                                             /\ e.late = (s.late \/ f.late)
<1> DEFINE c == s.merging
           areas == [s.fetched.areas EXCEPT ![s.area] = s.query[c]]
           marked == [a \in Area |-> IF areas[a] # None /\ s.late
                                        THEN [areas[a] EXCEPT !.late = TRUE] ELSE areas[a]]
           sources == s.fetched.sources \cup s.deps[c]
<1>1. /\ c \in Cube /\ s.tree[c] \in Numbers /\ s.deps[c] \subseteq Cube
      /\ s.fetched \in Caches /\ s.query[c] \in Entries /\ s.late \in BOOLEAN
  BY DEF ReaderStates
<1>2. s.fetched.areas \in [Area -> Entries] /\ s.fetched.sources \subseteq Cube
  BY <1>1 DEF Caches
<1>3. s.area \in Area
  BY DEF ReaderOk, Saving
<1>4. areas \in [Area -> Entries]
  BY <1>1, <1>2
<1>5. ASSUME NEW a \in Area
      PROVE  areas[a] = IF a = s.area THEN s.query[c] ELSE s.fetched.areas[a]
  BY <1>2, <1>3
<1>6. Merged(s) = [areas |-> marked, sources |-> sources]
  BY DEF Merged
<1>7. Merged(s).areas = marked /\ Merged(s).sources = sources
  BY <1>6
<1>8. /\ EntryOk(s.query[c], c, s.tree[c], s.deps[c])
      /\ \A a \in Area : EntryOk(s.fetched.areas[a], c, s.tree[c], s.fetched.sources)
  BY <1>1 DEF ReaderOk, Saving
<1> HIDE DEF areas
<1>9. ASSUME NEW a \in Area
      PROVE  /\ marked[a] \in Entries
             /\ marked[a] = None <=> areas[a] = None
             /\ areas[a] # None => /\ marked[a].val = areas[a].val
                                   /\ marked[a].chained = areas[a].chained
                                   /\ marked[a].late = (s.late \/ areas[a].late)
  <2> DEFINE f == areas[a]
  <2>1. marked[a] = IF f # None /\ s.late THEN [f EXCEPT !.late = TRUE] ELSE f
    OBVIOUS
  <2>2. f \in Entries
    BY <1>4
  <2> HIDE DEF f, marked
  <2>3. CASE f = None
    BY <2>1, <2>2, <2>3 DEF f
  <2>4. CASE f # None
    <3>1. f \in Entry
      BY <2>2, <2>4, EntryType
    <3>2. [f EXCEPT !.late = TRUE] \in Entry
      BY <3>1 DEF Entry
    <3>3. f.late \in BOOLEAN
      BY <3>1 DEF Entry
    <3>4. CASE s.late
      BY <2>1, <2>4, <3>1, <3>2, <3>4, NoneAssumption DEF f, Entry, Entries
    <3>5. CASE ~ s.late
      BY <1>1, <2>1, <2>4, <3>1, <3>3, <3>5 DEF f, Entries
    <3> QED
      BY <3>4, <3>5
  <2> QED
    BY <2>3, <2>4
<1>10. marked \in [Area -> Entries]
  BY <1>9
<1> HIDE DEF marked, sources
<1>11. Merged(s) \in Caches
  <2>1. sources \subseteq Cube
    BY <1>1, <1>2 DEF sources
  <2> QED
    BY <1>6, <1>10, <2>1 DEF Caches
<1>12. ASSUME NEW a \in Area
       PROVE  EntryOk(Merged(s).areas[a], c, s.tree[c], sources)
  <2>1. EntryOk(areas[a], c, s.tree[c], sources)
    BY <1>5, <1>8 DEF EntryOk, sources
  <2> QED
    BY <1>7, <1>9, <2>1 DEF EntryOk
<1>13. ASSUME NEW a \in Area
       PROVE  LET e == Merged(s).areas[a]
                  f == IF a = s.area THEN s.query[c] ELSE s.fetched.areas[a]
              IN  e # None => /\ f # None
                              /\ e.val = f.val /\ e.chained = f.chained
                              /\ e.late = (s.late \/ f.late)
  BY <1>5, <1>7, <1>9
<1>14. s.fetched.sources \subseteq sources
  BY DEF sources
<1> HIDE DEF c
<1> QED
  BY <1>1, <1>7, <1>11, <1>12, <1>13, <1>14 DEF c

LEMMA StoreOk ==
  ASSUME CacheInv, NEW r \in Reader, Store(r)
  PROVE  \E t \in ReaderStates : ReaderOk(t) /\ readers' = [readers EXCEPT ![r] = t]
<1> DEFINE s == readers[r]
           query == [s.query EXCEPT ![s.merging] = None]
           t == [s EXCEPT !.merging = None, !.fetched = NoCache, !.query = query]
<1>1. /\ s \in ReaderStates /\ ReaderOk(s) /\ s.phase = "save" /\ s.merging # None
      /\ s.query \in [Cube -> Entries]
  BY DEF CacheInv, TypeOK, ReadersOk, Store, ReaderStates
<1>2. CASE query = NoQuery
  <2>1. readers' = [readers EXCEPT ![r] = At("end")]
    BY <1>2 DEF Store
  <2> QED
    BY <2>1, EndOk
<1>3. CASE query # NoQuery
  <2>1. readers' = [readers EXCEPT ![r] = t]
    BY <1>3 DEF Store
  <2>2. query \in [Cube -> Entries] /\ \A c \in Cube : query[c] \in {s.query[c], None}
    BY <1>1 DEF Entries
  <2> HIDE DEF s, query
  <2>3. t \in ReaderStates
    BY <1>1, <2>2, NoCacheType DEF ReaderStates
  <2>4. /\ t.phase = "save" /\ t.area = s.area /\ t.query = query /\ t.tree = s.tree
        /\ t.deps = s.deps /\ t.merging = None /\ t.answer = s.answer /\ t.top = s.top
    BY <1>1 DEF ReaderStates
  <2> HIDE DEF t
  <2>5. Saving(t)
    BY <1>1, <2>2, <2>4 DEF ReaderOk, Saving, EntryOk, Fresh
  <2>6. OwnAnswer(t)
    BY <1>1, <2>4 DEF ReaderOk, OwnAnswer
  <2> QED
    BY <2>1, <2>3, <2>4, <2>5, <2>6 DEF ReaderOk, Starting, Looking
<1> QED
  BY <1>2, <1>3

-----------------------------------------------------------------------------
(* The steps of a writer.                                                  *)

Written == 1 + Cardinality({v \in Writer : writers[v].next > 0})

LEMMA WrittenType ==
  ASSUME TypeOK, NEW w \in Writer, writers[w].next = 0
  PROVE  Written \in Numbers
<1> DEFINE S == {v \in Writer : writers[v].next > 0}
<1>1. S \subseteq Writer \ {w}
  OBVIOUS
<1>2. IsFiniteSet(Writer) /\ IsFiniteSet(Writer \ {w})
  BY ValueCacheAssumption, FS_RemoveElement
<1>3. Cardinality(S) <= Cardinality(Writer \ {w}) /\ IsFiniteSet(S)
  BY <1>1, <1>2, FS_Subset
<1>4. Cardinality(Writer \ {w}) = Cardinality(Writer) - 1
  BY <1>2, FS_RemoveElement
<1>5. Cardinality(S) \in Nat /\ Cardinality(Writer \ {w}) \in Nat /\ Cardinality(Writer) \in Nat
  BY <1>2, <1>3, FS_CardinalityType
<1> HIDE DEF S
<1>6. 1 + Cardinality(S) \in 0 .. Cardinality(Writer)
  BY <1>3, <1>4, <1>5
<1> QED
  BY <1>6 DEF Written, S, Numbers

LEMMA WriteOk ==
  ASSUME CacheInv, NEW w \in Writer, Write(w)
  PROVE  \E c \in Cube :
           /\ Written \in Numbers
           /\ server' = [server EXCEPT ![c] = Written]
           /\ caches' = [caches EXCEPT ![<<c, Written>>] = NoCache]
           /\ writers' = [writers EXCEPT ![w] =
                 [cube |-> c, tree |-> [server EXCEPT ![c] = Written], next |-> 1]]
BY WrittenType DEF CacheInv, Write, Written, CopiedCache

LEMMA WriteKeeps ==
  ASSUME CacheInv, NEW w \in Writer, Write(w)
  PROVE  CacheInv'
<1>1. PICK c \in Cube :
        /\ Written \in Numbers
        /\ server' = [server EXCEPT ![c] = Written]
        /\ caches' = [caches EXCEPT ![<<c, Written>>] = NoCache]
        /\ writers' = [writers EXCEPT ![w] =
              [cube |-> c, tree |-> [server EXCEPT ![c] = Written], next |-> 1]]
  BY WriteOk
<1> DEFINE n == Written
<1> HIDE DEF n
<1>2. /\ server \in [Cube -> Numbers] /\ caches \in [Objects -> Caches]
      /\ readers \in [Reader -> ReaderStates]
      /\ writers \in [Writer -> [cube : Cube \cup {None}, tree : [Cube -> Numbers],
                                 next : 0 .. (Len(Listed) + 1)]]
  BY DEF CacheInv, TypeOK
<1>3. server' \in [Cube -> Numbers]
  BY <1>1, <1>2
<1>4. caches' \in [Objects -> Caches]
  BY <1>1, <1>2, NoCacheType
<1>5. writers' \in [Writer -> [cube : Cube \cup {None}, tree : [Cube -> Numbers],
                              next : 0 .. (Len(Listed) + 1)]]
  <2>1. Len(Listed) \in Nat /\ 1 \in 0 .. (Len(Listed) + 1)
    BY ValueCacheAssumption
  <2>2. [server EXCEPT ![c] = Written] \in [Cube -> Numbers]
    BY <1>1, <1>2
  <2> QED
    BY <1>1, <1>2, <2>1, <2>2
<1>6. ASSUME NEW r \in Reader
      PROVE  readers'[r] \in ReaderStates /\ ReaderOk(readers'[r])
  <2> DEFINE s == readers[r]
             t == [s EXCEPT !.late = TRUE]
  <2>1. s \in ReaderStates /\ ReaderOk(s)
    BY <1>2 DEF CacheInv, ReadersOk
  <2>2. readers'[r] \in {s, t}
    BY DEF Write
  <2> HIDE DEF s
  <2>3. t \in ReaderStates
    BY <2>1 DEF ReaderStates
  <2>4. /\ t.phase = s.phase /\ t.tree = s.tree /\ t.area = s.area /\ t.top = s.top
        /\ t.open = s.open /\ t.deps = s.deps /\ t.query = s.query /\ t.merging = s.merging
        /\ t.fetched = s.fetched /\ t.answer = s.answer
    BY <2>1 DEF ReaderStates
  <2> HIDE DEF t
  <2>5. ReaderOk(t)
    BY <2>1, <2>4 DEF ReaderOk, Starting, Looking, Saving, OwnAnswer, Current
  <2> QED
    BY <2>1, <2>2, <2>3, <2>5
<1>7. readers' \in [Reader -> ReaderStates]
  <2>1. readers' = [r \in Reader |-> readers'[r]]
    BY DEF Write
  <2> QED
    BY <1>6, <2>1
<1>8. ASSUME NEW d \in Cube, NEW m \in Numbers, NEW a \in Area
      PROVE  EntryOk(caches'[<<d, m>>].areas[a], d, m, caches'[<<d, m>>].sources)
  <2>1. CASE caches'[<<d, m>>] = NoCache
    BY <2>1 DEF NoCache, EntryOk
  <2>2. CASE caches'[<<d, m>>] = caches[<<d, m>>]
    BY <2>2 DEF CacheInv, CachesOk
  <2>3. <<d, m>> \in Objects
    BY DEF Objects
  <2> QED
    BY <1>1, <1>2, <2>1, <2>2, <2>3
<1> QED
  BY <1>3, <1>4, <1>5, <1>6, <1>7, <1>8 DEF CacheInv, TypeOK, CachesOk, ReadersOk

LEMMA InvalidateKeeps ==
  ASSUME CacheInv, NEW w \in Writer, Invalidate(w)
  PROVE  CacheInv'
<1> DEFINE s == writers[w]
           c == Listed[s.next]
           o == <<c, s.tree[c]>>
<1>1. /\ caches \in [Objects -> Caches]
      /\ writers \in [Writer -> [cube : Cube \cup {None}, tree : [Cube -> Numbers],
                                 next : 0 .. (Len(Listed) + 1)]]
  BY DEF CacheInv, TypeOK
<1>2. caches' = [caches EXCEPT ![o] =
         IF c = s.cube \/ s.cube \in caches[o].sources THEN NoCache ELSE caches[o]]
  BY DEF Invalidate
<1>3. server' = server /\ readers' = readers
  BY DEF Invalidate
<1>4. caches' \in [Objects -> Caches]
  BY <1>1, <1>2, NoCacheType
<1>5. writers' \in [Writer -> [cube : Cube \cup {None}, tree : [Cube -> Numbers],
                              next : 0 .. (Len(Listed) + 1)]]
  <2>1. s.next \in 1 .. Len(Listed) /\ Len(Listed) \in Nat
    BY ValueCacheAssumption DEF Invalidate, Invalidating
  <2>2. s.next + 1 \in 0 .. (Len(Listed) + 1)
    BY <2>1
  <2>3. NoTree \in [Cube -> Numbers]
    BY NumbersNat DEF NoTree
  <2> DEFINE t == IF s.next = Len(Listed)
                    THEN [cube |-> None, tree |-> NoTree, next |-> s.next + 1]
                    ELSE [s EXCEPT !.next = s.next + 1]
  <2>4. writers' = [writers EXCEPT ![w] = t]
    BY DEF Invalidate
  <2>5. t \in [cube : Cube \cup {None}, tree : [Cube -> Numbers],
               next : 0 .. (Len(Listed) + 1)]
    BY <1>1, <2>2, <2>3
  <2> HIDE DEF t
  <2> QED
    BY <1>1, <2>4, <2>5
<1>6. ASSUME NEW d \in Cube, NEW m \in Numbers, NEW a \in Area
      PROVE  EntryOk(caches'[<<d, m>>].areas[a], d, m, caches'[<<d, m>>].sources)
  <2>1. CASE caches'[<<d, m>>] = NoCache
    BY <2>1 DEF NoCache, EntryOk
  <2>2. CASE caches'[<<d, m>>] = caches[<<d, m>>]
    BY <2>2 DEF CacheInv, CachesOk
  <2>3. <<d, m>> \in Objects
    BY DEF Objects
  <2> HIDE DEF o
  <2> QED
    BY <1>1, <1>2, <2>1, <2>2, <2>3
<1> HIDE DEF s, c, o
<1> QED
  BY <1>3, <1>4, <1>5, <1>6 DEF CacheInv, TypeOK, CachesOk, ReadersOk

-----------------------------------------------------------------------------
(* Types, and the cube's own part of an answer.                            *)

LEMMA ReaderKeeps ==
  ASSUME CacheInv, NEW r \in Reader,
         \E t \in ReaderStates : ReaderOk(t) /\ readers' = [readers EXCEPT ![r] = t],
         UNCHANGED <<server, writers>>,
         caches' \in [Objects -> Caches], CachesOk'
  PROVE  CacheInv'
<1>1. readers \in [Reader -> ReaderStates] /\ ReadersOk
  BY DEF CacheInv, TypeOK
<1>2. readers' \in [Reader -> ReaderStates]
  BY <1>1
<1>3. ReadersOk'
  BY <1>1 DEF ReadersOk
<1> QED
  BY <1>2, <1>3 DEF CacheInv, TypeOK

LEMMA StoreKeepsCaches ==
  ASSUME CacheInv, NEW r \in Reader, Store(r)
  PROVE  caches' \in [Objects -> Caches] /\ CachesOk'
<1> DEFINE s == readers[r]
           o == <<s.merging, s.tree[s.merging]>>
           m == Merged(s)
<1>1. s \in ReaderStates /\ ReaderOk(s) /\ s.phase = "save" /\ s.merging # None
  BY DEF CacheInv, TypeOK, ReadersOk, Store
<1>2. caches' = [caches EXCEPT ![o] = m]
  BY DEF Store
<1>3. caches \in [Objects -> Caches]
  BY DEF CacheInv, TypeOK
<1> HIDE DEF s, m
<1>4. /\ m \in Caches
      /\ s.merging \in Cube /\ s.tree[s.merging] \in Numbers
      /\ \A a \in Area : EntryOk(m.areas[a], s.merging, s.tree[s.merging], m.sources)
  BY <1>1, MergedOk DEF m
<1>5. ASSUME NEW d \in Cube, NEW n \in Numbers, NEW a \in Area
      PROVE  EntryOk(caches'[<<d, n>>].areas[a], d, n, caches'[<<d, n>>].sources)
  <2>1. <<d, n>> \in Objects
    BY DEF Objects
  <2>2. CASE <<d, n>> = o
    <3>1. caches'[<<d, n>>] = m /\ d = s.merging /\ n = s.tree[s.merging]
      BY <1>2, <1>3, <2>1, <2>2
    <3> QED
      BY <1>4, <3>1
  <2>3. CASE <<d, n>> # o
    <3>1. caches'[<<d, n>>] = caches[<<d, n>>]
      BY <1>2, <1>3, <2>1, <2>3
    <3> QED
      BY <3>1 DEF CacheInv, CachesOk
  <2> QED
    BY <2>2, <2>3
<1> QED
  BY <1>2, <1>3, <1>4, <1>5 DEF CachesOk

LEMMA InitKeeps == Init => CacheInv
<1> SUFFICES ASSUME Init PROVE CacheInv
  OBVIOUS
<1>1. NoTree \in [Cube -> Numbers]
  BY NumbersNat DEF NoTree
<1>2. server \in [Cube -> Numbers] /\ caches \in [Objects -> Caches]
  BY <1>1, NoCacheType DEF Init
<1>3. readers \in [Reader -> ReaderStates]
  BY AtType DEF Init, Phases
<1>4. writers \in [Writer -> [cube : Cube \cup {None}, tree : [Cube -> Numbers],
                             next : 0 .. (Len(Listed) + 1)]]
  <2>1. 0 \in 0 .. (Len(Listed) + 1)
    BY ValueCacheAssumption
  <2> QED
    BY <1>1, <2>1 DEF Init
<1>5. CachesOk
  BY DEF Init, CachesOk, EntryOk, NoCache, Objects
<1>6. ReadersOk
  <2>1. /\ At("start").phase = "start" /\ At("start").open = <<>>
        /\ At("start").answer = None /\ At("start").merging = None
    BY DEF At
  <2>2. ReaderOk(At("start"))
    BY <2>1 DEF ReaderOk, Starting, Looking, Saving, OwnAnswer
  <2> QED
    BY <2>2 DEF Init, ReadersOk
<1> QED
  BY <1>2, <1>3, <1>4, <1>5, <1>6 DEF CacheInv, TypeOK

LEMMA NextKeeps == CacheInv /\ [Next]_vars => CacheInv'
<1> SUFFICES ASSUME CacheInv, [Next]_vars PROVE CacheInv'
  OBVIOUS
<1>1. CASE UNCHANGED vars
  BY <1>1 DEF vars, CacheInv, TypeOK, CachesOk, ReadersOk
<1>2. ASSUME NEW r \in Reader, UNCHANGED <<server, writers, caches>>,
             \E t \in ReaderStates : ReaderOk(t) /\ readers' = [readers EXCEPT ![r] = t]
      PROVE  CacheInv'
  <2>1. caches' \in [Objects -> Caches] /\ CachesOk'
    BY <1>2 DEF CacheInv, TypeOK, CachesOk
  <2> QED
    BY <1>2, <2>1, ReaderKeeps
<1>3. ASSUME NEW r \in Reader, Begin(r) PROVE CacheInv'
  BY <1>2, <1>3, BeginOk, ZenonT(40) DEF Begin
<1>4. ASSUME NEW r \in Reader, Hit(r) PROVE CacheInv'
  BY <1>2, <1>4, HitOk, Zenon DEF Hit
<1>5. ASSUME NEW r \in Reader, Miss(r) PROVE CacheInv'
  BY <1>2, <1>5, MissOk DEF Miss
<1>6. ASSUME NEW r \in Reader, Fail(r) PROVE CacheInv'
  BY <1>2, <1>6, EndOk DEF Fail
<1>7. ASSUME NEW r \in Reader, Fetch(r) PROVE CacheInv'
  BY <1>2, <1>7, FetchOk DEF Fetch
<1>8. ASSUME NEW r \in Reader, Store(r) PROVE CacheInv'
  <2>1. \E t \in ReaderStates : ReaderOk(t) /\ readers' = [readers EXCEPT ![r] = t]
    BY <1>8, StoreOk
  <2>2. caches' \in [Objects -> Caches] /\ CachesOk'
    BY <1>8, StoreKeepsCaches
  <2>3. UNCHANGED <<server, writers>>
    BY <1>8 DEF Store
  <2> QED
    BY <2>1, <2>2, <2>3, ReaderKeeps
<1> QED
  BY <1>1, <1>3, <1>4, <1>5, <1>6, <1>7, <1>8, WriteKeeps, InvalidateKeeps DEF Next

THEOREM CacheInvCorrect == Spec => []CacheInv
BY InitKeeps, NextKeeps, PTL DEF Spec

(* The caches, the requests that read and those that write have their      *)
(* types: however long rules lead from cube to cube, the requests keep to  *)
(* the cubes of their version.                                             *)
THEOREM TypeCorrect == Spec => []TypeOK
<1>1. CacheInv => TypeOK
  BY DEF CacheInv
<1> QED
  BY <1>1, CacheInvCorrect, PTL

(* However many requests read and write, and whatever rules join the       *)
(* cubes, the part of an answer that the cube itself contributes is of the *)
(* version that the request began with.                                    *)
THEOREM OwnPartOfVersionCorrect == Spec => []OwnPartOfVersion
<1>1. CacheInv => OwnPartOfVersion
  BY DEF CacheInv, ReadersOk, ReaderOk, OwnAnswer, OwnPartOfVersion
<1> QED
  BY <1>1, CacheInvCorrect, PTL

-----------------------------------------------------------------------------
(* What is stale.  A request that no write overtook works on the published *)
(* version while no writer clears the caches.  A cache keeps a stale entry *)
(* only as long as a writer is on its way to it: the one that wrote the    *)
(* cube the entry is stale in, whose version has the object of the cache.  *)

Overtaken ==
  \A r \in Reader :
    InFlight(r) /\ ~ readers[r].late =>
      /\ readers[r].tree = server
      /\ Settled
      /\ readers[r].merging # None =>
           \A a \in Area : Fresh(readers[r].fetched.areas[a], server)

Clears(w, c, d) ==
  /\ Invalidating(w)
  /\ writers[w].cube = d
  /\ writers[w].tree[c] = server[c]
  /\ \E i \in writers[w].next .. Len(Listed) : Listed[i] = c

CachesFresh ==
  \A c \in Cube, a \in Area :
    EntryOf(c, a) # None /\ ~ EntryOf(c, a).late /\ ~ EntryOf(c, a).chained =>
      \A d \in DOMAIN EntryOf(c, a).val :
        EntryOf(c, a).val[d] # server[d] => \E w \in Writer : Clears(w, c, d)

OverlapInv == Overtaken /\ CachesFresh

LEMMA SettledFresh ==
  ASSUME CachesFresh, Settled, NEW c \in Cube, NEW a \in Area
  PROVE  Fresh(EntryOf(c, a), server)
BY DEF CachesFresh, Settled, Clears, Fresh

LEMMA UnchangedFresh ==
  ASSUME CachesFresh, UNCHANGED <<server, caches, writers>>
  PROVE  CachesFresh'
BY DEF CachesFresh, EntryOf, Clears, Invalidating

\* What a step of a reader does to what the invariant says of it.
LEMMA ReaderOvertaken ==
  ASSUME CacheInv, OverlapInv, NEW r \in Reader, NEW t,
         readers' = [readers EXCEPT ![r] = t],
         UNCHANGED <<server, writers>>,
         t.phase \in {"look", "save"} /\ ~ t.late =>
           /\ t.tree = server
           /\ Settled
           /\ t.merging # None => \A a \in Area : Fresh(t.fetched.areas[a], server)
  PROVE  Overtaken'
<1>1. readers \in [Reader -> ReaderStates]
  BY DEF CacheInv, TypeOK
<1>2. \A q \in Reader : readers'[q] = IF q = r THEN t ELSE readers[q]
  BY <1>1
<1>3. Settled' <=> Settled
  BY DEF Settled, Invalidating
<1> QED
  BY <1>2, <1>3 DEF OverlapInv, Overtaken, InFlight

LEMMA BeginOvertaken ==
  ASSUME CacheInv, OverlapInv, NEW r \in Reader, Begin(r)
  PROVE  OverlapInv'
<1> DEFINE s == readers[r]
           late == \E w \in Writer : Invalidating(w)
<1>1. s \in ReaderStates /\ ReaderOk(s) /\ s.phase = "start"
  BY SMTT(30) DEF CacheInv, TypeOK, ReadersOk, Begin
<1>2. PICK c \in Cube, a \in Area :
        readers' = [readers EXCEPT ![r] = [s EXCEPT !.phase = "look", !.tree = server,
                       !.area = a, !.top = c, !.late = late]]
  BY DEF Begin
<1> DEFINE t == [s EXCEPT !.phase = "look", !.tree = server, !.area = a, !.top = c,
                          !.late = late]
<1>3. ~ late => Settled
  BY DEF Settled
<1> HIDE DEF late
<1>4. t.tree = server /\ t.merging = None /\ t.late = late
  BY <1>1 DEF ReaderStates, ReaderOk, Starting
<1> HIDE DEF t
<1>5. Overtaken'
  BY <1>2, <1>3, <1>4, ReaderOvertaken, ZenonT(40) DEF t, Begin
<1> QED
  BY <1>5, UnchangedFresh DEF OverlapInv, Begin

LEMMA EvaluatedFields ==
  ASSUME TypeOK, NEW r \in Reader, NEW open, NEW e
  PROVE  LET t == Evaluated(r, open, e)
         IN  /\ t.tree = readers[r].tree /\ t.late = readers[r].late
             /\ t.merging = readers[r].merging
BY DEF TypeOK, ReaderStates, Evaluated

LEMMA LookOvertaken ==
  ASSUME CacheInv, OverlapInv, NEW r \in Reader, Hit(r) \/ Miss(r)
  PROVE  OverlapInv'
<1> DEFINE s == readers[r]
<1>1. s.phase = "look" /\ UNCHANGED <<server, caches, writers>>
  BY DEF Hit, Miss
<1>2. s \in ReaderStates /\ s.merging = None
  BY <1>1, LookedUp
<1>3. \E t : /\ readers' = [readers EXCEPT ![r] = t]
             /\ t.tree = s.tree /\ t.late = s.late /\ t.merging = s.merging
  <2>1. CASE Hit(r)
    <3>1. PICK open, e : readers' = [readers EXCEPT ![r] = Evaluated(r, open, e)]
      BY <2>1, Zenon DEF Hit
    <3> QED
      BY <3>1, EvaluatedFields, ZenonT(40) DEF CacheInv
  <2>2. CASE Miss(r)
    <3>1. CASE Source[Current(s)] = None
      <4>1. PICK open, e : readers' = [readers EXCEPT ![r] = Evaluated(r, open, e)]
        BY <2>2, <3>1 DEF Miss
      <4> QED
        BY <4>1, EvaluatedFields, ZenonT(40) DEF CacheInv
    <3>2. CASE Source[Current(s)] # None
      <4>1. PICK open, deps : readers' = [readers EXCEPT ![r] = [s EXCEPT !.open = open,
                                                                      !.deps = deps]]
        BY <2>2, <3>2 DEF Miss
      <4> DEFINE t == [s EXCEPT !.open = open, !.deps = deps]
      <4>2. t.tree = s.tree /\ t.late = s.late /\ t.merging = s.merging
        BY <1>2 DEF ReaderStates
      <4> HIDE DEF t
      <4> QED
        BY <4>1, <4>2 DEF t
    <3> QED
      BY <3>1, <3>2
  <2> QED
    BY <2>1, <2>2
<1>4. ~ s.late => s.tree = server /\ Settled
  BY <1>1 DEF OverlapInv, Overtaken, InFlight
<1> HIDE DEF s
<1>5. Overtaken'
  BY <1>1, <1>2, <1>3, <1>4, ReaderOvertaken
<1> QED
  BY <1>1, <1>5, UnchangedFresh DEF OverlapInv

LEMMA FailOvertaken ==
  ASSUME CacheInv, OverlapInv, NEW r \in Reader, Fail(r)
  PROVE  OverlapInv'
<1>1. At("end").phase = "end"
  BY DEF At
<1>2. Overtaken'
  BY <1>1, ReaderOvertaken DEF Fail
<1> QED
  BY <1>2, UnchangedFresh DEF OverlapInv, Fail

LEMMA FetchOvertaken ==
  ASSUME CacheInv, OverlapInv, NEW r \in Reader, Fetch(r)
  PROVE  OverlapInv'
<1> DEFINE s == readers[r]
<1>1. s \in ReaderStates /\ s.phase = "save"
  BY DEF CacheInv, TypeOK, Fetch
<1>2. PICK c \in Cube :
        readers' = [readers EXCEPT ![r] = [s EXCEPT !.merging = c,
                                             !.fetched = caches[<<c, s.tree[c]>>]]]
  BY DEF Fetch
<1> DEFINE t == [s EXCEPT !.merging = c, !.fetched = caches[<<c, s.tree[c]>>]]
<1>3. ~ s.late => s.tree = server /\ Settled
  BY <1>1 DEF OverlapInv, Overtaken, InFlight
<1>4. t.tree = s.tree /\ t.late = s.late /\ t.fetched = caches[<<c, s.tree[c]>>]
  BY <1>1 DEF ReaderStates
<1>5. ASSUME ~ s.late, NEW a \in Area
      PROVE  Fresh(t.fetched.areas[a], server)
  BY <1>3, <1>4, <1>5, SettledFresh DEF EntryOf, OverlapInv
<1> HIDE DEF t
<1>6. Overtaken'
  BY <1>2, <1>3, <1>4, <1>5, ReaderOvertaken DEF t, Fetch
<1> QED
  BY <1>6, UnchangedFresh DEF OverlapInv, Fetch

LEMMA StoreOvertaken ==
  ASSUME CacheInv, OverlapInv, NEW r \in Reader, Store(r)
  PROVE  OverlapInv'
<1> DEFINE s == readers[r]
           o == <<s.merging, s.tree[s.merging]>>
           m == Merged(s)
           query == [s.query EXCEPT ![s.merging] = None]
           t == IF query = NoQuery THEN At("end")
                ELSE [s EXCEPT !.merging = None, !.fetched = NoCache, !.query = query]
<1>1. /\ s \in ReaderStates /\ ReaderOk(s) /\ s.phase = "save" /\ s.merging # None
      /\ UNCHANGED <<server, writers>>
      /\ caches' = [caches EXCEPT ![o] = m]
      /\ readers' = [readers EXCEPT ![r] = t]
  BY DEF CacheInv, TypeOK, ReadersOk, Store
<1>2. ~ s.late => /\ s.tree = server /\ Settled
                  /\ \A a \in Area : Fresh(s.fetched.areas[a], server)
  BY <1>1 DEF OverlapInv, Overtaken, InFlight
<1>3. t.phase = "end" \/ (t.tree = s.tree /\ t.merging = None /\ t.late = s.late)
  BY <1>1 DEF At, ReaderStates
<1>4. Overtaken'
  <2> HIDE DEF s, t
  <2> QED
    BY <1>1, <1>2, <1>3, ReaderOvertaken
<1>5. s.merging \in Cube /\ Fresh(s.query[s.merging], s.tree) /\ s.late \in BOOLEAN
  BY <1>1 DEF ReaderStates, ReaderOk, Saving
<1>6. \A a \in Area : LET e == m.areas[a]
                          f == IF a = s.area THEN s.query[s.merging]
                                             ELSE s.fetched.areas[a]
                      IN  e # None => /\ f # None
                                      /\ e.val = f.val /\ e.chained = f.chained
                                      /\ e.late = (s.late \/ f.late)
  BY <1>1, MergedOk
<1> HIDE DEF t, m, s
<1>7. ASSUME NEW a \in Area PROVE Fresh(m.areas[a], server)
  <2> DEFINE e == m.areas[a]
             f == IF a = s.area THEN s.query[s.merging] ELSE s.fetched.areas[a]
  <2>1. e # None => f # None /\ e.val = f.val /\ e.chained = f.chained /\ e.late = (s.late \/ f.late)
    BY <1>6
  <2>2. ~ s.late => Fresh(f, server)
    BY <1>2, <1>5
  <2> HIDE DEF e, f
  <2>3. Fresh(e, server)
    BY <2>1, <2>2 DEF Fresh
  <2> QED
    BY <2>3 DEF e
<1>8. caches \in [Objects -> Caches] /\ server \in [Cube -> Numbers]
  BY DEF CacheInv, TypeOK
<1>9. CachesFresh'
  <2> SUFFICES ASSUME NEW c \in Cube, NEW a \in Area,
                      NEW e, e = EntryOf(c, a)', e # None, ~ e.late, ~ e.chained,
                      NEW d \in DOMAIN e.val, e.val[d] # server'[d]
               PROVE  \E w \in Writer : Clears(w, c, d)'
    BY DEF CachesFresh
  <2>1. <<c, server[c]>> \in Objects
    BY <1>8 DEF Objects
  <2>2. CASE o = <<c, server[c]>>
    <3>1. e = m.areas[a]
      BY <1>1, <1>8, <2>1, <2>2 DEF EntryOf
    <3>2. Fresh(e, server)
      BY <1>7, <3>1
    <3> QED
      BY <1>1, <3>2 DEF Fresh
  <2>3. CASE o # <<c, server[c]>>
    <3>1. e = EntryOf(c, a)
      BY <1>1, <1>8, <2>1, <2>3 DEF EntryOf
    <3>2. PICK w \in Writer : Clears(w, c, d)
      BY <1>1, <3>1 DEF OverlapInv, CachesFresh
    <3> QED
      BY <1>1, <3>2 DEF Clears, Invalidating
  <2> QED
    BY <2>2, <2>3
<1> QED
  BY <1>4, <1>9 DEF OverlapInv

LEMMA WriteOvertaken ==
  ASSUME CacheInv, OverlapInv, NEW w \in Writer, Write(w)
  PROVE  OverlapInv'
<1>1. PICK c \in Cube :
        /\ Written \in Numbers
        /\ server' = [server EXCEPT ![c] = Written]
        /\ caches' = [caches EXCEPT ![<<c, Written>>] = NoCache]
        /\ writers' = [writers EXCEPT ![w] =
              [cube |-> c, tree |-> [server EXCEPT ![c] = Written], next |-> 1]]
  BY WriteOk
<1> DEFINE tree == [server EXCEPT ![c] = Written]
<1>2. /\ server \in [Cube -> Numbers] /\ caches \in [Objects -> Caches]
      /\ readers \in [Reader -> ReaderStates]
      /\ DOMAIN writers = Writer
  BY DEF CacheInv, TypeOK
<1>3. Overtaken'
  <2> SUFFICES ASSUME NEW r \in Reader, InFlight(r)', ~ readers'[r].late PROVE FALSE
    BY DEF Overtaken
  <2> DEFINE s == readers[r]
             t == [s EXCEPT !.late = TRUE]
  <2>1. readers'[r] = IF InFlight(r) THEN t ELSE s
    BY DEF Write
  <2>2. t.late
    BY <1>2 DEF ReaderStates
  <2> HIDE DEF t
  <2> QED
    BY <2>1, <2>2 DEF InFlight
<1>4. CachesFresh'
  <2> SUFFICES ASSUME NEW b \in Cube, NEW a \in Area,
                      NEW e, e = EntryOf(b, a)', e # None, ~ e.late, ~ e.chained,
                      NEW d \in DOMAIN e.val, e.val[d] # server'[d]
               PROVE  \E v \in Writer : Clears(v, b, d)'
    BY DEF CachesFresh
  <2>1. <<b, server'[b]>> \in Objects /\ <<b, server[b]>> \in Objects
    BY <1>1, <1>2 DEF Objects
  <2>2. b # c
    <3>1. CASE b = c
      <4>1. caches'[<<b, server'[b]>>] = NoCache
        BY <1>1, <1>2, <2>1, <3>1
      <4>2. e = None
        BY <4>1 DEF EntryOf, NoCache
      <4> QED
        BY <4>2
    <3> QED
      BY <3>1
  <2>3. server'[b] = server[b] /\ e = EntryOf(b, a)
    BY <1>1, <1>2, <2>1, <2>2 DEF EntryOf
  <2>4. CASE d = c
    <3>1. PICK i \in 1 .. Len(Listed) : Listed[i] = b
      BY ValueCacheAssumption DEF ToSet
    <3>2. Len(Listed) \in Nat
      BY ValueCacheAssumption
    <3>3. writers'[w] = [cube |-> c, tree |-> tree, next |-> 1]
      BY <1>1, <1>2
    <3>4. tree[b] = server'[b]
      BY <1>1
    <3> HIDE DEF tree
    <3>5. Clears(w, b, d)'
      BY <2>4, <3>1, <3>2, <3>3, <3>4 DEF Clears, Invalidating
    <3> QED
      BY <3>5
  <2>5. CASE d # c
    <3>1. server'[d] = server[d]
      BY <1>1, <1>2, <2>5
    <3>2. PICK v \in Writer : Clears(v, b, d)
      BY <2>3, <3>1 DEF OverlapInv, CachesFresh
    <3>3. v # w
      BY <3>2 DEF Clears, Invalidating, Write
    <3>4. writers'[v] = writers[v]
      BY <1>1, <1>2, <3>3
    <3> QED
      BY <2>3, <3>2, <3>4 DEF Clears, Invalidating
  <2> QED
    BY <2>4, <2>5
<1> QED
  BY <1>3, <1>4 DEF OverlapInv

LEMMA InvalidateOvertaken ==
  ASSUME CacheInv, OverlapInv, NEW w \in Writer, Invalidate(w)
  PROVE  OverlapInv'
<1> DEFINE s == writers[w]
           b == Listed[s.next]
           o == <<b, s.tree[b]>>
<1>1. /\ server \in [Cube -> Numbers] /\ caches \in [Objects -> Caches]
      /\ DOMAIN writers = Writer
      /\ s \in [cube : Cube \cup {None}, tree : [Cube -> Numbers],
                next : 0 .. (Len(Listed) + 1)]
  BY DEF CacheInv, TypeOK
<1>2. /\ caches' = [caches EXCEPT ![o] =
            IF b = s.cube \/ s.cube \in caches[o].sources THEN NoCache ELSE caches[o]]
      /\ UNCHANGED <<server, readers>>
      /\ Invalidating(w)
  BY DEF Invalidate
<1>3. Overtaken'
  <2> SUFFICES ASSUME NEW r \in Reader, InFlight(r)', ~ readers'[r].late PROVE FALSE
    BY DEF Overtaken
  <2>1. InFlight(r) /\ ~ readers[r].late
    BY <1>2 DEF InFlight
  <2> QED
    BY <1>2, <2>1 DEF OverlapInv, Overtaken, Settled
<1>4. CachesFresh'
  <2> SUFFICES ASSUME NEW c \in Cube, NEW a \in Area,
                      NEW e, e = EntryOf(c, a)', e # None, ~ e.late, ~ e.chained,
                      NEW d \in DOMAIN e.val, e.val[d] # server'[d]
               PROVE  \E v \in Writer : Clears(v, c, d)'
    BY DEF CachesFresh
  <2>1. <<c, server[c]>> \in Objects /\ server[c] \in Numbers
    BY <1>1 DEF Objects
  <2>2. caches'[<<c, server[c]>>] # NoCache
    <3>1. CASE caches'[<<c, server[c]>>] = NoCache
      <4>1. e = NoCache.areas[a]
        BY <3>1, Zenon DEF EntryOf, Invalidate
      <4>2. e = None
        BY <4>1 DEF NoCache
      <4> QED
        BY <4>2, SMTT(30)
    <3> QED
      BY <3>1
  <2> HIDE DEF o
  <2>3. caches'[<<c, server[c]>>] = caches[<<c, server[c]>>]
    BY <1>1, <1>2, <2>1, <2>2
  <2>4. e = EntryOf(c, a)
    BY <1>2, <2>3 DEF EntryOf
  <2>5. EntryOk(e, c, server[c], caches[<<c, server[c]>>].sources)
    BY <2>1, <2>4 DEF EntryOf, CacheInv, CachesOk
  <2>6. d # c /\ d \in caches[<<c, server[c]>>].sources
    BY <1>2, <2>5 DEF EntryOk
  <2>7. PICK v \in Writer : Clears(v, c, d)
    BY <1>2, <2>4 DEF OverlapInv, CachesFresh
  <2>8. CASE v # w
    <3>1. writers'[v] = writers[v]
      BY <1>1, <2>8 DEF Invalidate
    <3> QED
      BY <1>2, <2>7, <3>1 DEF Clears, Invalidating
  <2>9. CASE v = w
    <3>1. s.cube = d /\ s.tree[c] = server[c] /\ s.next \in 1 .. Len(Listed)
      BY <2>7, <2>9 DEF Clears, Invalidating
    <3>2. PICK i \in s.next .. Len(Listed) : Listed[i] = c
      BY <2>7, <2>9 DEF Clears
    <3>3. b # c
      <4>1. CASE b = c
        <5>1. o = <<c, server[c]>>
          BY <3>1, <4>1 DEF o
        <5>2. caches'[<<c, server[c]>>] = NoCache
          BY <1>1, <1>2, <2>1, <2>6, <3>1, <5>1
        <5> QED
          BY <2>2, <5>2
      <4> QED
        BY <4>1
    <3>4. i # s.next
      BY <3>2, <3>3
    <3>5. Len(Listed) \in Nat
      BY ValueCacheAssumption
    <3>6. i \in s.next + 1 .. Len(Listed) /\ s.next # Len(Listed)
      BY <3>1, <3>2, <3>4, <3>5
    <3>7. writers'[w] = [s EXCEPT !.next = s.next + 1]
      BY <1>1, <3>6 DEF Invalidate
    <3> HIDE DEF s
    <3>8. /\ writers'[w].cube = d /\ writers'[w].tree = s.tree
          /\ writers'[w].next = s.next + 1
      BY <1>1, <3>1, <3>7
    <3>9. s.next + 1 \in 1 .. Len(Listed)
      BY <3>1, <3>5, <3>6
    <3>10. Clears(w, c, d)'
      BY <1>2, <3>1, <3>2, <3>6, <3>8, <3>9 DEF Clears, Invalidating
    <3> QED
      BY <3>10
  <2> QED
    BY <2>8, <2>9
<1> QED
  BY <1>3, <1>4 DEF OverlapInv

LEMMA OverlapKeeps ==
  CacheInv /\ OverlapInv /\ [Next]_vars => OverlapInv'
<1> SUFFICES ASSUME CacheInv, OverlapInv, [Next]_vars PROVE OverlapInv'
  OBVIOUS
<1>1. CASE UNCHANGED vars
  BY <1>1 DEF vars, OverlapInv, Overtaken, InFlight, Settled, Invalidating, CachesFresh,
     EntryOf, Clears
<1> QED
  BY <1>1, BeginOvertaken, LookOvertaken, FailOvertaken, FetchOvertaken, StoreOvertaken,
     WriteOvertaken, InvalidateOvertaken DEF Next

(* Once the writes have cleared the caches, a cached area of the published *)
(* version is stale only if a request that a write overtook stored it, or  *)
(* if the value of a rule's cube came from a cache: for any cubes with any *)
(* rules, that lead through as many cubes as they like, and for any number *)
(* of requests, whose merges of what they took before may undo what a      *)
(* writer cleared in between.                                              *)
THEOREM StaleOnlyByOverlapCorrect == Spec => []StaleOnlyByOverlap
<1>1. Init => OverlapInv
  <2> SUFFICES ASSUME Init PROVE OverlapInv
    OBVIOUS
  <2>1. Overtaken
    BY DEF Init, Overtaken, InFlight, At
  <2>2. ASSUME NEW c \in Cube, NEW a \in Area PROVE EntryOf(c, a) = None
    <3>1. NoTree[c] = 0 /\ <<c, 0>> \in Objects
      BY NumbersNat DEF NoTree, Objects
    <3> QED
      BY <3>1 DEF EntryOf, Init, NoCache
  <2> QED
    BY <2>1, <2>2 DEF OverlapInv, CachesFresh
<1>2. OverlapInv => StaleOnlyByOverlap
  BY SettledFresh DEF OverlapInv, StaleOnlyByOverlap, Stale, Fresh, EntryOf
<1> QED
  BY <1>1, <1>2, OverlapKeeps, CacheInvCorrect, PTL DEF Spec
=============================================================================
