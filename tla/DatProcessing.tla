--------------------------- MODULE DatProcessing ---------------------------
(***************************************************************************)
(* What Igir does to a DAT before it looks for a single ROM: DATs are      *)
(* combined (DATCombiner), and processDAT() sends each through five        *)
(* modules in turn: DATParentInferrer, DATMergerSplitter, DATDiscMerger,   *)
(* DATFilter and DATPreferer.  Every one of them makes a new DAT, whose    *)
(* games are grouped into families (Parents) again from what each game     *)
(* says of itself.                                                         *)
(*                                                                         *)
(* A name is a record of what the code's expressions find in it: the       *)
(* title, a region, languages, a revision, tags as "(Beta)" or "[b]", and  *)
(* the number of the disc.  A ROM's name is a sequence, for the two stages *)
(* that put a game's name before it.  A checksum stands for the content.   *)
(***************************************************************************)
EXTENDS Integers, Lists

CONSTANTS
  Runs,         \* the runs of the program: DATs (sequences of games) and options
  Titles,       \* all titles, in alphabetical order
  LanguageOf    \* the language of each region

NoName == [title |-> "", region |-> "", langs |-> {}, rev |-> 0, tags |-> {}, disc |-> 0]
NoId == ""
NoRom == <<>>

VARIABLES
  input,     \* the DATs read
  options,   \* the options
  stage,     \* the module that is next
  games,     \* the games of the DAT, in order
  before     \* the games each earlier stage was given (no code variable)

vars == <<input, options, stage, games, before>>

(***************************************************************************)
(* Games.                                                                  *)
(***************************************************************************)

\* Everything a game can be asked for that its name, categories or
\* manufacturer answer.
IsClone(g) == g.cloneOf # NoName \/ g.cloneOfId # NoId
Verified(g) == "[!]" \in g.name.tags
Bad(g) == "[b]" \in g.name.tags \/ (~ Verified(g) /\ "[x]" \in g.name.tags)

ReleaseFeatures(g) ==
  (g.name.tags \cap {"aftermarket", "alpha", "beta", "debug", "homebrew", "sample", "unlicensed"})
    \cup {f \in {"demo", "program", "prototype"} : f \in g.name.tags \/ f \in g.categories}
    \cup {f \in {"bios", "device"} : f \in g.kind \/ (f = "bios" /\ f \in g.name.tags)}
    \cup (IF g.maker = "bootleg" THEN {"bootleg"} ELSE {})

DumpFeatures(g) ==
  (g.name.tags \cap {"cracked", "fixed", "mia", "overdump", "pending", "pirated", "translated",
                     "bung", "trainer", "enhancement"})
    \cup (IF "hack" \in g.name.tags \/ g.maker = "hack" THEN {"hack"} ELSE {})
    \cup (IF Bad(g) THEN {"bad"} ELSE {})

Retail(g) ==
  /\ ReleaseFeatures(g) \cap {"debug", "demo", "beta", "sample", "prototype", "program",
                              "aftermarket", "homebrew", "alpha", "bootleg"} = {}
  /\ DumpFeatures(g) = {}

Features(g) ==
  ReleaseFeatures(g) \cup DumpFeatures(g) \cup (IF Retail(g) THEN {"retail"} ELSE {})
    \cup (IF Verified(g) THEN {"verified"} ELSE {"unverified"})

Regions(g) == IF g.name.region # "" THEN {g.name.region} ELSE g.releases
Languages(g) == IF g.name.langs # {} THEN g.name.langs ELSE {LanguageOf[r] : r \in Regions(g)}

\* Game.withProps() of a merged game derives its ROMs from its discs again.
WithRoms(g, roms) == IF g.discs = <<>> THEN [g EXCEPT !.roms = roms] ELSE g

HashCode(g) ==
  <<g.name, [s \in {r.sum : r \in ToSet(g.roms)} |->
               Cardinality({i \in DOMAIN g.roms : g.roms[i].sum = s})]>>

(***************************************************************************)
(* Families: generateGameNamesToParents().                                 *)
(***************************************************************************)

HasKey(ps, kind, key) == \E p \in ToSet(ps) : p.kind = kind /\ p.key = key

AddGame(ps, kind, key, g) ==
  IF HasKey(ps, kind, key)
  THEN Mapped(ps, LAMBDA p : IF p.kind = kind /\ p.key = key
                             THEN [p EXCEPT !.games = Append(@, g)] ELSE p)
  ELSE Append(ps, [kind |-> kind, key |-> key, parent |-> g, games |-> <<g>>])

FoundParents(gs) ==
  FoldLeft(LAMBDA ps, g : CASE g.cloneOfId # NoId -> ps
                            [] g.cloneOfId = NoId /\ g.id # NoId -> AddGame(ps, "id", g.id, g)
                            [] g.cloneOfId = NoId /\ g.id = NoId /\ g.cloneOf # NoName -> ps
                            [] OTHER -> AddGame(ps, "name", g.name, g),
           <<>>, gs)

\* Mutant: a clone of a game that is not there is forgotten.
FoundClonesOfKnown(gs) ==
  FoldLeft(LAMBDA ps, g : IF g.cloneOfId # NoId /\ HasKey(ps, "id", g.cloneOfId)
                          THEN AddGame(ps, "id", g.cloneOfId, g)
                          ELSE IF g.cloneOfId = NoId /\ g.cloneOf # NoName /\ HasKey(ps, "name", g.cloneOf)
                          THEN AddGame(ps, "name", g.cloneOf, g) ELSE ps,
           FoundParents(gs), gs)

\* A clone whose parent is missing takes its place, unless it has no id itself.
FoundClones(gs) ==
  FoldLeft(LAMBDA ps, g :
             CASE g.cloneOfId # NoId ->
                    IF HasKey(ps, "id", g.cloneOfId) \/ g.id # NoId
                    THEN AddGame(ps, "id", g.cloneOfId, g) ELSE ps
               [] g.cloneOfId = NoId /\ g.cloneOf # NoName -> AddGame(ps, "name", g.cloneOf, g)
               [] OTHER -> ps,
           FoundParents(gs), gs)

Families(gs) ==
  LET of(kind) == SelectSeq(FoundClones(gs), LAMBDA p : p.kind = kind)
  IN  of("id") \o of("name")

HasParentCloneInfo(gs) == Len(Families(gs)) > 0 /\ Len(Families(gs)) # Len(gs)

Init ==
  /\ \E run \in Runs : input = run.dats /\ options = run.options
  /\ stage = "combine"
  /\ games = <<>>
  /\ before = [s \in {} |-> <<>>]

\* The end of every stage: the DAT has other games now.
Proceed(next, gs) ==
  /\ games' = gs
  /\ stage' = next
  /\ before' = [s \in DOMAIN before \cup {stage} |-> IF s = stage THEN games ELSE before[s]]
  /\ UNCHANGED <<input, options>>

(***************************************************************************)
(* DATCombiner.                                                            *)
(***************************************************************************)

Combine ==
  /\ stage = "combine"
  /\ Proceed("infer", IF Len(input) = 1 THEN input[1]
                      ELSE UniqueBy(Flatten(input, LAMBDA dat : dat), HashCode))

(***************************************************************************)
(* DATParentInferrer.                                                      *)
(***************************************************************************)

StripRegionAndLanguage(n) == [n EXCEPT !.region = "", !.langs = {}]
StripVariants(n) == [n EXCEPT !.tags = @ \cap {"bios", "enhancement"}, !.rev = 0]
Stripped(n) == StripVariants(StripRegionAndLanguage(n))

Before(m, n) ==
  LET place(x) == CHOOSE i \in DOMAIN Titles : Titles[i] = x.title
  IN  place(m) < place(n) \/ (place(m) = place(n) /\ m.disc < n.disc)

AsParent(g) == [g EXCEPT !.cloneOf = NoName, !.cloneOfId = NoId]
AsCloneOf(g, p) ==
  [g EXCEPT !.cloneOfId = p.id, !.cloneOf = IF p.id = NoId THEN p.name ELSE NoName]

\* The retail release is the parent, or else the first game of the group.
ElectParent(group) ==
  LET namedLike(n) == SelectSeq(group, LAMBDA g : StripRegionAndLanguage(g.name) = n)
      elect(g) ==
        LET retail == namedLike(Stripped(g.name))
        IN  IF retail # <<>>
            THEN IF HashCode(retail[1]) = HashCode(g) THEN AsParent(g) ELSE AsCloneOf(g, retail[1])
            ELSE IF g = group[1] THEN AsParent(g) ELSE AsCloneOf(g, group[1])
  IN  Mapped(group, elect)

Infer ==
  /\ stage = "infer"
  /\ LET groups == SortSeq(GroupBy(games, LAMBDA g : Stripped(g.name)),
                           LAMBDA a, b : Before(Stripped(a[1].name), Stripped(b[1].name)))
     IN  Proceed("merge", IF HasParentCloneInfo(games) /\ ~ options.ignoreParentClone
                          THEN games ELSE Flatten(groups, ElectParent))

(***************************************************************************)
(* DATMergerSplitter.                                                      *)
(***************************************************************************)

\* gameNamesToGames: of games of one name, the last.
Known(gs, n) == \E g \in ToSet(gs) : g.name = n
Named(gs, n) == gs[CHOOSE i \in DOMAIN gs : gs[i].name = n /\ \A j \in (i + 1)..Len(gs) : gs[j].name # n]

Dumped(roms) == SelectSeq(roms, LAMBDA r : ~ r.nodump)
Sanitized(g) == [WithRoms(g, UniqueBy(Dumped(g.roms), LAMBDA r : r.name)) EXCEPT !.disks = Dumped(@)]

WithDevices(gs, g) ==
  LET devices == SelectSeq(UniqueBy(g.deviceRefs, LAMBDA n : n), LAMBDA n : Known(gs, n))
  IN  WithRoms(g, Flatten(devices, LAMBDA n : Dumped(Named(gs, n).roms)) \o g.roms)

\* Mutant: the checksum is not looked at.
DiffUnchecked(parentRoms, roms) ==
  SelectSeq(roms, LAMBDA r : \A p \in ToSet(parentRoms) :
                               p.name # (IF r.merge # NoRom THEN r.merge ELSE r.name))

DiffGameRoms(parentRoms, roms) ==
  LET last(n) == CHOOSE i \in DOMAIN parentRoms :
                   /\ parentRoms[i].name = n
                   /\ \A j \in (i + 1)..Len(parentRoms) : parentRoms[j].name # n
      parentName(r) == IF r.merge # NoRom THEN r.merge ELSE r.name
  IN  SelectSeq(roms, LAMBDA r :
        \/ \A p \in ToSet(parentRoms) : p.name # parentName(r)
        \/ parentRoms[last(parentName(r))].sum # r.sum)

\* The end of the chain of `romof`, which has no cycle in a DAT.
WithoutBios(gs, g) ==
  LET ancestor[k \in 0..Len(gs)] ==
        IF k = 0 THEN g
        ELSE IF Known(gs, ancestor[k - 1].romOf) THEN Named(gs, ancestor[k - 1].romOf)
        ELSE ancestor[k - 1]
      root == ancestor[Len(gs)]
      biosRoms == IF "bios" \in ReleaseFeatures(root) THEN root.roms
                  ELSE SelectSeq(root.roms, LAMBDA r : r.bios)
  IN  IF g.romOf = NoName \/ root.romOf # NoName THEN g
      ELSE WithRoms(g, DiffGameRoms(biosRoms, g.roms))

WithoutParent(gs, g) ==
  IF ~ Known(gs, g.cloneOf) THEN g
  ELSE LET p == Named(gs, g.cloneOf)
       IN  [WithRoms(g, DiffGameRoms(p.roms, g.roms)) EXCEPT !.disks = DiffGameRoms(p.disks, @)]

MergedFamily(parents, clones) ==
  LET prefixed(g) == Mapped(g.roms, LAMBDA r : [r EXCEPT !.name = <<g.name>> \o @])
      roms == Flatten(clones, prefixed) \o Flatten(parents, LAMBDA g : g.roms)
      disks == Flatten(clones \o parents, LAMBDA g : g.disks)
  IN  <<[WithRoms(parents[1], UniqueBy(roms, LAMBDA r : r.sum))
           EXCEPT !.disks = UniqueBy(disks, LAMBDA d : d.name)]>>

\* Mutant: BIOS files are left in the sets that are split.
MergeParentKeepingBios(gs, family) ==
  LET mode == options.mergeRoms
      processed == Mapped(family.games, LAMBDA g :
                     IF mode \in {"split", "merged"} THEN WithoutParent(gs, Sanitized(g)) ELSE Sanitized(g))
      parents == SelectSeq(processed, LAMBDA g : ~ IsClone(g))
      clones == SelectSeq(processed, IsClone)
  IN  IF mode = "merged" THEN MergedFamily(parents, clones) ELSE parents \o clones

MergeParent(gs, family) ==
  LET mode == options.mergeRoms
      process(g) ==
        CASE mode = "fullnonmerged" -> WithDevices(gs, Sanitized(g))
          [] mode = "nonmerged"     -> WithoutBios(gs, Sanitized(g))
          [] OTHER                  -> WithoutParent(gs, WithoutBios(gs, Sanitized(g)))
      processed == Mapped(family.games, process)
      parents == SelectSeq(processed, LAMBDA g : ~ IsClone(g))
      clones == SelectSeq(processed, IsClone)
  IN  IF mode = "merged" THEN MergedFamily(parents, clones) ELSE parents \o clones

Untouched == options.mergeRoms = "none" \/ ~ HasParentCloneInfo(games)
Orphaned == \E f \in ToSet(Families(games)) : \A g \in ToSet(f.games) : IsClone(g)

MergeSplit ==
  /\ stage = "merge"
  /\ Untouched \/ options.mergeRoms # "merged" \/ ~ Orphaned
  /\ Proceed("discs", IF Untouched THEN games
                      ELSE Flatten(Families(games), LAMBDA f : MergeParent(games, f)))

\* parentGames[0] of a family without a parent is undefined: a TypeError.
MergeThrows ==
  /\ stage = "merge"
  /\ ~ Untouched /\ options.mergeRoms = "merged" /\ Orphaned
  /\ Proceed("threw", games)

(***************************************************************************)
(* DATDiscMerger.                                                          *)
(***************************************************************************)

MultiDiscCommonName(n) == [n EXCEPT !.disc = 0]
GroupMultiDiscGames(gs) == GroupBy(gs, LAMBDA g : MultiDiscCommonName(g.name))

MergedDiscGame(group) ==
  LET romNames == Flatten(group, LAMBDA g : Mapped(g.roms, LAMBDA r : r.name))
      duplicates == {n \in ToSet(romNames) :
                       Cardinality({i \in DOMAIN romNames : romNames[i] = n}) > 1}
      subfolder(g) == WithRoms(g, Mapped(g.roms, LAMBDA r : [r EXCEPT !.name = <<g.name>> \o @]))
      discs == IF Cardinality(duplicates) > 1 THEN Mapped(group, subfolder) ELSE group
  IN  [name |-> MultiDiscCommonName(group[1].name), id |-> NoId, cloneOf |-> NoName, cloneOfId |-> NoId,
       romOf |-> NoName, deviceRefs |-> <<>>, kind |-> {}, categories |-> {}, maker |-> "",
       releases |-> {}, roms |-> Flatten(discs, LAMBDA g : g.roms), disks |-> <<>>, discs |-> discs]

MergeDiscs ==
  /\ stage = "discs"
  /\ Proceed("filter",
       IF ~ options.mergeDiscs THEN games
       ELSE Mapped(GroupMultiDiscGames(games),
                   LAMBDA group : IF Len(group) = 1 THEN group[1] ELSE MergedDiscGame(group)))

(***************************************************************************)
(* DATFilter.                                                              *)
(***************************************************************************)

\* A regular expression is the set of the words it finds.
Matches(n, words) == ({n.title, n.region} \cup n.tags) \cap words # {}

FilterGame(g) ==
  /\ options.no \cap Features(g) = {}
  /\ options.only \subseteq Features(g)
  /\ options.filterLanguage = {} \/ Languages(g) \cap options.filterLanguage # {}
  /\ options.filterRegion = {} \/ Regions(g) \cap options.filterRegion # {}
  /\ options.filterRegex = {} \/ Matches(g.name, options.filterRegex)
  /\ ~ Matches(g.name, options.filterRegexExclude)

FilterFamily(f) ==
  LET kept == SelectSeq(f.games, FilterGame)
  IN  IF kept = f.games \/ \E g \in ToSet(kept) : g.name = f.parent.name THEN kept
      ELSE Mapped(kept, LAMBDA g :
             [g EXCEPT !.cloneOf = IF g.name = kept[1].name THEN NoName ELSE kept[1].name])

Filter ==
  /\ stage = "filter"
  /\ Proceed("prefer", Flatten(Families(games), FilterFamily))

(***************************************************************************)
(* DATPreferer.                                                            *)
(***************************************************************************)

Order(a, b) == IF a = b THEN 0 ELSE IF a THEN -1 ELSE 1

\* Mutant: a lower language breaks a tie of a higher one.
PreferredAny(preferred, as, bs) ==
  LET decides == {i \in DOMAIN preferred : (preferred[i] \in as) # (preferred[i] \in bs)}
      first == CHOOSE i \in decides : \A j \in decides : i <= j
  IN  IF decides = {} THEN 0 ELSE Order(preferred[first] \in as, preferred[first] \in bs)

\* preferLanguagesSort() and preferRegionsSort().
PreferredFirst(preferred, as, bs) ==
  LET decides == {i \in DOMAIN preferred : preferred[i] \in as \cup bs}
      first == CHOOSE i \in decides : \A j \in decides : i <= j
  IN  IF decides = {} THEN 0 ELSE Order(preferred[first] \in as, preferred[first] \in bs)

Comparisons(a, b) ==
  LET o == options
      when(wanted, order) == IF wanted THEN order ELSE 0
      game(g) == Matches(g.name, o.preferGameRegex)
      rom(g) == \E r \in ToSet(g.roms) : Last(r.name) \in o.preferRomRegex
  IN  << when(o.preferGameRegex # {}, Order(game(a), game(b))),
         when(o.preferRomRegex # {}, Order(rom(a), rom(b))),
         when("verified" \in o.prefer, Order(Verified(a), Verified(b))),
         when("good" \in o.prefer, Order(~ Bad(a), ~ Bad(b))),
         PreferredFirst(o.preferLanguages, Languages(a), Languages(b)),
         PreferredFirst(o.preferRegions, Regions(a), Regions(b)),
         IF "newer" \in o.prefer THEN b.name.rev - a.name.rev
         ELSE IF "older" \in o.prefer THEN a.name.rev - b.name.rev ELSE 0,
         when("retail" \in o.prefer, Order(Retail(a), Retail(b))),
         when("parent" \in o.prefer, Order(~ IsClone(a), ~ IsClone(b))) >>

\* sort(): the first comparison that tells them apart, and at last the place.
SortsBefore(gs, i, j) ==
  LET c == Comparisons(gs[i], gs[j])
      decides == {k \in DOMAIN c : c[k] # 0}
  IN  IF decides = {} THEN i < j ELSE c[CHOOSE k \in decides : \A l \in decides : k <= l] < 0

Preferred(f) ==
  IF Len(f.games) < 2 THEN f.games
  ELSE LET first == CHOOSE i \in DOMAIN f.games :
                      \A j \in DOMAIN f.games \ {i} : SortsBefore(f.games, i, j)
       IN  <<[f.games[first] EXCEPT !.cloneOf = NoName]>>

Prefer ==
  /\ stage = "prefer"
  /\ Proceed("done", IF options.single THEN Flatten(Families(games), Preferred) ELSE games)

Next == Combine \/ Infer \/ MergeSplit \/ MergeThrows \/ MergeDiscs \/ Filter \/ Prefer

Spec == Init /\ [][Next]_vars

(***************************************************************************)
(* Properties.  Names are unique in the DATs that are read, so that a name *)
(* tells which game a later stage has.                                     *)
(***************************************************************************)

Past(s) == s \in DOMAIN before
Count(s, x) == Cardinality({i \in DOMAIN s : s[i] = x})
NamesOf(family) == {g.name : g \in ToSet(family.games)}
SameFamily(gs, m, n) == \E f \in ToSet(Families(gs)) : {m, n} \subseteq NamesOf(f)

\* Whatever a DAT says of ids and names, and whatever a stage has made of it,
\* every game is in one family, once: the stages that go from family to family
\* neither lose nor repeat a game.
FamiliesPartition ==
  LET grouped == Flatten(Families(games), LAMBDA f : f.games)
  IN  Len(grouped) = Len(games) /\ \A g \in ToSet(games) : Count(grouped, g) = Count(games, g)

\* Where docs/usage/arcade.md says a game's files are, in each kind of set: its
\* own set, its BIOS's, its parent's, or the one of its family.
Root(gs, g) ==
  LET up[k \in 0..Len(gs)] ==
        IF k = 0 THEN g.name
        ELSE IF Known(gs, up[k - 1]) /\ Named(gs, up[k - 1]).romOf # NoName
             THEN Named(gs, up[k - 1]).romOf ELSE up[k - 1]
  IN  up[Len(gs)]
SetsOf(gs, g) ==
  {g.name} \cup (IF options.mergeRoms = "fullnonmerged" THEN {} ELSE {Root(gs, g)})
    \cup (IF options.mergeRoms \in {"split", "merged"}
          THEN {n \in {h.name : h \in ToSet(gs)} : SameFamily(gs, g.name, n)} ELSE {})
Holds(gs, names, sum) ==
  \E h \in ToSet(gs) : h.name \in names /\ \E r \in ToSet(h.roms) \cup ToSet(h.disks) : r.sum = sum

\* No dumped ROM or disk of a game disappears from the sets that a person with
\* that kind of collection looks for it in, and a full set has the devices too.
SetsAreComplete ==
  (Past("merge") /\ ~ Past("discs") /\ stage # "threw") =>
    LET gs == before["merge"]
        wanted(g) == Dumped(g.roms) \o Dumped(g.disks)
          \o (IF options.mergeRoms # "fullnonmerged" \/ ~ HasParentCloneInfo(gs) THEN <<>>
              ELSE Flatten(SelectSeq(g.deviceRefs, LAMBDA n : Known(gs, n)),
                           LAMBDA n : Dumped(Named(gs, n).roms)))
    IN  \A g \in ToSet(gs) : \A r \in ToSet(wanted(g)) : Holds(games, SetsOf(gs, g), r.sum)

\* Sets that are split or merged have nothing that their BIOS's or parent's set
\* has under the same name, and a merged set has no content twice.
NothingStoredTwice ==
  (Past("merge") /\ ~ Past("discs") /\ stage # "threw" /\ HasParentCloneInfo(before["merge"])) =>
    LET gs == before["merge"]
        wanted(r) == IF r.merge # NoRom THEN r.merge ELSE r.name
        above(g) ==
          (IF options.mergeRoms \in {"nonmerged", "split", "merged"}
           THEN {n \in {Root(gs, g)} : Known(gs, n) /\ "bios" \in ReleaseFeatures(Named(gs, n))} ELSE {})
            \cup (IF options.mergeRoms \in {"split", "merged"} THEN {g.cloneOf} ELSE {})
    IN  /\ \A g, h \in ToSet(games) : (h.name \in above(g) /\ h.name # g.name) =>
             \A r \in ToSet(g.roms), q \in ToSet(h.roms) : ~ (q.name = wanted(r) /\ q.sum = r.sum)
        /\ options.mergeRoms = "merged" =>
             \A g \in ToSet(games) : \A i, j \in DOMAIN g.roms :
               i # j => g.roms[i].sum # g.roms[j].sum

\* What the options rank, in the order of docs/roms/1g1r.md, least is best.
Rank(gs, i) ==
  LET g == gs[i]
      o == options
      first(preferred, has) ==
        LET at == {k \in DOMAIN preferred : preferred[k] \in has}
        IN  IF at = {} THEN Len(preferred) + 1 ELSE CHOOSE k \in at : \A l \in at : k <= l
      no(wanted, is) == IF wanted /\ ~ is THEN 1 ELSE 0
  IN  << no(o.preferGameRegex # {}, Matches(g.name, o.preferGameRegex)),
         no(o.preferRomRegex # {}, \E r \in ToSet(g.roms) : Last(r.name) \in o.preferRomRegex),
         no("verified" \in o.prefer, Verified(g)), no("good" \in o.prefer, ~ Bad(g)),
         first(o.preferLanguages, Languages(g)), first(o.preferRegions, Regions(g)),
         IF "newer" \in o.prefer THEN 9 - g.name.rev ELSE IF "older" \in o.prefer THEN g.name.rev ELSE 0,
         no("retail" \in o.prefer, Retail(g)), no("parent" \in o.prefer, ~ IsClone(g)), i >>
Less(r, s) == \E k \in DOMAIN r : r[k] < s[k] /\ \A l \in 1..(k - 1) : r[l] = s[l]

\* With --single every family keeps one game, and that none of the others
\* outranks: nine pairwise comparisons are together one order.
BestIsKept ==
  (stage = "done" /\ options.single) =>
    LET fs == Families(before["prefer"])
    IN  /\ Len(games) = Len(fs)
        /\ \A k \in DOMAIN fs : \E i \in DOMAIN fs[k].games :
             /\ games[k].name = fs[k].games[i].name
             /\ \A j \in DOMAIN fs[k].games \ {i} : Less(Rank(fs[k].games, i), Rank(fs[k].games, j))

=============================================================================
