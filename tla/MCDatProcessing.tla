-------------------------- MODULE MCDatProcessing --------------------------
(***************************************************************************)
(* Console DATs, by name or by id, of regional releases, revisions, bad    *)
(* dumps, betas and discs, with families given, missing or orphaned; and   *)
(* an arcade DAT with a BIOS, a device, a parent and its clones.           *)
(***************************************************************************)
EXTENDS DatProcessing

MCTitles == <<"bios", "cd", "dev", "one", "two">>
MCLanguageOf == [r \in {"USA", "JPN", "EUR"} |-> CASE r = "JPN" -> "JA" [] OTHER -> "EN"]

Title(t) == [NoName EXCEPT !.title = t]
Release(t, r) == [Title(t) EXCEPT !.region = r]
Variant(n, ts, v) == [n EXCEPT !.tags = ts, !.rev = v]
Disc(n, d) == [n EXCEPT !.disc = d]

Rom(n, s) == [name |-> <<n>>, sum |-> s, nodump |-> FALSE, merge |-> NoRom, bios |-> FALSE]
Game(n, rs) ==
  [name |-> n, id |-> NoId, cloneOf |-> NoName, cloneOfId |-> NoId, romOf |-> NoName,
   deviceRefs |-> <<>>, kind |-> {}, categories |-> {}, maker |-> "", releases |-> {},
   roms |-> rs, disks |-> <<>>, discs |-> <<>>]

(***************************************************************************)
(* Console DATs.                                                           *)
(***************************************************************************)

Usa == Game(Release("one", "USA"), <<Rom("a", "1")>>)
Usa2 == Game(Variant(Release("one", "USA"), {"[!]"}, 2), <<Rom("b", "2")>>)
Jpn == Game([Release("one", "JPN") EXCEPT !.langs = {"JA", "EN"}], <<Rom("a", "3")>>)
Eur == Game(Release("one", "EUR"), <<Rom("c", "6")>>)
Beta == Game(Variant(Release("one", "JPN"), {"beta"}, 0), <<Rom("a", "4")>>)
Bad1 == Game(Variant(Release("one", ""), {"[b]"}, 1), <<Rom("a", "5")>>)
Demo == [Game(Release("two", "USA"), <<Rom("a", "7")>>) EXCEPT !.categories = {"demo"}]
Lone == [Game(Release("two", ""), <<Rom("a", "8")>>) EXCEPT !.releases = {"JPN"}, !.maker = "bootleg"]

Id(g, i) == [g EXCEPT !.id = i]
Clone(g, p) == [g EXCEPT !.cloneOf = p.name]
IdClone(g, i, p) == [g EXCEPT !.id = i, !.cloneOfId = p]

Plain == <<Beta, Jpn, Usa2, Demo, Usa, Bad1, Lone>>
ByName == <<Clone(Usa2, Usa), Usa, Clone(Jpn, Usa), Clone(Demo, Lone), Lone>>
ById == <<IdClone(Eur, "e", "u"), Id(Usa, "u"), IdClone(Jpn, "j", "u"), Id(Demo, "d")>>
Orphans == <<Clone(Jpn, Bad1), Clone(Usa, Bad1), Demo>>
IdOrphans == <<IdClone(Jpn, "j", "x"), IdClone(Eur, "e", "x"), Id(Demo, "d")>>

CdUsa(d, s) == Game(Disc(Release("cd", "USA"), d), <<Rom("t", s), Rom("c", "c")>>)
CdJpn(d, s) == Game(Disc(Release("cd", "JPN"), d), <<Rom("t", s), Rom("c", "c")>>)
Discs == <<CdUsa(1, "U1"), CdUsa(2, "U2"), Usa, CdJpn(1, "J1"), CdJpn(2, "J2")>>
DiscRegions == <<CdUsa(1, "U1"), CdJpn(1, "J1"), Usa, CdUsa(2, "U2")>>

(***************************************************************************)
(* An arcade DAT.                                                          *)
(***************************************************************************)

BiosRom == Rom("z", "Z")
Bios == [Game(Title("bios"), <<BiosRom, [Rom("n", "") EXCEPT !.nodump = TRUE]>>) EXCEPT !.kind = {"bios"}]
Device == [Game(Title("dev"), <<Rom("d", "D"), [Rom("y", "") EXCEPT !.nodump = TRUE]>>) EXCEPT !.kind = {"device"}]
Arcade ==
  [Game(Title("one"), <<Rom("p", "P"), Rom("q", "Q"), Rom("p", "P"), BiosRom>>) EXCEPT
     !.romOf = Title("bios"), !.deviceRefs = <<Title("dev"), Title("two"), Title("dev")>>,
     !.disks = <<Rom("h", "H")>>]
ArcadeClone(n, rs) ==
  [Game(n, rs) EXCEPT !.cloneOf = Title("one"), !.romOf = Title("one"),
                      !.deviceRefs = <<Title("dev")>>, !.disks = <<Rom("h", "H")>>]
Clone1 == ArcadeClone(Release("one", "JPN"),
            <<[Rom("p1", "P") EXCEPT !.merge = <<"p">>], Rom("q", "R"), BiosRom>>)
Clone2 == ArcadeClone(Release("one", "EUR"), <<Rom("p", "P"), Rom("q", "R"), Rom("x", "Q"), BiosRom>>)
\* A parent that has its BIOS's files itself, and a `romof` that leads nowhere.
OwnBios == Game(Release("two", "USA"), <<[BiosRom EXCEPT !.bios = TRUE], Rom("p", "S")>>)
OwnClone == [Clone(Game(Release("two", "JPN"), <<[BiosRom EXCEPT !.bios = TRUE], Rom("p", "T")>>), OwnBios)
               EXCEPT !.romOf = OwnBios.name]
Lost == [Game(Release("two", "EUR"), <<Rom("l", "L"), BiosRom>>) EXCEPT !.romOf = Title("nothing")]

ArcadeDat == <<Clone1, Arcade, Clone2, Bios, Device, OwnClone, OwnBios, Lost>>

ConsoleDats ==
  {<<Plain>>, <<ByName>>, <<ById>>, <<Orphans>>, <<IdOrphans>>, << <<>> >>, <<Plain, <<Usa, Eur>> >>}
DiscDats == {<<Discs>>, <<DiscRegions>>, <<ById, Discs>>}

(***************************************************************************)
(* Options.                                                                *)
(***************************************************************************)

Filters ==
  {[no |-> n, only |-> o, filterLanguage |-> l, filterRegion |-> r,
    filterRegex |-> x, filterRegexExclude |-> y] :
     n \in {{}, {"bad", "bios"}, {"beta", "unverified"}}, o \in {{}, {"retail"}}, l \in {{}, {"JA"}},
     r \in {{}, {"JPN", "EUR"}}, x \in {{}, {"one"}}, y \in {{}, {"USA"}, {"JPN"}}}
SomeFilters ==
  {f \in Filters : Cardinality({k \in DOMAIN f : f[k] # {}}) <= 1}

Preferences ==
  {[preferGameRegex |-> g, preferRomRegex |-> m, prefer |-> p, preferLanguages |-> l, preferRegions |-> r] :
     g \in {{}, {"beta"}}, m \in {{}, {"a"}},
     p \in {{}, {"verified", "older"}, {"good", "newer"}, {"retail", "parent"}},
     l \in {<<>>, <<"JA", "EN">>, <<"EN", "JA">>}, r \in {<<>>, <<"EUR", "JPN">>}}
NoPreference ==
  [preferGameRegex |-> {}, preferRomRegex |-> {}, prefer |-> {}, preferLanguages |-> <<>>, preferRegions |-> <<>>]

Setting(ignore, merge, discs, single, f, p) ==
  [ignoreParentClone |-> ignore, mergeRoms |-> merge, mergeDiscs |-> discs, single |-> single] @@ f @@ p

Modes == {"none", "fullnonmerged", "nonmerged", "split", "merged"}
NoFilter == CHOOSE f \in Filters : \A k \in DOMAIN f : f[k] = {}

Pairs(dats, settings) == {[dats |-> d, options |-> o] : d \in dats, o \in settings}

MCRuns ==
  Pairs({<<ArcadeDat>>}, {Setting(FALSE, m, d, TRUE, NoFilter, NoPreference) : m \in Modes, d \in BOOLEAN})
  \cup Pairs(ConsoleDats \cup DiscDats,
             {Setting(i, m, d, TRUE, NoFilter, NoPreference) : i \in BOOLEAN, m \in Modes, d \in BOOLEAN})
  \cup Pairs(ConsoleDats \cup DiscDats,
             {Setting(i, "none", d, s, f, NoPreference) :
                i \in BOOLEAN, d \in BOOLEAN, s \in BOOLEAN, f \in SomeFilters})
  \cup Pairs(ConsoleDats, {Setting(i, "none", FALSE, TRUE, NoFilter, p) : i \in BOOLEAN, p \in Preferences})
=============================================================================
