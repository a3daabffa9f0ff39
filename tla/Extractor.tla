------------------------------ MODULE Extractor ------------------------------
(***************************************************************************)
(* What a reader gets of a page (crates/http/src/extractor.rs, content.rs, *)
(* noise.rs): the node of the page that scores best, with sections beside  *)
(* it, unless that is too little of the page; made into markdown without   *)
(* what is taken for noise; and passes that bring back headings and        *)
(* links that went with the noise.                                         *)
(*                                                                         *)
(* A document is the sequence of its elements in document order.  Only     *)
(* leaves have text, and texts are atoms of some length: one text is in a  *)
(* line of markdown or it is not.  Of classes, roles and ids an element    *)
(* has the one mark that says how the code takes it.  Of scripts there is  *)
(* the text their data is found to hold; metadata is left out.             *)
(***************************************************************************)
EXTENDS Naturals, Sequences, FiniteSets, Functions, SequencesExt, FiniteSetsExt

CONSTANTS
  Chars,        \* length of each text
  Fragments,       \* what pages are put together from: sequences of elements
  MaxFragments

NoText == "none"
Texts == DOMAIN Chars
Containers == {"article", "main", "section", "div", "form", "nav", "aside", "footer", "header"}
Scripts == {"json", "js"}       \* data islands; what running a script leaves behind
Leaves == {"h1", "h2", "h3", "p", "a", "img"} \cup Scripts
(* content: a class or id that scores; sidebar: a class both noise lists   *)
(* have; dot-nav: a class only the list for markdown has (.nav); sr-only:  *)
(* only the filter of the document; cta: a link to docs, an app or an API. *)
Marks == {"plain", "content", "sidebar", "dot-nav", "sr-only", "hidden", "dialog", "suspense",
          "announcement", "cta"}
Element == [tag : Containers \cup Leaves \cup {"body"}, mark : Marks, text : Texts \cup {NoText}, up : Nat]

ASSUME ExtractorAssumption ==
  /\ \A text \in Texts : Chars[text] \in Nat \ {0}
  /\ NoText \notin Texts /\ MaxFragments \in Nat
  /\ Fragments \subseteq Seq(Element)
  /\ \A fragment \in Fragments : \A n \in DOMAIN fragment : fragment[n].up < n

VARIABLES
  document, fragments,    \* the page; how many fragments it has
  rejected,               \* extraction_note: the whole page was taken
  chosen,                  \* the elements taken, in the order they are joined
  converted, markdown     \* the markdown of these, and with what is brought back
extractVars == <<document, fragments, rejected, chosen, converted, markdown>>

-----------------------------------------------------------------------------
(* Elements of a document, by place; the body is the first. *)
Above(doc, n) ==
  LET above[m \in DOMAIN doc] == IF m = 1 THEN {} ELSE {doc[m].up} \cup above[doc[m].up]
  IN  above[n]
Within(doc, n) == {m \in n..Len(doc) : m = n \/ n \in Above(doc, m)}
Tagged(doc, places, tags) == {n \in places : doc[n].tag \in tags}
InOrder(places) ==
  [k \in 1..Cardinality(places) |->
     CHOOSE n \in places : Cardinality({m \in places : m < n}) = k - 1]

(* One step after the other, each on what the last one left. *)
Through(steps, start) ==
  LET after[k \in 0..Len(steps)] == IF k = 0 THEN start ELSE steps[k][after[k - 1]]
  IN  after[Len(steps)]

Length(text) == IF text = NoText THEN 0 ELSE Chars[text]
TextOf(doc, places) == MapThenSumSet(LAMBDA n : Length(doc[n].text), places)
CharsPerWord == 6

-----------------------------------------------------------------------------
(* Noise.  An element with a noise class but very much text is a wrapper   *)
(* that was never closed.                                                  *)
StructuralNoise == {"nav", "aside", "footer", "header"}
IsNoise(doc, present, n) ==
  LET size == TextOf(doc, Within(doc, n) \cap present)
  IN  \/ doc[n].tag \in StructuralNoise \cup Scripts
      \/ doc[n].tag = "form" /\ size < 500
      \/ doc[n].tag \notin {"body", "form"} /\ doc[n].mark \in {"sidebar", "sr-only"} /\ size <= 5000
      \/ doc[n].tag \notin {"body", "form"} /\ doc[n].mark = "hidden"

Clear(doc, n) == \A m \in {n} \cup Above(doc, n) : ~IsNoise(doc, DOMAIN doc, m)

(* Scripts and NOISE_SELECTORS go before the filter looks, which may then  *)
(* find less text in an element.                                           *)
Selected(element) ==
  element.tag \in {"nav", "footer", "header"} \cup Scripts \/ element.mark \in {"sidebar", "dot-nav"}
LeftOf(doc, present, Drops(_)) ==
  {n \in present : \A m \in ({n} \cup Above(doc, n)) \cap present : ~Drops(m)}
Remaining(doc, present) ==
  LET selected == LeftOf(doc, present, LAMBDA m : Selected(doc[m]))
  IN  LeftOf(doc, selected, LAMBDA m : IsNoise(doc, selected, m))

-----------------------------------------------------------------------------
(* The best node.  Scores are in hundredths, and the logarithm is linear   *)
(* between powers of two.                                                  *)
Ln(x) ==
  LET k == Max({i \in 0..20 : 2^i <= x}) IN 69 * k + (69 * (x - 2^k)) \div 2^k

Rating(doc, n) ==
  LET size == TextOf(doc, Within(doc, n))
      links == TextOf(doc, Tagged(doc, Within(doc, n), {"a"}))
      semantic == doc[n].tag \in {"article", "main"}
      signals == Ln(size) + (IF semantic THEN 5000 ELSE 0) + (IF doc[n].mark = "content" THEN 2500 ELSE 0)
                   + 300 * Cardinality(Tagged(doc, Within(doc, n), {"p"}))
      dense == IF semantic THEN 7 ELSE 5
      mixed == IF semantic THEN 5 ELSE 3
      tenths == IF 10 * links > dense * size THEN (IF semantic THEN 3 ELSE 1)
                ELSE IF 10 * links > mixed * size THEN 5 ELSE 10
  IN  IF size < 50 THEN 0 ELSE (tenths * signals) \div 10

(* The body, 1, stands for none so far. *)
BestNode(doc) ==
  LET better(n, best) ==
        /\ doc[n].tag \in {"article", "main", "div", "section"} /\ Clear(doc, n)
        /\ Rating(doc, n) > (IF best = 1 THEN 0 ELSE Rating(doc, best))
      look == [n \in DOMAIN doc |-> [best \in DOMAIN doc |-> IF better(n, best) THEN n ELSE best]]
  IN  Through(look, 1)

(* Sections beside the best node, and beside the two elements around it.   *)
Substantial(doc, n) ==
  LET words == TextOf(doc, Within(doc, n)) \div CharsPerWord
  IN  \/ doc[n].tag = "section" /\ words >= 50
      \/ doc[n].tag = "div" /\ (words >= 100 \/ doc[n].mark = "suspense")
(* Mutant: the element itself is beside itself. *)
BesideOrItself(doc, n) == {m \in Tagged(doc, 2..Len(doc), {"section", "div"}) : doc[m].up = doc[n].up}
Beside(doc, n) ==
  {m \in Tagged(doc, 2..Len(doc), {"section", "div"}) : doc[m].up = doc[n].up /\ m # n}
SiblingSections(doc, best) ==
  LET path == Reverse(InOrder((Above(doc, best) \cup {best}) \ {1}))
      beside(l) == IF l > Len(path) THEN <<>>
                   ELSE InOrder({m \in Beside(doc, path[l]) : Clear(doc, m) /\ Substantial(doc, m)})
  IN  beside(1) \o beside(2) \o beside(3)

(* The sanity gate: an extract with little of the page's text gives way to *)
(* the whole page.                                                         *)
SourceFloor == 500
Rejected(doc, taken) ==
  LET visible(places) == TextOf(doc, {n \in places : doc[n].tag \notin Scripts})
      source == visible(DOMAIN doc)
      kept == visible(UNION {Within(doc, r) : r \in Range(taken)})
  IN  source >= SourceFloor /\ 10 * kept < source

-----------------------------------------------------------------------------
(* Markdown: lines of one text, and of the kind the element makes it.      *)
Kinds == Containers \cup Leaves \cup {"body", "banner", "eyebrow", "category", "name"}
MdLine(kind, text) == [kind |-> kind, text |-> text]
Markdown == Seq([kind : Kinds, text : Texts \cup {NoText}])

(* What is put into the lines for each of some elements. *)
Each(Put(_, _), places) ==
  [k \in DOMAIN places |-> [lines \in Markdown |-> Put(lines, places[k])]]

LinesOf(doc, places) ==
  LET order == InOrder({n \in places : doc[n].text # NoText})
  IN  [k \in DOMAIN order |-> MdLine(doc[order[k]].tag, doc[order[k]].text)]
ToMarkdown(doc, taken) ==
  LET remaining == Remaining(doc, UNION {Within(doc, r) : r \in Range(taken)})
      add(lines, r) == lines \o LinesOf(doc, remaining \cap Within(doc, r))
  IN  Through(Each(add, taken), <<>>)

Shows(md, text) == \E k \in DOMAIN md : md[k].text = text
(* Where a text is, but as the description of an image; 0 if nowhere.      *)
Place(md, text) == SelectInSeq(md, LAMBDA line : line.text = text /\ line.kind # "img")

(* Short lines, the numbers of a statistic mostly, stay under a heading. A *)
(* link, with its address, is never that short.                            *)
OrphanChars == 25
IsOrphan(line) == line.kind = "p" /\ Length(line.text) <= OrphanChars
(* Mutant: paragraphs of any length are skipped. *)
PastParagraphs(md, place) == Min({k \in 1..place : \A j \in k..(place - 1) : md[j].kind = "p"})
PastOrphans(md, place) == Min({k \in 1..place : \A j \in k..(place - 1) : IsOrphan(md[j])})

-----------------------------------------------------------------------------
(* What is brought back, in this order.                                    *)
(* The title, and with it a paragraph near the first h1 of the page.       *)
Title(doc) ==
  LET headings == {n \in Tagged(doc, DOMAIN doc, {"h1"}) :
        /\ ~IsNoise(doc, DOMAIN doc, n)
        /\ \A m \in Above(doc, n) : doc[m].mark # "dialog"}
  IN  IF headings = {} THEN NoText ELSE doc[Min(headings)].text

HeroLevels == 4
Hero(doc, md) ==
  LET heading == Min(Tagged(doc, DOMAIN doc, {"h1"}))
      around == Reverse(InOrder(Above(doc, heading)))
      fits(n) == {m \in Tagged(doc, Within(doc, n), {"p"}) :
                    Length(doc[m].text) \in 40..300 /\ ~Shows(md, doc[m].text)}
      level == SelectInSeq(SubSeq(around, 1, Min({HeroLevels, Len(around)})), LAMBDA n : fits(n) # {})
  IN  IF level = 0 THEN <<>> ELSE <<MdLine("p", doc[Min(fits(around[level]))].text)>>

RecoverTitle(doc, md, title) ==
  IF title = NoText \/ Shows(md, title) THEN md
  ELSE LET headed == <<MdLine("h1", title)>> \o md
       IN  <<MdLine("h1", title)>> \o Hero(doc, headed) \o md

RecoverAnnouncements(doc, md) ==
  LET announced(lines, n) ==
        IF Shows(lines, doc[n].text) THEN lines ELSE <<MdLine("banner", doc[n].text)>> \o lines
  IN  Through(Each(announced, InOrder({n \in DOMAIN doc : doc[n].mark = "announcement"})), md)

(* The heading of a section some of whose text is there goes above it.     *)
Section(doc, h) == Max(Tagged(doc, Above(doc, h), {"section", "article", "main", "body"}))
Anchors(doc, md, h) ==
  {n \in Tagged(doc, Within(doc, Section(doc, h)), {"p", "h3"}) :
     /\ doc[n].text # doc[h].text
     /\ Length(doc[n].text) > 15 /\ Place(md, doc[n].text) # 0}
RecoverHeading(doc, md, h) ==
  LET anchors == Anchors(doc, md, h)
      at == PastOrphans(md, Place(md, doc[Min(anchors)].text))
  IN  IF \/ Place(md, doc[h].text) # 0 \/ anchors = {}
         \/ \E m \in Above(doc, h) : doc[m].tag \in StructuralNoise
      THEN md
      ELSE InsertAt(md, at, MdLine("h2", doc[h].text))

(* The short lines above a heading in the same element. *)
Eyebrows(doc, h) ==
  {n \in Tagged(doc, 2..(h - 1), {"p"}) : doc[n].up = doc[h].up /\ Length(doc[n].text) <= 80}
RecoverEyebrows(doc, md, h) ==
  LET put(lines, n) ==
        IF Shows(lines, doc[n].text) THEN lines
        ELSE InsertAt(lines, Place(lines, doc[h].text), MdLine("eyebrow", doc[n].text))
  IN  IF Place(md, doc[h].text) = 0 THEN md ELSE Through(Each(put, InOrder(Eyebrows(doc, h))), md)

RecoverSectionHeadings(doc, md) ==
  LET headings == InOrder(Tagged(doc, DOMAIN doc, {"h2"}))
      heading(lines, h) == RecoverHeading(doc, lines, h)
      eyebrows(lines, h) == RecoverEyebrows(doc, lines, h)
  IN  Through(Each(eyebrows, headings), Through(Each(heading, headings), md))

(* Headings of footers, and links to docs or apps, go below everything.    *)
Footers(doc) == InOrder(Tagged(doc, DOMAIN doc, {"footer"}))
RecoverFooterCta(doc, md) ==
  LET headings(f) == {n \in Tagged(doc, Within(doc, f), {"h2"}) : doc[n].mark # "sr-only"}
      links(f) == {n \in Tagged(doc, Within(doc, f), {"a"}) : doc[n].mark = "cta"}
      put(lines, n) ==
        IF Shows(lines, doc[n].text) THEN lines ELSE Append(lines, MdLine(doc[n].tag, doc[n].text))
      footer(lines, f) == Through(Each(put, InOrder(headings(f)) \o InOrder(links(f))), lines)
  IN  Through(Each(footer, Footers(doc)), md)

(* Three headings of a footer with links beside them are a map of the site. *)
LinksBeside(doc, h) ==
  LET path == Reverse(InOrder(Above(doc, h)))
      links(n) == Tagged(doc, Within(doc, n), {"a"})
      level == SelectInSeq(SubSeq(path, 1, Min({2, Len(path)})), LAMBDA n : Cardinality(links(n)) >= 2)
  IN  IF level = 0 THEN {} ELSE {n \in links(path[level]) : Length(doc[n].text) \in 2..59}
Categories(doc, md, f) ==
  {h \in Tagged(doc, Within(doc, f), {"h2", "h3"}) :
     /\ Length(doc[h].text) <= 50 /\ ~Shows(md, doc[h].text)
     /\ Cardinality(LinksBeside(doc, h)) \in 2..20}
RecoverFooterSitemap(doc, md) ==
  LET names(h) == LET links == InOrder(LinksBeside(doc, h))
                  IN  [k \in DOMAIN links |-> MdLine("name", doc[links[k]].text)]
      category(lines, h) == Append(lines, MdLine("category", doc[h].text)) \o names(h)
      footer(lines, f) ==
        LET categories == Categories(doc, lines, f)
        IN  IF Cardinality(categories) < 3 THEN lines ELSE Through(Each(category, InOrder(categories)), lines)
  IN  Through(Each(footer, Footers(doc)), md)

(* What the scripts of a page hold.  If there are few words, the texts of  *)
(* its data islands that are not there already; and whatever there is, the *)
(* texts that running its scripts leaves behind.                           *)
SparseWords == 500
RecoverIslands(doc, md) ==
  LET words == MapThenSumSet(LAMBDA k : Length(md[k].text), DOMAIN md) \div CharsPerWord
      put(lines, n) ==
        IF Shows(lines, doc[n].text) THEN lines ELSE Append(lines, MdLine("json", doc[n].text))
  IN  IF words >= SparseWords THEN md ELSE Through(Each(put, InOrder(Tagged(doc, DOMAIN doc, {"json"}))), md)
RecoverScripts(doc, md) ==
  LET readable == {n \in Tagged(doc, DOMAIN doc, {"js"}) : Length(doc[n].text) > 15}
      places == InOrder({n \in readable : ~\E m \in readable : m < n /\ doc[m].text = doc[n].text})
  IN  md \o [k \in DOMAIN places |-> MdLine("js", doc[places[k]].text)]
RecoverData(doc, md) == RecoverScripts(doc, RecoverIslands(doc, md))

-----------------------------------------------------------------------------
Candidates(doc) == LET best == BestNode(doc) IN <<best>> \o SiblingSections(doc, best)
(* One pass after the other. *)
Recover(doc, md, title) ==
  LET titled == RecoverTitle(doc, md, title)
      announced == RecoverAnnouncements(doc, titled)
      headed == RecoverSectionHeadings(doc, announced)
      linked == RecoverFooterCta(doc, headed)
      mapped == RecoverFooterSitemap(doc, linked)
  IN  RecoverData(doc, mapped)

(* A page grows by a fragment, at the end of the body or of an element the    *)
(* page ends in.                                                           *)
Body == [tag |-> "body", mark |-> "plain", text |-> NoText, up |-> 0]
Graft(doc, fragment, into) ==
  doc \o [n \in DOMAIN fragment |->
            [fragment[n] EXCEPT !.up = IF @ = 0 THEN into ELSE Len(doc) + @]]

ExtractInit ==
  /\ document = <<Body>> /\ fragments = 0
  /\ rejected = FALSE /\ chosen = <<1>> /\ converted = <<>> /\ markdown = <<>>
Grow(fragment, into) ==
  /\ fragments < MaxFragments /\ fragments' = fragments + 1
  /\ into \in Tagged(document, Above(document, Len(document)) \cup {Len(document)}, {"body"} \cup Containers)
  /\ document' = Graft(document, fragment, into)
  /\ rejected' = Rejected(document', Candidates(document'))
  /\ chosen' = IF rejected' THEN <<1>> ELSE Candidates(document')
  /\ converted' = ToMarkdown(document', chosen')
  /\ markdown' = Recover(document', converted', IF rejected' THEN NoText ELSE Title(document'))
ExtractNext == \E fragment \in Fragments : \E into \in DOMAIN document : Grow(fragment, into)
ExtractSpec == ExtractInit /\ [][ExtractNext]_extractVars

-----------------------------------------------------------------------------
(* A text is brought back once: no pass repeats what an earlier one found, *)
(* and no section is copied together with one it holds.  Only names in the *)
(* map of a site and what scripts leave behind are not looked for.         *)
NothingTwice ==
  LET unchecked == {"img", "a", "name", "js"}
      copies(text) == {k \in DOMAIN markdown :
        markdown[k].text = text /\ markdown[k].kind \notin unchecked}
      given(text) == {n \in DOMAIN document : document[n].text = text /\ document[n].tag \notin unchecked \cup {"json"}}
  IN  \A text \in {markdown[k].text : k \in DOMAIN markdown} : Cardinality(copies(text)) <= Max({1, Cardinality(given(text))})

(* A heading brought back stands over text of its own section, with only   *)
(* other headings and short lines between, whatever is brought back later. *)
HeadingOverOwnText ==
  \A k \in DOMAIN markdown :
    LET line == markdown[k]
        origins == {h \in Tagged(document, DOMAIN document, {"h2"}) : document[h].text = line.text}
        between(j) == \A i \in (k + 1)..(j - 1) :
                        markdown[i].kind \in {"h2", "eyebrow"} \/ IsOrphan(markdown[i])
        under == {j \in (k + 1)..Len(markdown) : between(j) /\ markdown[j].text # line.text}
    IN  \/ line.kind # "h2" \/ line \in Range(converted)
        \/ \E h \in origins : \E m \in Above(document, h) : document[m].tag \in StructuralNoise
        \/ \E h \in origins : \E n \in Within(document, Section(document, h)), j \in under :
             document[n].text = markdown[j].text
=============================================================================
