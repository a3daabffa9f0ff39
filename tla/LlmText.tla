------------------------------- MODULE LlmText -------------------------------
(***************************************************************************)
(* The text a reader of format "llm" gets (crates/http/src/llm): a chain   *)
(* of passes over the lines of a page's markdown, each of which drops,     *)
(* joins or rewrites lines it takes for noise or for repetition, and a     *)
(* list of the links.                                                      *)
(*                                                                         *)
(* A line is a mark and the words after it, told apart up to case; a       *)
(* comma list has its items for words, an image its alt text.  What a      *)
(* pattern matches is the kind of a word.  The passes are those of         *)
(* process_body in its order, but for the rewriting of characters          *)
(* (entities, invisible characters, spaced letters, emphasis), images      *)
(* inside a line and the shortening of very long lines.                    *)
(***************************************************************************)
EXTENDS Naturals, Sequences, FiniteSets, Functions, SequencesExt, FiniteSetsExt

CONSTANTS
  Words,
  Width,          \* characters of each word
  Kind,           \* what each word is taken for: prose, or a kind of noise
  Href,           \* where the word links to, NoHref if it does not
  PrefixWords,    \* DEDUP_PREFIX_WORDS
  Pieces,         \* the pieces pages are put together from: sequences of lines
  MaxPieces

NoHref == "none"
Level == [mark \in {"#", "##"} |-> IF mark = "#" THEN 1 ELSE 2]
Mark == DOMAIN Level \cup {"text", "-", "list", "fence", "image"}
Line == [mark : Mark, words : Seq(Words)]

ASSUME TextAssumption ==
  /\ Width \in [Words -> Nat \ {0}] /\ DOMAIN Kind = Words /\ DOMAIN Href = Words
  /\ PrefixWords \in Nat \ {0} /\ MaxPieces \in Nat
  /\ \A piece \in Pieces : piece \in Seq(Line)

VARIABLES
  page, used,     \* the markdown of the page; pieces it has
  body            \* what is made of it
pageVars == <<page, used, body>>

-----------------------------------------------------------------------------
(* The members of a sequence at some of its places. *)
Keep(s, places) ==
  LET upTo[n \in 0..Len(s)] ==
        IF n = 0 THEN <<>>
        ELSE IF n \in places THEN Append(upTo[n - 1], s[n]) ELSE upTo[n - 1]
  IN  upTo[Len(s)]

Sum(numbers) ==
  LET upTo[n \in 0..Len(numbers)] == IF n = 0 THEN 0 ELSE upTo[n - 1] + numbers[n]
  IN  upTo[Len(numbers)]

(* Lines written one by one: the same sequence, as a tuple that TLC works  *)
(* out once.                                                               *)
Lines(doc) == <<>> \o doc

(* A walk over the places of a sequence: what each place it comes to       *)
(* gives, and where it goes on from there.                                 *)
Walked(gives, next) ==
  LET From[n \in 1..(Len(gives) + 1)] ==
        IF n > Len(gives) THEN <<>> ELSE gives[n] \o From[next[n]]
  IN  From[1]

(* Lines. *)
Blank == [mark |-> "text", words |-> <<>>]
IsHeading(line) == line.mark \in DOMAIN Level
IsFence(line) == line.mark = "fence"
Having(line, words) ==                  \* nothing is left of an empty list
  IF line.mark = "list" /\ words = <<>> THEN Blank ELSE [line EXCEPT !.words = words]
IsStructural(line) == IsHeading(line) \/ line.mark \in {"-", "fence"}

MarkSize == [mark \in Mark |->
  CASE mark = "#" -> 2 [] mark = "##" -> 3 [] mark = "-" -> 2 [] mark = "fence" -> 3 [] OTHER -> 0]
Size(line) ==
  LET gaps == IF line.words = <<>> THEN 0 ELSE Len(line.words) - 1
  IN  MarkSize[line.mark] + Sum([n \in DOMAIN line.words |-> Width[line.words[n]]])
        + (IF line.mark = "list" THEN 2 ELSE 1) * gaps

(* The words that have a letter or a digit. *)
Key(words) == Keep(words, {n \in DOMAIN words : Kind[words[n]] # "punct"})

(* A line is outside code if the fences above it come in pairs. *)
Outside(doc, n) == Cardinality({m \in 1..(n - 1) : IsFence(doc[m])}) % 2 = 0

(* Lines from n on that are not blank; the first of them, 0 if none.       *)
NextLine(doc, n) ==
  LET later == {m \in n..Len(doc) : doc[m] # Blank} IN IF later = {} THEN 0 ELSE Min(later)

LineAfter(doc, n) == IF n = Len(doc) THEN 0 ELSE NextLine(doc, n + 1)

-----------------------------------------------------------------------------
(* Noise.  What a pattern matches on a line of its own is one word here.   *)
OfKind(line, kind) == line.mark = "text" /\ Len(line.words) = 1 /\ Kind[line.words[1]] = kind

Without(doc, kind) == Keep(doc, {n \in DOMAIN doc : ~OfKind(doc[n], kind)})
WithoutOutside(doc, kind) ==
  Keep(doc, {n \in DOMAIN doc : Outside(doc, n) => ~OfKind(doc[n], kind)})

(* What follows leaked script, and what is said to a screen reader.        *)
BeforeScript(words) ==
  LET script == {n \in DOMAIN words : Kind[words[n]] = "script"}
  IN  IF script = {} THEN words ELSE SubSeq(words, 1, Min(script) - 1)
WithoutChrome(words) == Keep(words, {n \in DOMAIN words : Kind[words[n]] # "chrome"})
StripLeakedJs(doc) ==
  Lines([n \in DOMAIN doc |-> IF Outside(doc, n) /\ ~IsFence(doc[n])
                              THEN Having(doc[n], BeforeScript(doc[n].words)) ELSE doc[n]])
StripA11yLinkChrome(doc) ==
  Lines([n \in DOMAIN doc |-> IF Outside(doc, n) /\ ~IsFence(doc[n])
                              THEN Having(doc[n], WithoutChrome(doc[n].words)) ELSE doc[n]])

StripBareImageRefs(doc) == Without(doc, "file")
StripAltTextNoise(doc) == WithoutOutside(doc, "alt")
StripLongAltDescriptions(doc) == Without(doc, "description")
StripCssArtifacts(doc) == Without(doc, "css")
StripAssetLabels(doc) == WithoutOutside(doc, "asset")

(* Controls, and numbers beside them; numbers that are a paragraph. *)
IsUiControlLine(line) ==
  /\ line.mark = "text"
  /\ \A n \in DOMAIN line.words : Kind[line.words[n]] \in {"control", "number"}
  /\ \E n \in DOMAIN line.words : Kind[line.words[n]] = "control"
StripUiControlText(doc) == Keep(doc, {n \in DOMAIN doc : ~IsUiControlLine(doc[n])})

IsIsolated(doc, n) ==
  (n = 1 \/ doc[n - 1] = Blank) /\ (n = Len(doc) \/ doc[n + 1] = Blank)
StripBareNumberLines(doc) ==
  Keep(doc, {n \in DOMAIN doc :
    ~(Outside(doc, n) /\ OfKind(doc[n], "number") /\ IsIsolated(doc, n))})

(* Lines of which most words are CSS class names; two or more of them at   *)
(* the end of a line.                                                      *)
MostlyClasses(line) ==
  /\ line.mark \in {"text", "list"} /\ Len(line.words) >= 3
  /\ 2 * Cardinality({n \in DOMAIN line.words : Kind[line.words[n]] = "class"}) > Len(line.words)
WithoutClasses(words) ==
  LET content == {n \in DOMAIN words : Kind[words[n]] # "class"}
      last == IF content = {} THEN 0 ELSE Max(content)
  IN  IF Len(words) >= 3 /\ Len(words) - last >= 2 THEN SubSeq(words, 1, last) ELSE words
StripCssClassLines(doc) ==
  LET lines == Keep(doc, {n \in DOMAIN doc : Outside(doc, n) =>
                 ~MostlyClasses(doc[n]) /\ doc[n] # [mark |-> "-", words |-> <<>>]})
  IN  Lines([n \in DOMAIN lines |->
               IF Outside(lines, n) /\ lines[n].mark \in {"text", "list"}
               THEN Having(lines[n], WithoutClasses(lines[n].words)) ELSE lines[n]])

(* No two blank lines in a row, none at either end. *)
CollapseWhitespace(doc) ==
  Keep(doc, {n \in DOMAIN doc : doc[n] = Blank =>
    n > 1 /\ doc[n - 1] # Blank /\ NextLine(doc, n) # 0})

-----------------------------------------------------------------------------
(* Images that are alone on their lines: of several in a row, blank lines  *)
(* aside, the alt texts in a list; of one, the alt text if it is long.     *)
CollapseLogoImages(doc) ==
  LET End(n) ==
        LET other == {m \in n..Len(doc) : doc[m] # Blank /\ doc[m].mark # "image"}
        IN  IF other = {} THEN Len(doc) + 1 ELSE Min(other)
      Alts(n) == FlattenSeq([m \in 1..(End(n) - n) |-> doc[n + m - 1].words])
      Listing(alts) ==
        IF Len(alts) >= 2 THEN <<[mark |-> "list", words |-> alts]>>
        ELSE IF Len(alts) = 1 /\ Width[alts[1]] > 30 THEN <<[mark |-> "text", words |-> alts]>>
        ELSE <<>>
      Image(n) == doc[n].mark = "image"
  IN  Walked([n \in DOMAIN doc |-> IF Image(n) THEN Listing(Alts(n)) ELSE <<doc[n]>>],
             [n \in DOMAIN doc |-> IF Image(n) THEN End(n) ELSE n + 1])

(* The links of the text, each target once, with the text it came first    *)
(* with.                                                                   *)
LinksOf(doc) ==
  LET words == FlattenSeq([n \in DOMAIN doc |-> doc[n].words])
      Links(n) == Href[words[n]] # NoHref /\ Kind[words[n]] \notin {"control", "number"}
      First(n) == \A m \in 1..(n - 1) : Links(m) => Href[words[m]] # Href[words[n]]
      listed == Keep(words, {n \in DOMAIN words : Links(n) /\ First(n)})
  IN  [n \in DOMAIN listed |-> [text |-> listed[n], href |-> Href[listed[n]]]]

-----------------------------------------------------------------------------
(* Repetition on one line. *)
(* "Learn more" and the text of the line above; of several in a row every  *)
(* second stays.                                                           *)
DedupAdjacentDescriptions(doc) ==
  LET Repeats(n) ==
        /\ n > 1 /\ Len(doc) >= 3 /\ doc[n].mark = "text" /\ doc[n].words # <<>>
        /\ Kind[Head(doc[n].words)] = "more"
        /\ LET rest == Tail(doc[n].words)
           IN  /\ Size([mark |-> "text", words |-> rest]) > 15
               /\ \E k \in DOMAIN doc[n - 1].words :
                    SubSeq(doc[n - 1].words, k, Min({k + Len(rest) - 1, Len(doc[n - 1].words)})) = rest
      Before(n) == Max({m \in 0..n : ~Repeats(m)})
  IN  Keep(doc, {n \in DOMAIN doc : ~(Repeats(n) /\ (n - Before(n)) % 2 = 1)})

(* A phrase of two words or more that is repeated at once. *)
CollapseRepeated(tokens) ==
  LET Again(n, size) ==
        /\ n + 2 * size - 1 <= Len(tokens)
        /\ SubSeq(tokens, n, n + size - 1) = SubSeq(tokens, n + size, n + 2 * size - 1)
      Repeated(n) == {size \in 2..(Len(tokens) \div 2) : Again(n, size)}
      Times(n, size) == Min({k \in 1..Len(tokens) : ~Again(n + k * size, size)})
      Longest(n) == Max(Repeated(n))
  IN  IF Len(tokens) < 4 THEN tokens
      ELSE Walked([n \in DOMAIN tokens |->
                     IF Repeated(n) = {} THEN <<tokens[n]>> ELSE SubSeq(tokens, n, n + Longest(n) - 1)],
                  [n \in DOMAIN tokens |->
                     IF Repeated(n) = {} THEN n + 1 ELSE n + (Times(n, Longest(n)) + 1) * Longest(n)])

(* In a list, all items but the last have a comma. *)
DedupRepeatedPhrases(doc) ==
  LET Once(line) ==
        LET comma(m) == line.mark = "list" /\ m < Len(line.words)
            tokens == CollapseRepeated([m \in DOMAIN line.words |-> <<line.words[m], comma(m)>>])
        IN  [line EXCEPT !.words = [m \in DOMAIN tokens |-> tokens[m][1]]]
  IN  Lines([n \in DOMAIN doc |->
               IF ~Outside(doc, n) \/ IsFence(doc[n]) \/ IsHeading(doc[n]) THEN doc[n] ELSE Once(doc[n])])

(* A list of six items or more that is one repeated; equal neighbours.     *)
DedupCommaLists(doc) ==
  LET Cycles(items) ==
        {c \in 1..(Len(items) \div 2) :
           Len(items) % c = 0 /\ \A n \in DOMAIN items : n > c => items[n] = items[n - c]}
      Once(items) ==
        IF Len(items) >= 6 /\ Cycles(items) # {} THEN SubSeq(items, 1, Min(Cycles(items)))
        ELSE Keep(items, {n \in DOMAIN items : n = 1 \/ items[n] # items[n - 1]})
  IN  Lines([n \in DOMAIN doc |-> IF doc[n].mark = "list" THEN [doc[n] EXCEPT !.words = Once(@)] ELSE doc[n]])

-----------------------------------------------------------------------------
(* Headings. *)
(* text_is_duplicate. *)
Restates(words, others) == IsPrefix(words, others) \/ IsPrefix(others, words)

(* A heading and the line after it that restates it become one heading.    *)
DedupHeadingParagraph(doc) ==
  LET Next(n) == LineAfter(doc, n)
      Merges(n) ==
        /\ IsHeading(doc[n]) /\ Next(n) # 0
        /\ \/ doc[Next(n)].mark = "text" /\ Restates(doc[n].words, doc[Next(n)].words)
           \/ doc[Next(n)].mark = "list" /\ doc[n].words = <<Head(doc[Next(n)].words)>>
      Longer(n) == IF Size([doc[n] EXCEPT !.mark = "text"]) < Size(doc[Next(n)])
                   THEN doc[Next(n)].words ELSE doc[n].words
  IN  Walked([n \in DOMAIN doc |-> IF Merges(n) THEN <<[doc[n] EXCEPT !.words = Longer(n)]>> ELSE <<doc[n]>>],
             [n \in DOMAIN doc |-> IF Merges(n) THEN Next(n) + 1 ELSE n + 1])

(* A line that says what some heading says. *)
DedupTextAgainstHeadings(doc) ==
  Keep(doc, {n \in DOMAIN doc :
    doc[n].mark = "text" /\ doc[n] # Blank
      => \A h \in DOMAIN doc : IsHeading(doc[h]) => doc[h].words # doc[n].words})

(* The lines that follow a heading up to a blank line or another heading.  *)
Following(doc, n) ==
  LET first == LineAfter(doc, n)
      end == {m \in first..Len(doc) : doc[m] = Blank \/ IsHeading(doc[m])}
  IN  IF first = 0 THEN {} ELSE first..((IF end = {} THEN Len(doc) + 1 ELSE Min(end)) - 1)

(* A heading seen before goes, and as much of what follows as follows the  *)
(* first.                                                                  *)
Repetition(doc) ==
  LET Same(m, n) == /\ IsHeading(doc[m]) /\ doc[m].mark = doc[n].mark
                    /\ Key(doc[m].words) = Key(doc[n].words)
      FirstOf(n) == Min({m \in 1..n : Same(m, n)})
      Copies == {n \in DOMAIN doc : IsHeading(doc[n]) /\ FirstOf(n) < n}
      Copied(n) ==
        LET mine == Following(doc, n)
            its == Following(doc, FirstOf(n))
            Equal(k) == /\ Min(its) + k \in its
                        /\ Key(doc[Min(mine) + k].words) = Key(doc[Min(its) + k].words)
        IN  IF mine = {} \/ its = {} THEN {}
            ELSE {m \in mine : \A k \in 0..(m - Min(mine)) : Equal(k)}
  IN  Copies \cup UNION {Copied(n) : n \in Copies}
DedupDuplicateHeadings(doc) == Keep(doc, DOMAIN doc \ Repetition(doc))

(* Headings that say nothing. *)
StripEmptyHeadings(doc) ==
  Keep(doc, {n \in DOMAIN doc :
    ~(/\ IsHeading(doc[n])
      /\ \/ Key(doc[n].words) = <<>>
         \/ Len(doc[n].words) = 1 /\ Kind[doc[n].words[1]] = "section")})

(* Headings at the end, or followed by one that is not below them.         *)
StripTrailingEmptyHeadings(doc) ==
  Keep(doc, {n \in DOMAIN doc :
    IsHeading(doc[n]) =>
      LET next == LineAfter(doc, n)
      IN  next # 0 /\ (IsHeading(doc[next]) => Level[doc[next].mark] > Level[doc[n].mark])})

-----------------------------------------------------------------------------
(* Blocks: the lines between blank lines. *)
Closed(scan) == IF scan.open = <<>> THEN scan.done ELSE Append(scan.done, scan.open)
Scanned(scan, line) ==
  IF line = Blank THEN [done |-> Closed(scan), open |-> <<>>]
  ELSE [scan EXCEPT !.open = Append(@, line)]
Blocks(doc) ==
  LET upTo[n \in 0..Len(doc)] ==
        IF n = 0 THEN [done |-> <<>>, open |-> <<>>] ELSE Scanned(upTo[n - 1], doc[n])
  IN  Closed(upTo[Len(doc)])

Joined(blocks) ==
  FlattenSeq([n \in DOMAIN blocks |-> IF n = 1 THEN blocks[n] ELSE <<Blank>> \o blocks[n]])

MinChars == 20                                     \* DEDUP_MIN_CHARS
Fingerprint(block) == FlattenSeq([n \in DOMAIN block |-> Key(block[n].words)])
BlockSize(block) == Sum([n \in DOMAIN block |-> Size(block[n])]) + Len(block) - 1
Unseen == [kept |-> {}, exact |-> {}, prefix |-> {}]

(* Mutant: the prefix is a word too short. *)
SiftedLoosely(seen, block, n) ==
  LET print == Fingerprint(block)
      prefix == IF Len(print) >= PrefixWords THEN {SubSeq(print, 1, PrefixWords - 1)} ELSE {}
  IN  IF BlockSize(block) < MinChars \/ (Len(block) = 1 /\ IsStructural(block[1]))
      THEN [seen EXCEPT !.kept = @ \cup {n}]
      ELSE IF print \in seen.exact THEN seen
      ELSE IF prefix \subseteq seen.prefix /\ prefix # {} THEN [seen EXCEPT !.exact = @ \cup {print}]
      ELSE [kept |-> seen.kept \cup {n}, exact |-> seen.exact \cup {print},
            prefix |-> seen.prefix \cup prefix]

(* The n-th block goes if it is the same as one before, or starts with the *)
(* same words.                                                             *)
Sifted(seen, block, n) ==
  LET print == Fingerprint(block)
      prefix == IF Len(print) >= PrefixWords THEN {SubSeq(print, 1, PrefixWords)} ELSE {}
  IN  IF BlockSize(block) < MinChars \/ (Len(block) = 1 /\ IsStructural(block[1]))
      THEN [seen EXCEPT !.kept = @ \cup {n}]
      ELSE IF print \in seen.exact THEN seen
      ELSE IF prefix \subseteq seen.prefix /\ prefix # {} THEN [seen EXCEPT !.exact = @ \cup {print}]
      ELSE [kept |-> seen.kept \cup {n}, exact |-> seen.exact \cup {print},
            prefix |-> seen.prefix \cup prefix]

(* The places of the blocks that stay, some of which are not looked at.    *)
Fresh(blocks, aside) ==
  LET upTo[n \in 0..Len(blocks)] ==
        IF n = 0 THEN Unseen
        ELSE IF n \in aside THEN [upTo[n - 1] EXCEPT !.kept = @ \cup {n}]
        ELSE Sifted(upTo[n - 1], blocks[n], n)
  IN  upTo[Len(blocks)].kept

(* Blocks in code, or with a fence, are left alone. *)
InCode(blocks, n) ==
  \/ \E m \in DOMAIN blocks[n] : IsFence(blocks[n][m])
  \/ ~Outside(FlattenSeq(SubSeq(blocks, 1, n)), Sum([m \in 1..n |-> Len(blocks[m])]))

DedupContentBlocks(doc) ==
  LET blocks == Blocks(doc)
  IN  Joined(Keep(blocks, Fresh(blocks, {n \in DOMAIN blocks : InCode(blocks, n)})))

(* The same, for the lines of a block of more than two. *)
OnceEach(block) == Keep(block, Fresh([n \in DOMAIN block |-> <<block[n]>>], {}))
DedupLines(doc) ==
  LET blocks == Blocks(doc)
  IN  Joined([n \in DOMAIN blocks |->
                IF InCode(blocks, n) \/ Len(blocks[n]) <= 2 THEN blocks[n] ELSE OnceEach(blocks[n])])

-----------------------------------------------------------------------------
(* Mutant: the closing fence stays. *)
StripEmptyCodeBlocksShort(doc) ==
  LET Next(n) == LineAfter(doc, n)
      Empty(n) == IsFence(doc[n]) /\ Next(n) # 0 /\ IsFence(doc[Next(n)])
  IN  Walked([n \in DOMAIN doc |-> IF Empty(n) THEN <<>> ELSE <<doc[n]>>],
             [n \in DOMAIN doc |-> IF Empty(n) THEN Next(n) ELSE n + 1])

(* A fence, the next fence and the blank lines between them go; the fence  *)
(* that ends a block of code is tried as one that begins a block.          *)
StripEmptyCodeBlocks(doc) ==
  LET Next(n) == LineAfter(doc, n)
      Empty(n) == IsFence(doc[n]) /\ Next(n) # 0 /\ IsFence(doc[Next(n)])
  IN  Walked([n \in DOMAIN doc |-> IF Empty(n) THEN <<>> ELSE <<doc[n]>>],
             [n \in DOMAIN doc |-> IF Empty(n) THEN Next(n) + 1 ELSE n + 1])

(* A short paragraph and the next become one line. *)
MergeStatLines(doc) ==
  LET Next(n) == LineAfter(doc, n)
      Merges(n) ==
        /\ Outside(doc, n) /\ doc[n] # Blank
        /\ Size(doc[n]) <= 25 /\ ~IsStructural(doc[n])
        /\ Next(n) > n + 1 /\ ~IsStructural(doc[Next(n)])
        /\ Size(doc[n]) + 1 + Size(doc[Next(n)]) <= 120
      Both(n) == [mark |-> "text", words |-> doc[n].words \o doc[Next(n)].words]
  IN  Walked([n \in DOMAIN doc |-> <<IF Merges(n) THEN Both(n) ELSE doc[n]>>],
             [n \in DOMAIN doc |-> IF Merges(n) THEN Next(n) + 1 ELSE n + 1])

-----------------------------------------------------------------------------
(* process_body. *)
Unlinked(markdown) ==
  DedupAdjacentDescriptions(StripCssArtifacts(StripLongAltDescriptions(StripUiControlText(
    StripAltTextNoise(StripBareImageRefs(CollapseLogoImages(
      StripA11yLinkChrome(StripLeakedJs(markdown)))))))))

Restated(doc) ==
  DedupTextAgainstHeadings(DedupHeadingParagraph(DedupRepeatedPhrases(
    StripUiControlText(StripBareNumberLines(doc)))))

Reduced(doc) ==
  StripCssClassLines(StripAssetLabels(StripEmptyHeadings(DedupDuplicateHeadings(Restated(doc)))))

Condensed(doc) ==
  MergeStatLines(CollapseWhitespace(StripEmptyCodeBlocks(StripTrailingEmptyHeadings(
    DedupCommaLists(DedupLines(DedupContentBlocks(CollapseWhitespace(doc))))))))

ProcessBody(markdown) ==
  LET doc == Unlinked(markdown) IN [text |-> Condensed(Reduced(doc)), links |-> LinksOf(doc)]

(* Pages of so many pieces, and what a reader gets of them. *)
PageInit == page = <<>> /\ used = 0 /\ body = ProcessBody(<<>>)
Write(piece) ==
  /\ used < MaxPieces
  /\ page' = page \o piece /\ used' = used + 1
  /\ body' = ProcessBody(page')

PageSpec == PageInit /\ [][\E piece \in Pieces : Write(piece)]_pageVars

-----------------------------------------------------------------------------
IsProse(line) ==
  line.mark = "text" /\ line # Blank /\ \A n \in DOMAIN line.words : Kind[line.words[n]] = "prose"
(* The first line of a paragraph.  A row of images takes the lines after   *)
(* it into its own paragraph, also across lines of which nothing is left.  *)
Opens(doc, n) ==
  LET lines == StripA11yLinkChrome(StripLeakedJs(doc))
  IN  /\ IsProse(doc[n]) /\ (n = 1 \/ doc[n - 1] = Blank)
      /\ \A m \in 1..(n - 1) : lines[m].mark = "image" =>
           \E k \in m..(n - 1) : lines[k] # Blank /\ lines[k].mark # "image"

(* What tells a paragraph from another: the words it opens with. *)
Lead(line) == {line.words[n] : n \in 1..Min({PrefixWords, Len(line.words)})}
KeptIn(line, doc) == \E n \in DOMAIN doc : Lead(line) \subseteq Range(doc[n].words)

(* No paragraph is lost: a line that opens with the words it opens with is *)
(* in the text.                                                            *)
EveryParagraphKept == \A n \in DOMAIN page : Opens(page, n) => KeptIn(page[n], body.text)

WordsAt(doc, outside) ==
  UNION {Range(doc[n].words) : n \in {m \in DOMAIN doc : ~IsFence(doc[m]) /\ Outside(doc, m) = outside}}
Said(doc) == WordsAt(doc, TRUE) \cup WordsAt(doc, FALSE)
InHeadings(doc) == UNION {Range(doc[n].words) : n \in {h \in DOMAIN doc : IsHeading(doc[h])}}

(* Whatever stands around it, no pass loses what a paragraph opens with,   *)
(* but for words that a heading says and for a line that goes with a       *)
(* repeated heading; and its links are listed, also those of a paragraph   *)
(* that is dropped because it was there before.                            *)
KeptButForHeadings ==
  \A n \in DOMAIN page :
    Opens(page, n) =>
      /\ LET doc == Restated(Unlinked(page))
         IN  \/ Lead(page[n]) \subseteq Said(body.text) \cup InHeadings(doc)
             \/ \E m \in Repetition(doc) : Lead(page[n]) \subseteq Range(doc[m].words)
      /\ \A w \in Range(page[n].words) :
           Href[w] # NoHref => \E link \in Range(body.links) : link.href = Href[w]

(* Unless a fence goes with a repeated heading, the fences of the text     *)
(* come in pairs if those of the page do, and no word of code ends up      *)
(* outside code, and none of the text in it.                               *)
EndsOutside(doc) == Outside(doc, Len(doc) + 1)
FenceRepeated(doc) == \E n \in Repetition(doc) : IsFence(doc[n])
CodeStaysCode ==
  FenceRepeated(Restated(Unlinked(page))) \/
    /\ EndsOutside(body.text) <=> EndsOutside(page)
    /\ \A outside \in BOOLEAN : WordsAt(body.text, outside) \subseteq WordsAt(page, outside)
=============================================================================
