----------------------------- MODULE Discovery ------------------------------
(***************************************************************************)
(* Sitemap discovery before a crawl (crates/crawler/src/discovery.rs): the *)
(* roots come from the configuration, robots.txt or a standard path, and   *)
(* indexes are resolved depth first, with one set of files seen and one    *)
(* count of files read for the whole walk, both limits on.                 *)
(*                                                                         *)
(* The recursion of resolve_recursive is a stack of what is left of each   *)
(* call's list, the innermost last; the depth of a call is its height.     *)
(* A file is an index, a set of pages or unreadable (sitemap.rs); it may   *)
(* fail to be fetched.  A set of pages stands for the entries in it.       *)
(***************************************************************************)
EXTENDS Naturals, Sequences, FiniteSets, Functions, SequencesExt

CONSTANTS
  Files,          \* URLs that may be sitemaps
  Sites,          \* what the site and the configuration are: records Site
  FileLimits,     \* values of sitemap_max_files
  DepthLimits     \* values of sitemap_max_depth, 0 for none

Site == [explicit : SUBSET Files,         \* sitemap_url, if any
         listed : Seq(Files),             \* the Sitemap: lines of robots.txt
         standard : Seq(Files),           \* /sitemap.xml, /sitemap_index.xml
         kind : [Files -> {"index", "pages", "bad"}],
         nested : [Files -> Seq(Files)],
         kept : SUBSET Files]             \* what sitemap_filter lets through

ASSUME SiteAssumption ==
  /\ IsFiniteSet(Files) /\ Sites \subseteq Site
  /\ \A site \in Sites : Cardinality(site.explicit) <= 1
  /\ FileLimits \subseteq Nat /\ DepthLimits \subseteq Nat

VARIABLES
  site, maxFiles, maxDepth,
  finding,        \* where find_sitemaps is
  stack,          \* what is left of the list of each call of resolve_recursive
  seenFiles, failedFiles, collected, filesFound,
  roots           \* what find_sitemaps returned

siteVars == <<site, maxFiles, maxDepth>>
walkVars == <<stack, seenFiles, failedFiles, collected, filesFound>>
discoveryVars == <<siteVars, finding, walkVars, roots>>

(* No walk is as deep as there are files: each call but the first follows  *)
(* an index not seen before.                                               *)
Unlimited == Cardinality(Files) + 1

DiscoveryInit ==
  /\ site \in Sites /\ maxFiles \in FileLimits
  /\ \E limit \in DepthLimits : maxDepth = IF limit = 0 THEN Unlimited ELSE limit
  /\ finding = "configuration" /\ roots = <<>>
  /\ stack = <<>> /\ seenFiles = {} /\ failedFiles = {} /\ collected = <<>> /\ filesFound = 0

(* find_sitemaps has its answer. *)
Resolve(list) ==
  /\ roots' = list /\ stack' = <<list>> /\ finding' = "walk"
  /\ UNCHANGED <<siteVars, seenFiles, failedFiles, collected, filesFound>>

LookFurther(where) == finding' = where /\ UNCHANGED <<siteVars, walkVars, roots>>

Configured ==
  /\ finding = "configuration"
  /\ IF site.explicit # {} THEN Resolve(SetToSeq(site.explicit)) ELSE LookFurther("robots")

(* robots.txt is fetched; it may not come, or list nothing. *)
ReadRobots ==
  /\ finding = "robots"
  /\ \/ site.listed # <<>> /\ Resolve(site.listed)
     \/ LookFurther("standard")

(* The standard paths in turn: the first that answers with something like  *)
(* XML is the only root.                                                   *)
TryStandard ==
  /\ finding = "standard"
  /\ \/ \E n \in DOMAIN site.standard : Resolve(<<site.standard[n]>>)
     \/ LookFurther("done")

-----------------------------------------------------------------------------
Url == Head(Last(stack))
Callers == Front(stack)
Rest == Append(Callers, Tail(Last(stack)))
Depth == Len(stack) - 1
Walking == finding = "walk" /\ stack # <<>>
AtFile == Walking /\ Last(stack) # <<>> /\ filesFound < maxFiles

(* Mutant: the end of an inner list ends the walk. *)
ReturnAll ==
  /\ Walking /\ (Last(stack) = <<>> \/ filesFound >= maxFiles)
  /\ stack' = <<>>
  /\ UNCHANGED <<siteVars, finding, seenFiles, failedFiles, collected, filesFound, roots>>

(* A list is done, or the limit on files reached: the call returns. *)
ReturnToCaller ==
  /\ Walking /\ (Last(stack) = <<>> \/ filesFound >= maxFiles)
  /\ stack' = Callers
  /\ UNCHANGED <<siteVars, finding, seenFiles, failedFiles, collected, filesFound, roots>>

SkipSeen ==
  /\ AtFile /\ Url \in seenFiles
  /\ stack' = Rest
  /\ UNCHANGED <<siteVars, finding, seenFiles, failedFiles, collected, filesFound, roots>>

(* A file that cannot be fetched stays seen, and is not counted. *)
FetchFails ==
  /\ AtFile /\ Url \notin seenFiles
  /\ seenFiles' = seenFiles \cup {Url} /\ failedFiles' = failedFiles \cup {Url}
  /\ stack' = Rest
  /\ UNCHANGED <<siteVars, finding, collected, filesFound, roots>>

(* What sitemap_filter leaves of a list, in its order.  (A function rather *)
(* than SelectSeq: CollectionProofs is about it.)                           *)
Filtered(list) ==
  LET kept[n \in 0..Len(list)] ==
        IF n = 0 THEN <<>>
        ELSE IF list[n] \in site.kept THEN Append(kept[n - 1], list[n]) ELSE kept[n - 1]
  IN  kept[Len(list)]

ReadFile ==
  /\ AtFile /\ Url \notin seenFiles
  /\ seenFiles' = seenFiles \cup {Url} /\ filesFound' = filesFound + 1
  /\ collected' = IF site.kind[Url] = "pages" THEN Append(collected, Url) ELSE collected
  /\ stack' = IF site.kind[Url] = "index" /\ Depth < maxDepth
              THEN Append(Rest, Filtered(site.nested[Url]))
              ELSE Rest
  /\ UNCHANGED <<siteVars, finding, failedFiles, roots>>

WalkEnds ==
  /\ finding = "walk" /\ stack = <<>>
  /\ LookFurther("done")

DiscoveryNext ==
  \/ Configured \/ ReadRobots \/ TryStandard
  \/ ReturnToCaller \/ SkipSeen \/ FetchFails \/ ReadFile \/ WalkEnds

DiscoverySpec == DiscoveryInit /\ [][DiscoveryNext]_discoveryVars

-----------------------------------------------------------------------------
(* What is nested in the files of a set that are indexes and came. *)
NestedIn(files) ==
  UNION {Range(site.nested[f]) \cap site.kept :
           f \in {g \in files \ failedFiles : site.kind[g] = "index"}}

(* The files at most so many indexes below the roots. *)
ReachableWithin[n \in Nat] ==
  IF n = 0 THEN Range(roots) ELSE ReachableWithin[n - 1] \cup NestedIn(ReachableWithin[n - 1])
Reachable == ReachableWithin[maxDepth]

(* Every set of pages that failures leave reachable is collected, once, on *)
(* cyclic and on shared sitemaps, unless a limit cuts the walk; and never  *)
(* one from below the limit on depth.                                      *)
CollectsTheReachable ==
  /\ IsInjective(collected)
  /\ \A f \in Range(collected) : f \in Reachable
  /\ finding = "done" /\ filesFound < maxFiles /\ maxDepth = Unlimited
       => Range(collected) = {f \in Reachable \ failedFiles : site.kind[f] = "pages"}
=============================================================================
