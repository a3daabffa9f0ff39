------------------------------ MODULE MCCrawl ------------------------------
(* A site of six pages for Crawl.  The seed links to four sections, one of *)
(* which links back to the seed and to a page below that the sitemap names *)
(* too; two sections share a budget of one; two pages have one body.       *)
EXTENDS Crawl
CONSTANTS home, blog, news, shop, tags, post

MCUrls == {home, blog, news, shop, tags, post}
MCLinks ==
  [u \in MCUrls |->
    CASE u = home -> <<blog, news, shop, tags>>
      [] u = blog -> <<post, home>>
      [] OTHER -> <<>>]
MCBody == [u \in MCUrls |-> IF u = shop THEN news ELSE u]
MCSitemap == <<[url |-> post, priority |-> 3]>>
MCLimits == [k \in {"*", "/n"} |-> IF k = "*" THEN 4 ELSE 1]
MCPrefix == [u \in MCUrls |-> IF u \in {shop, tags} THEN "/n" ELSE ""]
=============================================================================
